--------------------------- MODULE WorkflowProofs ---------------------------
(***************************************************************************)
(* Cases and templates, for any number of cases, steps and transactions:   *)
(* types, StepsAreNumbered, OneTaskWhileRunning, OpenTaskKeepsItsStep.     *)
(*                                                                         *)
(* The properties are about what is committed.  The invariant says what    *)
(* will be committed: which rows a transaction may hold at each point,     *)
(* and that with the rows it holds at its commit its case sits on one task *)
(* or is over.  At the end, the deadline a step's task gets.               *)
(***************************************************************************)
EXTENDS Workflow, Deadlines, FiniteSetTheorems, TLAPS

(***************************************************************************)
(* The tables                                                              *)
(***************************************************************************)
\* The live steps of a table are numbered 1..n.
Numbered(rows) ==
  /\ \A st, u \in Live(rows) : rows[st].order = rows[u].order => st = u
  /\ {rows[st].order : st \in Live(rows)} = 1 .. Cardinality(Live(rows))

\* A case of this status waits on one of these tasks, or there are none.
Sits(status, open) ==
  IF status = "in_progress" THEN \E t \in open : open = {t} ELSE open = {}

\* A row that nobody holds is as it was committed.
UnlockedIsCommitted ==
  /\ lock[Template] = Free => templateTip = template /\ stepTip = step
  /\ \A c \in Cases : lock[c] = Free => caseTip[c] = case[c]
  /\ \A t \in Tasks : lock[t] = Free => taskTip[t] = task[t]

\* A task that somebody holds is there; if it is open, then it is new, and its maker
\* holds the template, in which its step is live.
HeldTasksAreSound ==
  \A t \in Tasks : lock[t] # Free =>
    /\ taskTip[t].status # "absent"
    /\ IsOpen(taskTip[t]) => lock[Template] = lock[t] /\ taskTip[t].step \in Live(step)

TablesAreSound ==
  /\ UnlockedIsCommitted
  /\ HeldTasksAreSound
  /\ \A c \in Cases : Sits(case[c], OpenTasks(c))
  /\ \A c \in Cases : case[c] = "absent" => \A t \in TasksOf(c) : task[t].status = "absent"
  /\ \A t \in Tasks : IsOpen(task[t]) => task[t].step \in Live(step) \cap Live(stepTip)
  /\ Numbered(step) /\ Numbered(stepTip)

(***************************************************************************)
(* The transactions                                                        *)
(***************************************************************************)
RowsOf(c) == {c} \cup TasksOf(c)

CaseOps == {"start", "end_task", "cancel_case"}

\* The rows a transaction may hold.
MayHold(k) ==
  CASE k.pc = "lock_case" /\ k.op = "end_task" -> {k.t}
    [] k.pc = "move_on" -> {k.t, k.c}
    [] k.pc = "list_tasks" -> {k.c}
    [] k.pc = "cancel_tasks" -> RowsOf(k.c)
    [] k.pc = "commit" /\ k.op \in {"start", "end_task"} -> {Template} \cup RowsOf(k.c)
    [] k.pc = "commit" /\ k.op = "cancel_case" -> RowsOf(k.c)
    [] k.pc = "commit" /\ k.op \in StepOps \cup TemplateOps -> {Template}
    [] OTHER -> {}

\* What transaction s makes of a task.
Becomes(s, t) == IF lock[t] = s THEN taskTip[t] ELSE task[t]

\* At each point: which operations come there.
Operations(pc) ==
  CASE pc = "lock_template" -> {"start"} \cup StepOps
    [] pc = "write_template" -> TemplateOps
    [] pc \in {"end_task", "move_on"} -> {"end_task"}
    [] pc = "lock_case" -> {"end_task", "cancel_case"}
    [] pc \in {"list_tasks", "cancel_tasks"} -> {"cancel_case"}
    [] pc = "commit" -> AllOps
    [] OTHER -> {"none"}

\* A case about to be made, a step about to be added: nobody else has it.
FreshIsFresh(s) ==
  /\ call[s].pc = "lock_template" /\ call[s].op = "start" =>
       /\ case[call[s].c] = "absent"
       /\ \A r \in Sessions \ {s} : call[r].c # call[s].c
  /\ call[s].pc = "lock_template" /\ call[s].op = "add_step" =>
       /\ step[call[s].st].state = "absent" /\ stepTip[call[s].st].state = "absent"
       /\ \A r \in Sessions \ {s} : call[r].st # call[s].st

\* The task that s ends, and the case that s moves on.
EndingIsSound(s) ==
  /\ call[s].op = "end_task" => call[s].t \in TasksOf(call[s].c)
  /\ call[s].op = "end_task" /\ call[s].pc \in {"lock_case", "move_on"} =>
       lock[call[s].t] = s /\ IsOpen(task[call[s].t]) /\ taskTip[call[s].t].status = "ended"
  /\ call[s].pc = "move_on" =>
       lock[call[s].c] = s /\ case[call[s].c] = "in_progress" /\ caseTip[call[s].c] = "in_progress"

\* The case that s cancels, and its tasks.
CancelIsSound(s) ==
  /\ call[s].pc \in {"list_tasks", "cancel_tasks"} =>
       lock[call[s].c] = s /\ caseTip[call[s].c] = "cancelled"
  /\ call[s].pc = "cancel_tasks" =>
       /\ call[s].todo \subseteq TasksOf(call[s].c)
       /\ \A t \in TasksOf(call[s].c) :
            /\ IsOpen(task[t]) => t \in call[s].todo \/ lock[t] = s
            /\ lock[t] = s => ~IsOpen(taskTip[t])

\* What s commits.
CommitIsSound(s) ==
  call[s].pc = "commit" /\ call[s].op \in CaseOps =>
    /\ lock[call[s].c] = s
    /\ caseTip[call[s].c] # "absent"
    /\ Sits(caseTip[call[s].c], {t \in TasksOf(call[s].c) : IsOpen(Becomes(s, t))})

\* Who holds the template has changed the row itself or its steps, not both, and made
\* no step but its own.
TemplateIsSound(s) ==
  lock[Template] = s =>
    /\ call[s].op \in StepOps => templateTip = template
    /\ call[s].op \notin StepOps => stepTip = step
    /\ \A st \in Steps : step[st].state = "absent" /\ stepTip[st].state # "absent" =>
         call[s].op = "add_step" /\ st = call[s].st

CallIsSound(s) ==
  /\ call[s].op \in Operations(call[s].pc)
  /\ call[s].op \in CaseOps => call[s].c \in Cases
  /\ call[s].op \in {"add_step", "delete_step"} => call[s].st \in Steps
  /\ \A row \in Rows : lock[row] = s => row \in MayHold(call[s])
  /\ TemplateIsSound(s)
  /\ FreshIsFresh(s)
  /\ EndingIsSound(s)
  /\ CancelIsSound(s)
  /\ CommitIsSound(s)

CallsAreSound == \A s \in Sessions : CallIsSound(s)

WorkflowInvariant == TypeOK /\ TablesAreSound /\ CallsAreSound

(***************************************************************************)
(* Lemmas                                                                  *)
(***************************************************************************)
\* Rows of different tables differ, and a task is a task of its case.
LEMMA RowsAreApart ==
  /\ \A c \in Cases : c \in Rows /\ c # Template /\ c \notin Tasks
  /\ \A t \in Tasks : t \in Rows /\ t # Template /\ t \notin Cases
  /\ Template \in Rows
  /\ \A c \in Cases : TasksOf(c) \subseteq Tasks
  /\ \A c, d \in Cases : \A t \in TasksOf(c) : t \in TasksOf(d) => c = d
  /\ \A t \in Tasks : t[1] \in Cases /\ t \in TasksOf(t[1])
BY RowsAssumption DEF Rows, Tasks, TasksOf

\* Whoever holds a case or a task is at work on that case.
LEMMA HoldersKnowTheCase ==
  ASSUME WorkflowInvariant, NEW s \in Sessions
  PROVE  /\ \A c \in Cases : lock[c] = s => call[s].op \in CaseOps /\ call[s].c = c
         /\ \A t \in Tasks : lock[t] = s =>
              call[s].op \in CaseOps /\ call[s].c \in Cases /\ t \in TasksOf(call[s].c)
<1> DEFINE k == call[s]
<1>1. CallIsSound(s) /\ k \in Call
  BY DEF WorkflowInvariant, CallsAreSound, TypeOK
<1>2. k.pc \in {"lock_case", "move_on", "list_tasks", "cancel_tasks"} => k.op \in CaseOps
  BY <1>1 DEF CallIsSound, Operations, CaseOps
<1>3. k.op \in CaseOps => k.c \in Cases
  BY <1>1 DEF CallIsSound
<1>4. k.op = "end_task" => k.t \in TasksOf(k.c)
  BY <1>1 DEF CallIsSound, EndingIsSound
<1>5. k.pc = "move_on" => k.op = "end_task"
  BY <1>1 DEF CallIsSound, Operations
<1>6. ASSUME NEW row, row \in MayHold(k), row # Template
      PROVE  k.op \in CaseOps /\ row \in RowsOf(k.c)
  BY <1>1, <1>2, <1>3, <1>4, <1>5, <1>6 DEF MayHold, RowsOf, CaseOps
<1>7. \A row \in Rows : lock[row] = s => row \in MayHold(k)
  BY <1>1 DEF CallIsSound
<1> QED
  BY <1>3, <1>6, <1>7, RowsAreApart DEF RowsOf

\* The step with the least position is there: positions have no gaps.
LEMMA FirstIsThere ==
  ASSUME WorkflowInvariant, NEW st \in Steps
  PROVE  /\ Live(step) # {} => First(Live(step)) \in Live(step)
         /\ st \in Live(step) /\ StepsAfter(st) # {} => First(StepsAfter(st)) \in StepsAfter(st)
<1> DEFINE n == Cardinality(Live(step))
<1>1. /\ \A u \in Steps : step[u].order \in Nat
      /\ Live(step) \subseteq Steps
      /\ {step[u].order : u \in Live(step)} = 1 .. n
  BY DEF WorkflowInvariant, TypeOK, StepRow, TablesAreSound, Numbered, Live
<1>2. n \in Nat
  BY <1>1, WorkflowAssumption, FS_Subset, FS_CardinalityType
<1> HIDE DEF n
<1>3. ASSUME Live(step) # {} PROVE First(Live(step)) \in Live(step)
  <2>1. PICK u \in Live(step) : step[u].order = 1
    BY <1>1, <1>2, <1>3
  <2>2. \A v \in Live(step) : step[u].order <= step[v].order
    BY <1>1, <1>2, <2>1
  <2> QED
    BY <2>2 DEF First
<1>4. ASSUME st \in Live(step), StepsAfter(st) # {} PROVE First(StepsAfter(st)) \in StepsAfter(st)
  <2>1. PICK m \in StepsAfter(st) : TRUE
    BY <1>4
  <2>2. m \in Live(step) /\ step[m].order > step[st].order /\ step[st].order \in 1 .. n /\ step[m].order \in 1 .. n
    BY <1>1, <1>4, <2>1 DEF StepsAfter
  <2>3. PICK u \in Live(step) : step[u].order = step[st].order + 1
    <3>1. step[st].order + 1 \in 1 .. n
      BY <1>2, <2>2
    <3> QED
      BY <1>1, <3>1
  <2>4. u \in StepsAfter(st) /\ \A v \in StepsAfter(st) : step[u].order <= step[v].order
    BY <1>1, <1>4, <2>3 DEF StepsAfter
  <2> QED
    BY <2>4 DEF First
<1> QED
  BY <1>3, <1>4

(***************************************************************************)
(* What a statement does to the others: nothing                            *)
(***************************************************************************)
\* A transaction is sound as long as the rows it holds, what is committed and what
\* it is doing stay; a new one needs that nobody takes up what is to be new.
LEMMA OthersStaySound ==
  ASSUME WorkflowInvariant, NEW r \in Sessions, UNCHANGED committed, call'[r] = call[r],
         \A row \in Rows : lock'[row] = r <=> lock[row] = r,
         lock[Template] = r => UNCHANGED <<templateTip, stepTip>>,
         \A c \in Cases : lock[c] = r => caseTip'[c] = caseTip[c],
         \A t \in Tasks : lock[t] = r => taskTip'[t] = taskTip[t],
         FreshIsFresh(r)'
  PROVE  CallIsSound(r)'
<1> USE DEF committed
<1>1. CallIsSound(r) /\ call[r] \in Call
  BY DEF WorkflowInvariant, CallsAreSound, TypeOK
<1>2. /\ call'[r].op \in Operations(call'[r].pc)
      /\ call'[r].op \in CaseOps => call'[r].c \in Cases
      /\ call'[r].op \in {"add_step", "delete_step"} => call'[r].st \in Steps
  BY <1>1 DEF CallIsSound
<1>3. \A row \in Rows : lock'[row] = r => row \in MayHold(call'[r])
  BY <1>1 DEF CallIsSound
<1>4. TemplateIsSound(r)'
  BY <1>1, RowsAreApart DEF CallIsSound, TemplateIsSound
<1>5. EndingIsSound(r)'
  <2>1. call[r].op = "end_task" => call[r].t \in Tasks /\ call[r].c \in Cases
    BY <1>1, RowsAreApart DEF CallIsSound, EndingIsSound, CaseOps
  <2>2. call[r].pc = "move_on" => call[r].op = "end_task"
    BY <1>1 DEF CallIsSound, Operations
  <2> QED
    BY <1>1, <2>1, <2>2, RowsAreApart DEF CallIsSound, EndingIsSound
<1>6. CancelIsSound(r)'
  <2>1. call[r].pc \in {"list_tasks", "cancel_tasks"} => call[r].c \in Cases
    BY <1>1 DEF CallIsSound, Operations, CaseOps
  <2>2. call[r].pc \in {"list_tasks", "cancel_tasks"} =>
          \A t \in TasksOf(call[r].c) : t \in Tasks /\ t \in Rows
    BY <2>1, RowsAreApart
  <2>3. call[r].pc \in {"list_tasks", "cancel_tasks"} =>
          lock'[call[r].c] = r /\ caseTip'[call[r].c] = "cancelled"
    BY <1>1, <2>1, RowsAreApart DEF CallIsSound, CancelIsSound
  <2>4. call[r].pc = "cancel_tasks" =>
          /\ call[r].todo \subseteq TasksOf(call[r].c)
          /\ \A t \in TasksOf(call[r].c) :
               /\ IsOpen(task[t]) => t \in call[r].todo \/ lock'[t] = r
               /\ lock'[t] = r => ~IsOpen(taskTip'[t])
    BY <1>1, <2>1, <2>2 DEF CallIsSound, CancelIsSound
  <2> QED
    BY <2>3, <2>4 DEF CancelIsSound
<1>7. CommitIsSound(r)'
  <2> SUFFICES ASSUME call[r].pc = "commit", call[r].op \in CaseOps
               PROVE  /\ lock'[call[r].c] = r
                      /\ caseTip'[call[r].c] # "absent"
                      /\ Sits(caseTip'[call[r].c], {t \in TasksOf(call[r].c) : IsOpen(Becomes(r, t)')})
    BY DEF CommitIsSound
  <2>1. call[r].c \in Cases
    BY <1>1 DEF CallIsSound
  <2>2. lock[call[r].c] = r /\ caseTip[call[r].c] # "absent"
        /\ Sits(caseTip[call[r].c], {t \in TasksOf(call[r].c) : IsOpen(Becomes(r, t))})
    BY <1>1 DEF CallIsSound, CommitIsSound
  <2>3. lock'[call[r].c] = r /\ caseTip'[call[r].c] = caseTip[call[r].c]
    BY <2>1, <2>2, RowsAreApart
  <2>4. \A t \in TasksOf(call[r].c) : Becomes(r, t)' = Becomes(r, t)
    BY <2>1, RowsAreApart DEF Becomes
  <2>5. {t \in TasksOf(call[r].c) : IsOpen(Becomes(r, t)')} = {t \in TasksOf(call[r].c) : IsOpen(Becomes(r, t))}
    BY <2>4
  <2> QED
    BY <2>2, <2>3, <2>5
<1> QED
  BY <1>2, <1>3, <1>4, <1>5, <1>6, <1>7 DEF CallIsSound

\* A statement of s that takes rows nobody else holds, and writes rows that it holds.
LEMMA StatementsKeep ==
  ASSUME WorkflowInvariant, NEW s \in Sessions, NEW k \in Call, NEW rows,
         UNCHANGED committed,
         call' = [call EXCEPT ![s] = k],
         k.op = call[s].op, k.c = call[s].c, k.st = call[s].st,
         Take(s, rows), \A row \in rows : CanLock(s, row),
         templateTip' \in TemplateRow, stepTip' \in [Steps -> StepRow],
         caseTip' \in [Cases -> CaseStatus], taskTip' \in [Tasks -> TaskRow],
         lock'[Template] # s => UNCHANGED <<templateTip, stepTip>>,
         \A c \in Cases : lock'[c] # s => caseTip'[c] = caseTip[c],
         \A t \in Tasks : lock'[t] # s => taskTip'[t] = taskTip[t],
         \A t \in Tasks : lock'[t] = s =>
           /\ taskTip'[t].status # "absent"
           /\ IsOpen(taskTip'[t]) => lock'[Template] = s /\ taskTip'[t].step \in Live(step),
         \A t \in Tasks : IsOpen(task[t]) => task[t].step \in Live(stepTip'),
         Numbered(stepTip'),
         \A st \in Steps : stepTip[st].state = "absent" =>
           \/ stepTip'[st].state = "absent"
           \/ call[s].pc = "lock_template" /\ call[s].op = "add_step" /\ st = call[s].st,
         CallIsSound(s)'
  PROVE  WorkflowInvariant'
<1> USE DEF committed
<1>1. TypeOK
  BY DEF WorkflowInvariant
<1>2. /\ \A row \in Rows : lock'[row] = IF row \in rows THEN s ELSE lock[row]
      /\ lock' \in [Rows -> Sessions \cup {Free}]
  BY <1>1 DEF Take, TypeOK
<1>3. \A r \in Sessions \ {s}, row \in Rows : lock'[row] = r <=> lock[row] = r
  BY <1>2, WorkflowAssumption DEF CanLock
<1>4. \A row \in Rows : lock'[row] # s => lock'[row] = lock[row]
  BY <1>2
<1>5. TypeOK'
  BY <1>1, <1>2 DEF TypeOK
<1>6. TablesAreSound'
  <2>1. UnlockedIsCommitted'
    <3>1. \A row \in Rows : lock'[row] = Free => lock[row] = Free /\ lock'[row] # s
      BY <1>4, WorkflowAssumption
    <3> QED
      BY <3>1, RowsAreApart DEF WorkflowInvariant, TablesAreSound, UnlockedIsCommitted
  <2>2. HeldTasksAreSound'
    <3> SUFFICES ASSUME NEW t \in Tasks, lock'[t] # Free, lock'[t] # s
                 PROVE  /\ taskTip'[t].status # "absent"
                        /\ IsOpen(taskTip'[t]) => lock'[Template] = lock'[t] /\ taskTip'[t].step \in Live(step)
      BY DEF HeldTasksAreSound
    <3>1. lock'[t] = lock[t] /\ taskTip'[t] = taskTip[t] /\ lock[t] \in Sessions \ {s}
      BY <1>1, <1>4, RowsAreApart DEF TypeOK
    <3>2. taskTip[t].status # "absent" /\ (IsOpen(taskTip[t]) => lock[Template] = lock[t] /\ taskTip[t].step \in Live(step))
      BY <3>1 DEF WorkflowInvariant, TablesAreSound, HeldTasksAreSound
    <3> QED
      BY <1>3, <3>1, <3>2, RowsAreApart
  <2>3. /\ \A c \in Cases : Sits(case'[c], OpenTasks(c)')
        /\ \A c \in Cases : case'[c] = "absent" => \A t \in TasksOf(c) : task'[t].status = "absent"
    BY DEF WorkflowInvariant, TablesAreSound, OpenTasks
  <2>4. \A t \in Tasks : IsOpen(task'[t]) => task'[t].step \in Live(step') \cap Live(stepTip')
    BY DEF WorkflowInvariant, TablesAreSound
  <2>5. Numbered(step') /\ Numbered(stepTip')
    BY DEF WorkflowInvariant, TablesAreSound
  <2> QED
    BY <2>1, <2>2, <2>3, <2>4, <2>5 DEF TablesAreSound
<1>7. ASSUME NEW r \in Sessions, r # s PROVE CallIsSound(r)'
  <2>1. call'[r] = call[r] /\ call'[s] = k
    BY <1>1, <1>7 DEF TypeOK
  <2>2. \A q \in Sessions : call'[q].c = call[q].c /\ call'[q].st = call[q].st
    BY <1>1, <2>1 DEF TypeOK
  <2>3. FreshIsFresh(r)'
    <3>1. CallIsSound(r)
      BY DEF WorkflowInvariant, CallsAreSound
    <3>2. call[r].op = "add_step" => call[r].st \in Steps
      BY <3>1 DEF CallIsSound
    <3> QED
      BY <1>7, <2>1, <2>2, <3>1, <3>2 DEF CallIsSound, FreshIsFresh
  <2>4. /\ lock[Template] = r => UNCHANGED <<templateTip, stepTip>>
        /\ \A c \in Cases : lock[c] = r => caseTip'[c] = caseTip[c]
        /\ \A t \in Tasks : lock[t] = r => taskTip'[t] = taskTip[t]
    BY <1>3, <1>7, RowsAreApart
  <2> QED
    BY <1>3, <1>7, <2>1, <2>3, <2>4, OthersStaySound
<1> QED
  BY <1>5, <1>6, <1>7 DEF WorkflowInvariant, CallsAreSound


\* A transaction that fails gives everything back.
LEMMA RollbackKeeps ==
  ASSUME WorkflowInvariant, NEW s \in Sessions, RolledBack(s), UNCHANGED committed
  PROVE  WorkflowInvariant'
<1> USE DEF committed
<1>1. TypeOK
  BY DEF WorkflowInvariant
<1>2. \A row \in Rows : lock'[row] = IF lock[row] = s THEN Free ELSE lock[row]
  BY DEF RolledBack, Release
<1>3. \A r \in Sessions \ {s}, row \in Rows : lock'[row] = r <=> lock[row] = r
  BY <1>2, WorkflowAssumption
<1>4. Idle \in Call
  BY DEF Idle, Call
<1>5. call' = [call EXCEPT ![s] = Idle] /\ call'[s] = Idle /\ \A r \in Sessions \ {s} : call'[r] = call[r]
  BY <1>1 DEF RolledBack, TypeOK
<1>6. TypeOK'
  <2>1. lock' \in [Rows -> Sessions \cup {Free}]
    BY <1>1 DEF RolledBack, Release, TypeOK
  <2>2. /\ templateTip' \in TemplateRow /\ stepTip' \in [Steps -> StepRow]
        /\ caseTip' \in [Cases -> CaseStatus] /\ taskTip' \in [Tasks -> TaskRow]
    BY <1>1 DEF RolledBack, Newest, TypeOK
  <2> QED
    BY <1>1, <1>4, <1>5, <2>1, <2>2 DEF TypeOK
<1>7. /\ lock[Template] # s => UNCHANGED <<templateTip, stepTip>>
      /\ lock[Template] = s => templateTip' = template /\ stepTip' = step
      /\ \A c \in Cases : caseTip'[c] = IF lock[c] = s THEN case[c] ELSE caseTip[c]
      /\ \A t \in Tasks : taskTip'[t] = IF lock[t] = s THEN task[t] ELSE taskTip[t]
  BY DEF RolledBack, Newest
<1>8. TablesAreSound'
  <2>1. UnlockedIsCommitted'
    BY <1>2, <1>7, RowsAreApart DEF WorkflowInvariant, TablesAreSound, UnlockedIsCommitted
  <2>2. HeldTasksAreSound'
    <3> SUFFICES ASSUME NEW t \in Tasks, lock'[t] # Free
                 PROVE  /\ taskTip'[t].status # "absent"
                        /\ IsOpen(taskTip'[t]) => lock'[Template] = lock'[t] /\ taskTip'[t].step \in Live(step)
      BY DEF HeldTasksAreSound
    <3>1. lock'[t] = lock[t] /\ taskTip'[t] = taskTip[t] /\ lock[t] \in Sessions \ {s}
      BY <1>1, <1>2, <1>7, RowsAreApart DEF TypeOK
    <3>2. taskTip[t].status # "absent" /\ (IsOpen(taskTip[t]) => lock[Template] = lock[t] /\ taskTip[t].step \in Live(step))
      BY <3>1, WorkflowAssumption DEF WorkflowInvariant, TablesAreSound, HeldTasksAreSound
    <3> QED
      BY <1>3, <3>1, <3>2, RowsAreApart
  <2>3. /\ \A c \in Cases : Sits(case'[c], OpenTasks(c)')
        /\ \A c \in Cases : case'[c] = "absent" => \A t \in TasksOf(c) : task'[t].status = "absent"
    BY DEF WorkflowInvariant, TablesAreSound, OpenTasks
  <2>4. \A t \in Tasks : IsOpen(task'[t]) => task'[t].step \in Live(step') \cap Live(stepTip')
    BY <1>7 DEF WorkflowInvariant, TablesAreSound
  <2>5. Numbered(step') /\ Numbered(stepTip')
    BY <1>7 DEF WorkflowInvariant, TablesAreSound
  <2> QED
    BY <2>1, <2>2, <2>3, <2>4, <2>5 DEF TablesAreSound
<1>9. CallIsSound(s)'
  <2>1. \A row \in Rows : lock'[row] # s
    BY <1>2, WorkflowAssumption
  <2>2. Idle.op = "none" /\ Idle.pc = "idle"
    BY DEF Idle
  <2> QED
    BY <1>5, <2>1, <2>2, RowsAreApart
    DEF CallIsSound, Operations, TemplateIsSound, FreshIsFresh, EndingIsSound, CancelIsSound, CommitIsSound,
        CaseOps
<1>10. ASSUME NEW r \in Sessions, r # s PROVE CallIsSound(r)'
  <2>1. CallIsSound(r)
    BY DEF WorkflowInvariant, CallsAreSound
  <2>2. /\ call[r].op = "start" => call[r].c \in Cases
        /\ call[r].op = "add_step" => call[r].st \in Steps
    BY <2>1 DEF CallIsSound, CaseOps
  <2>3. Idle.c = Null /\ Idle.st = Null
    BY DEF Idle
  <2>4. FreshIsFresh(r)'
    BY <1>5, <1>7, <1>10, <2>1, <2>2, <2>3, WorkflowAssumption DEF CallIsSound, FreshIsFresh
  <2>5. /\ lock[Template] = r => UNCHANGED <<templateTip, stepTip>>
        /\ \A c \in Cases : lock[c] = r => caseTip'[c] = caseTip[c]
        /\ \A t \in Tasks : lock[t] = r => taskTip'[t] = taskTip[t]
    BY <1>7, <1>10
  <2> QED
    BY <1>3, <1>5, <1>10, <2>4, <2>5, OthersStaySound
<1> QED
  BY <1>6, <1>8, <1>9, <1>10 DEF WorkflowInvariant, CallsAreSound

\* A request begins: it holds nothing and takes up nothing that another one made.
LEMMA BeginKeeps ==
  ASSUME WorkflowInvariant, NEW s \in Sessions, NEW op, NEW pc, NEW c, NEW t, NEW st, Begin(s, op, pc, c, t, st),
         op \in Operations(pc), pc \in {"lock_template", "write_template", "end_task", "lock_case"},
         c \in Cases \cup {Null}, t \in Tasks \cup {Null}, st \in Steps \cup {Null},
         op \in CaseOps => c \in Cases,
         op \in {"add_step", "delete_step"} => st \in Steps,
         op = "end_task" => pc = "end_task" /\ t \in TasksOf(c),
         op = "start" => case[c] = "absent" /\ \A r \in Sessions \ {s} : call[r].c # c,
         op = "add_step" => /\ step[st].state = "absent" /\ stepTip[st].state = "absent"
                            /\ \A r \in Sessions \ {s} : call[r].st # st,
         \A r \in Sessions \ {s} :
           /\ call[r].pc = "lock_template" /\ call[r].op = "start" => c # call[r].c
           /\ call[r].pc = "lock_template" /\ call[r].op = "add_step" => st # call[r].st
  PROVE  WorkflowInvariant'
<1> DEFINE k == [Idle EXCEPT !.op = op, !.pc = pc, !.c = c, !.t = t, !.st = st]
<1>1. TypeOK /\ UNCHANGED tables
  BY DEF WorkflowInvariant, Begin
<1>2. op \in AllOps
  BY DEF Operations, AllOps, StepOps, TemplateOps
<1>3. call' = [call EXCEPT ![s] = k]
  BY DEF Begin
<1>4. call'[s] = k /\ \A r \in Sessions \ {s} : call'[r] = call[r]
  BY <1>1, <1>3 DEF TypeOK
<1>5. /\ k \in Call
      /\ k.op = op /\ k.pc = pc /\ k.c = c /\ k.t = t /\ k.st = st
  <2>1. pc \in {"idle", "lock_template", "write_template", "end_task", "lock_case", "move_on", "list_tasks",
               "cancel_tasks", "commit"}
    OBVIOUS
  <2> QED
    BY <1>2, <2>1 DEF Call, Idle
<1>6. TypeOK'
  BY <1>1, <1>3, <1>5 DEF TypeOK, tables, committed, tips
<1>7. TablesAreSound'
  BY <1>1 DEF WorkflowInvariant, TablesAreSound, UnlockedIsCommitted, HeldTasksAreSound, OpenTasks, tables,
              committed, tips
<1>8. \A row \in Rows : lock[row] # s
  <2>1. CallIsSound(s) /\ call[s] = Idle
    BY DEF WorkflowInvariant, CallsAreSound, Begin
  <2>2. MayHold(call[s]) = {}
    BY <2>1 DEF MayHold, Idle
  <2> QED
    BY <2>1, <2>2 DEF CallIsSound
<1>9. CallIsSound(s)'
  <2> HIDE DEF k
  <2>1. call'[s].op = op /\ call'[s].pc = pc /\ call'[s].c = c /\ call'[s].t = t /\ call'[s].st = st
    BY <1>4, <1>5
  <2>2. /\ call'[s].op \in Operations(call'[s].pc)
        /\ call'[s].op \in CaseOps => call'[s].c \in Cases
        /\ call'[s].op \in {"add_step", "delete_step"} => call'[s].st \in Steps
    BY <2>1
  <2>3. \A row \in Rows : lock'[row] # s
    BY <1>1, <1>8 DEF tables
  <2>4. FreshIsFresh(s)'
    BY <1>1, <1>4, <2>1 DEF FreshIsFresh, tables, committed, tips
  <2>5. EndingIsSound(s)' /\ CancelIsSound(s)' /\ CommitIsSound(s)'
    BY <2>1 DEF EndingIsSound, CancelIsSound, CommitIsSound, Operations
  <2> QED
    BY <2>2, <2>3, <2>4, <2>5, RowsAreApart DEF CallIsSound, TemplateIsSound
<1>10. ASSUME NEW r \in Sessions, r # s PROVE CallIsSound(r)'
  <2>1. CallIsSound(r)
    BY DEF WorkflowInvariant, CallsAreSound
  <2>2. call'[s].c = c /\ call'[s].st = st
    BY <1>4, <1>5
  <2>3. /\ UNCHANGED committed /\ lock' = lock /\ templateTip' = templateTip /\ stepTip' = stepTip
        /\ caseTip' = caseTip /\ taskTip' = taskTip /\ case' = case /\ step' = step
    BY <1>1 DEF tables, tips, committed
  <2>4. \A q \in Sessions \ {r} : call'[q] = call[q] \/ q = s
    BY <1>4
  <2>5. FreshIsFresh(r)'
    <3> HIDE DEF k
    <3>1. call[r].pc = "lock_template" /\ call[r].op = "start" =>
            case'[call[r].c] = "absent" /\ \A q \in Sessions \ {r} : call'[q].c # call[r].c
      BY <1>10, <2>1, <2>2, <2>3, <2>4 DEF CallIsSound, FreshIsFresh
    <3>2. call[r].pc = "lock_template" /\ call[r].op = "add_step" =>
            /\ step'[call[r].st].state = "absent" /\ stepTip'[call[r].st].state = "absent"
            /\ \A q \in Sessions \ {r} : call'[q].st # call[r].st
      BY <1>10, <2>1, <2>2, <2>3, <2>4 DEF CallIsSound, FreshIsFresh
    <3> QED
      BY <1>4, <1>10, <3>1, <3>2 DEF FreshIsFresh
  <2> QED
    BY <1>4, <1>10, <2>3, <2>5, OthersStaySound DEF committed
<1> QED
  BY <1>6, <1>7, <1>9, <1>10 DEF WorkflowInvariant, CallsAreSound

\* What another one commits is none of the rows a transaction holds, and no row of its
\* case once it holds that.
LEMMA CommitLeavesOthers ==
  ASSUME WorkflowInvariant, NEW s \in Sessions, Commit(s), NEW r \in Sessions \ {s}
  PROVE  CallIsSound(r)'
<1>1. CallIsSound(r) /\ call[r] \in Call /\ TypeOK
  BY DEF WorkflowInvariant, CallsAreSound, TypeOK
<1>2. \A row \in Rows : lock'[row] = r <=> lock[row] = r
  BY WorkflowAssumption DEF Commit, Release
<1>3. call'[r] = call[r] /\ call'[s] = Idle
  BY <1>1 DEF Commit, TypeOK
<1>4. /\ UNCHANGED tips
      /\ lock[Template] # s => UNCHANGED <<template, step>>
      /\ lock[Template] = s => template' = templateTip /\ step' = stepTip
      /\ \A c \in Cases : lock[c] # s => case'[c] = case[c]
      /\ \A t \in Tasks : lock[t] # s => task'[t] = task[t]
  BY DEF Commit, Newest
<1>5. ASSUME NEW c \in Cases, lock[c] = r, NEW t \in TasksOf(c) PROVE task'[t] = task[t]
  <2>1. ASSUME lock[t] = s PROVE FALSE
    <3>1. call[s].op \in CaseOps /\ call[s].c = c
      BY <2>1, HoldersKnowTheCase, RowsAreApart
    <3>2. CallIsSound(s) /\ call[s].pc = "commit"
      BY DEF WorkflowInvariant, CallsAreSound, Commit
    <3>3. lock[c] = s
      BY <3>1, <3>2 DEF CallIsSound, CommitIsSound
    <3> QED
      BY <1>5, <3>3
  <2> QED
    BY <1>4, <2>1, RowsAreApart
<1>6. /\ call'[r].op \in Operations(call'[r].pc)
      /\ call'[r].op \in CaseOps => call'[r].c \in Cases
      /\ call'[r].op \in {"add_step", "delete_step"} => call'[r].st \in Steps
      /\ \A row \in Rows : lock'[row] = r => row \in MayHold(call'[r])
  BY <1>1, <1>2, <1>3 DEF CallIsSound
<1>7. TemplateIsSound(r)'
  <2>1. lock'[Template] = r => lock[Template] = r /\ UNCHANGED <<template, step, templateTip, stepTip>>
    BY <1>2, <1>4, RowsAreApart DEF tips
  <2> QED
    BY <1>1, <1>3, <2>1 DEF CallIsSound, TemplateIsSound
<1>8. FreshIsFresh(r)'
  <2>1. \A q \in Sessions \ {r} : call'[q] = call[q] \/ (call'[q].c = Null /\ call'[q].st = Null)
    BY <1>1 DEF Commit, TypeOK, Idle
  <2>2. ASSUME call[r].pc = "lock_template", call[r].op = "start"
        PROVE  case'[call[r].c] = "absent" /\ \A q \in Sessions \ {r} : call'[q].c # call[r].c
    <3>1. call[r].c \in Cases /\ case[call[r].c] = "absent" /\ \A q \in Sessions \ {r} : call[q].c # call[r].c
      BY <1>1, <2>2 DEF CallIsSound, FreshIsFresh, CaseOps
    <3>2. lock[call[r].c] # s
      BY <3>1, HoldersKnowTheCase
    <3> QED
      BY <1>4, <2>1, <3>1, <3>2, WorkflowAssumption
  <2>3. ASSUME call[r].pc = "lock_template", call[r].op = "add_step"
        PROVE  /\ step'[call[r].st].state = "absent" /\ stepTip'[call[r].st].state = "absent"
               /\ \A q \in Sessions \ {r} : call'[q].st # call[r].st
    <3>1. /\ call[r].st \in Steps
          /\ step[call[r].st].state = "absent" /\ stepTip[call[r].st].state = "absent"
          /\ \A q \in Sessions \ {r} : call[q].st # call[r].st
      BY <1>1, <2>3 DEF CallIsSound, FreshIsFresh
    <3> QED
      BY <1>4, <2>1, <3>1, WorkflowAssumption DEF tips
  <2> QED
    BY <1>3, <2>2, <2>3 DEF FreshIsFresh
<1>9. EndingIsSound(r)'
  <2>1. call[r].op = "end_task" => call[r].t \in Tasks /\ call[r].c \in Cases
    BY <1>1, RowsAreApart DEF CallIsSound, EndingIsSound, CaseOps
  <2>2. call[r].pc = "move_on" => call[r].op = "end_task"
    BY <1>1 DEF CallIsSound, Operations
  <2> QED
    BY <1>1, <1>2, <1>3, <1>4, <2>1, <2>2, RowsAreApart DEF CallIsSound, EndingIsSound, tips
<1>10. CancelIsSound(r)'
  <2>1. call[r].pc \in {"list_tasks", "cancel_tasks"} =>
          call[r].c \in Cases /\ lock[call[r].c] = r /\ caseTip[call[r].c] = "cancelled"
    BY <1>1 DEF CallIsSound, CancelIsSound, Operations, CaseOps
  <2>2. call[r].pc = "cancel_tasks" => \A t \in TasksOf(call[r].c) : task'[t] = task[t] /\ t \in Rows
    BY <1>5, <2>1, RowsAreApart
  <2>3. call[r].pc = "cancel_tasks" =>
          /\ call[r].todo \subseteq TasksOf(call[r].c)
          /\ \A t \in TasksOf(call[r].c) :
               /\ IsOpen(task'[t]) => t \in call[r].todo \/ lock'[t] = r
               /\ lock'[t] = r => ~IsOpen(taskTip[t])
    BY <1>1, <1>2, <2>2 DEF CallIsSound, CancelIsSound
  <2> QED
    BY <1>2, <1>3, <1>4, <2>1, <2>3, RowsAreApart DEF CancelIsSound, tips
<1>11. CommitIsSound(r)'
  <2> SUFFICES ASSUME call[r].pc = "commit", call[r].op \in CaseOps
               PROVE  /\ lock'[call[r].c] = r
                      /\ caseTip'[call[r].c] # "absent"
                      /\ Sits(caseTip'[call[r].c], {t \in TasksOf(call[r].c) : IsOpen(Becomes(r, t)')})
    BY <1>3 DEF CommitIsSound
  <2>1. call[r].c \in Cases
    BY <1>1 DEF CallIsSound
  <2>2. lock[call[r].c] = r /\ caseTip[call[r].c] # "absent"
        /\ Sits(caseTip[call[r].c], {t \in TasksOf(call[r].c) : IsOpen(Becomes(r, t))})
    BY <1>1 DEF CallIsSound, CommitIsSound
  <2>3. lock'[call[r].c] = r /\ caseTip' = caseTip /\ taskTip' = taskTip
    BY <1>2, <1>4, <2>1, <2>2, RowsAreApart DEF tips
  <2>4. \A t \in TasksOf(call[r].c) : Becomes(r, t)' = Becomes(r, t)
    BY <1>2, <1>5, <2>1, <2>2, <2>3, RowsAreApart DEF Becomes
  <2>5. {t \in TasksOf(call[r].c) : IsOpen(Becomes(r, t)')} = {t \in TasksOf(call[r].c) : IsOpen(Becomes(r, t))}
    BY <2>4
  <2> QED
    BY <2>2, <2>3, <2>5
<1> QED
  BY <1>6, <1>7, <1>8, <1>9, <1>10, <1>11 DEF CallIsSound

\* A commit publishes the rows a transaction holds.
LEMMA CommitKeeps ==
  ASSUME WorkflowInvariant, NEW s \in Sessions, Commit(s)
  PROVE  WorkflowInvariant'
<1>1. TypeOK /\ CallIsSound(s) /\ call[s] \in Call
  BY DEF WorkflowInvariant, CallsAreSound, TypeOK
<1>2. \A row \in Rows : lock'[row] = IF lock[row] = s THEN Free ELSE lock[row]
  BY DEF Commit, Release
<1>3. \A r \in Sessions \ {s}, row \in Rows : lock'[row] = r <=> lock[row] = r
  BY <1>2, WorkflowAssumption
<1>4. Idle \in Call
  BY DEF Idle, Call
<1>5. call' = [call EXCEPT ![s] = Idle] /\ call'[s] = Idle /\ \A r \in Sessions \ {s} : call'[r] = call[r]
  BY <1>1 DEF Commit, TypeOK
<1>6. TypeOK'
  <2>1. lock' \in [Rows -> Sessions \cup {Free}]
    BY <1>1 DEF Commit, Release, TypeOK
  <2>2. /\ template' \in TemplateRow /\ step' \in [Steps -> StepRow]
        /\ case' \in [Cases -> CaseStatus] /\ task' \in [Tasks -> TaskRow]
    BY <1>1 DEF Commit, Newest, TypeOK
  <2> QED
    BY <1>1, <1>4, <1>5, <2>1, <2>2 DEF TypeOK, Commit, tips
<1>7. /\ UNCHANGED tips
      /\ lock[Template] # s => UNCHANGED <<template, step>>
      /\ lock[Template] = s => template' = templateTip /\ step' = stepTip
      /\ \A c \in Cases : case'[c] = IF lock[c] = s THEN caseTip[c] ELSE case[c]
      /\ \A t \in Tasks : task'[t] = Becomes(s, t)
  BY DEF Commit, Newest, Becomes
<1>8. ASSUME NEW c \in Cases
      PROVE  /\ Sits(case'[c], OpenTasks(c)')
             /\ case'[c] = "absent" => \A t \in TasksOf(c) : task'[t].status = "absent"
  <2>1. CASE call[s].op \in CaseOps /\ call[s].c = c
    <3>1. lock[c] = s /\ caseTip[c] # "absent" /\ Sits(caseTip[c], {t \in TasksOf(c) : IsOpen(Becomes(s, t))})
      BY <1>1, <2>1 DEF CallIsSound, CommitIsSound, Commit
    <3>2. OpenTasks(c)' = {t \in TasksOf(c) : IsOpen(Becomes(s, t))}
      BY <1>7, RowsAreApart DEF OpenTasks
    <3> QED
      BY <1>7, <3>1, <3>2
  <2>2. CASE ~(call[s].op \in CaseOps /\ call[s].c = c)
    <3>1. lock[c] # s /\ \A t \in TasksOf(c) : lock[t] # s
      BY <2>2, HoldersKnowTheCase, RowsAreApart
    <3>2. case'[c] = case[c] /\ \A t \in TasksOf(c) : task'[t] = task[t]
      BY <1>7, <3>1, RowsAreApart DEF Becomes
    <3>3. OpenTasks(c)' = OpenTasks(c)
      BY <3>2 DEF OpenTasks
    <3> QED
      BY <3>2, <3>3 DEF WorkflowInvariant, TablesAreSound
  <2> QED
    BY <2>1, <2>2
<1>9. TablesAreSound'
  <2>1. UnlockedIsCommitted'
    BY <1>2, <1>7, RowsAreApart DEF WorkflowInvariant, TablesAreSound, UnlockedIsCommitted, tips, Becomes
  <2>2. HeldTasksAreSound'
    <3> SUFFICES ASSUME NEW t \in Tasks, lock'[t] # Free
                 PROVE  /\ taskTip'[t].status # "absent"
                        /\ IsOpen(taskTip'[t]) => lock'[Template] = lock'[t] /\ taskTip'[t].step \in Live(step')
      BY DEF HeldTasksAreSound
    <3>1. lock'[t] = lock[t] /\ taskTip'[t] = taskTip[t] /\ lock[t] \in Sessions \ {s}
      BY <1>1, <1>2, <1>7, RowsAreApart DEF TypeOK, tips
    <3>2. taskTip[t].status # "absent" /\ (IsOpen(taskTip[t]) => lock[Template] = lock[t] /\ taskTip[t].step \in Live(step))
      BY <3>1, WorkflowAssumption DEF WorkflowInvariant, TablesAreSound, HeldTasksAreSound
    <3> QED
      BY <1>3, <1>7, <3>1, <3>2, RowsAreApart
  <2>3. \A t \in Tasks : IsOpen(task'[t]) => task'[t].step \in Live(step') \cap Live(stepTip')
    <3> SUFFICES ASSUME NEW t \in Tasks, IsOpen(task'[t])
                 PROVE  task'[t].step \in Live(step') /\ task'[t].step \in Live(stepTip)
      BY <1>7 DEF tips
    <3>1. CASE lock[t] = s
      <4>1. taskTip[t] = task'[t]
        BY <1>7, <3>1 DEF Becomes
      <4>2. lock[Template] = s /\ task'[t].step \in Live(step)
        BY <3>1, <4>1, WorkflowAssumption DEF WorkflowInvariant, TablesAreSound, HeldTasksAreSound
      <4>3. call[s].op \notin StepOps
        BY <3>1, HoldersKnowTheCase DEF CaseOps, StepOps
      <4>4. stepTip = step /\ step' = stepTip
        BY <1>1, <1>7, <4>2, <4>3 DEF CallIsSound, TemplateIsSound
      <4> QED
        BY <4>2, <4>4
    <3>2. CASE lock[t] # s
      <4>1. task'[t] = task[t]
        BY <1>7, <3>2 DEF Becomes
      <4> QED
        BY <1>7, <4>1 DEF WorkflowInvariant, TablesAreSound
    <3> QED
      BY <3>1, <3>2
  <2>4. Numbered(step') /\ Numbered(stepTip')
    BY <1>7 DEF WorkflowInvariant, TablesAreSound, tips
  <2> QED
    BY <1>8, <2>1, <2>2, <2>3, <2>4 DEF TablesAreSound
<1>10. CallIsSound(s)'
  <2>1. \A row \in Rows : lock'[row] # s
    BY <1>2, WorkflowAssumption
  <2>2. Idle.op = "none" /\ Idle.pc = "idle"
    BY DEF Idle
  <2> QED
    BY <1>5, <2>1, <2>2, RowsAreApart
    DEF CallIsSound, Operations, TemplateIsSound, FreshIsFresh, EndingIsSound, CancelIsSound, CommitIsSound,
        CaseOps
<1>11. ASSUME NEW r \in Sessions, r # s PROVE CallIsSound(r)'
  BY <1>11, CommitLeavesOthers
<1> QED
  BY <1>6, <1>9, <1>10, <1>11 DEF WorkflowInvariant, CallsAreSound


(***************************************************************************)
(* Requests                                                                *)
(***************************************************************************)
LEMMA RequestsKeep ==
  ASSUME WorkflowInvariant, NEW s \in Sessions, Request(s)
  PROVE  WorkflowInvariant'
<1>1. ASSUME NEW r \in Sessions
      PROVE  /\ call[r].pc = "lock_template" /\ call[r].op = "start" =>
                  call[r].c \in Cases /\ case[call[r].c] = "absent"
             /\ call[r].pc = "lock_template" /\ call[r].op = "add_step" =>
                  call[r].st \in Steps /\ step[call[r].st].state = "absent"
  BY DEF WorkflowInvariant, CallsAreSound, CallIsSound, FreshIsFresh, CaseOps
<1>2. Null \notin Cases /\ Null \notin Steps
  BY WorkflowAssumption
<1>3. ASSUME NEW c \in Cases, StartInstance(s, c) PROVE WorkflowInvariant'
  <2>1. /\ case[c] = "absent" /\ \A r \in Sessions : call[r].c # c
        /\ Begin(s, "start", "lock_template", c, Null, Null)
    BY <1>3 DEF StartInstance
  <2>2. "start" \in Operations("lock_template")
    BY DEF Operations
  <2> QED
    BY <1>1, <1>2, <2>1, <2>2, BeginKeeps
<1>4. ASSUME NEW c \in Cases, StartCancelInstance(s, c) PROVE WorkflowInvariant'
  <2>1. case[c] # "absent" /\ Begin(s, "cancel_case", "lock_case", c, Null, Null)
    BY <1>4 DEF StartCancelInstance
  <2>2. "cancel_case" \in Operations("lock_case")
    BY DEF Operations
  <2> QED
    BY <1>1, <1>2, <2>1, <2>2, BeginKeeps
<1>5. ASSUME NEW t \in Tasks, StartEndTask(s, t) PROVE WorkflowInvariant'
  <2>1. task[t].status # "absent" /\ Begin(s, "end_task", "end_task", t[1], t, Null)
    BY <1>5 DEF StartEndTask
  <2>2. "end_task" \in Operations("end_task")
    BY DEF Operations
  <2>3. t[1] \in Cases /\ t \in TasksOf(t[1])
    BY RowsAreApart
  <2>4. case[t[1]] # "absent"
    BY <2>1, <2>3 DEF WorkflowInvariant, TablesAreSound
  <2> QED
    BY <1>1, <1>2, <2>1, <2>2, <2>3, <2>4, BeginKeeps
<1>6. ASSUME NEW st \in Steps, StartAddStep(s, st) PROVE WorkflowInvariant'
  <2>1. /\ step[st].state = "absent" /\ \A r \in Sessions : call[r].st # st
        /\ Begin(s, "add_step", "lock_template", Null, Null, st)
    BY <1>6 DEF StartAddStep
  <2>2. "add_step" \in Operations("lock_template")
    BY DEF Operations, StepOps
  <2>3. stepTip[st].state = "absent"
    <3>1. CASE lock[Template] = Free
      BY <2>1, <3>1 DEF WorkflowInvariant, TablesAreSound, UnlockedIsCommitted
    <3>2. CASE lock[Template] \in Sessions
      BY <2>1, <3>2 DEF WorkflowInvariant, CallsAreSound, CallIsSound, TemplateIsSound
    <3> QED
      BY <3>1, <3>2, RowsAreApart DEF WorkflowInvariant, TypeOK
  <2>4. "add_step" \notin CaseOps
    BY DEF CaseOps
  <2> QED
    BY <1>1, <1>2, <2>1, <2>2, <2>3, <2>4, BeginKeeps
<1>7. ASSUME NEW st \in Steps, StartDeleteStep(s, st) PROVE WorkflowInvariant'
  <2>1. step[st].state = "live" /\ Begin(s, "delete_step", "lock_template", Null, Null, st)
    BY <1>7 DEF StartDeleteStep
  <2>2. "delete_step" \in Operations("lock_template") /\ "delete_step" \notin CaseOps
    BY DEF Operations, StepOps, CaseOps
  <2> QED
    BY <1>1, <1>2, <2>1, <2>2, BeginKeeps
<1>8. ASSUME StartReorderSteps(s) PROVE WorkflowInvariant'
  <2>1. Begin(s, "reorder_steps", "lock_template", Null, Null, Null)
    BY <1>8 DEF StartReorderSteps
  <2>2. "reorder_steps" \in Operations("lock_template") /\ "reorder_steps" \notin CaseOps
    BY DEF Operations, StepOps, CaseOps
  <2> QED
    BY <1>1, <1>2, <2>1, <2>2, BeginKeeps
<1>9. ASSUME NEW op \in TemplateOps, Begin(s, op, "write_template", Null, Null, Null) PROVE WorkflowInvariant'
  <2>1. op \in Operations("write_template")
    BY <1>9 DEF Operations
  <2>2. op \notin CaseOps /\ op \notin {"add_step", "delete_step", "end_task", "start"}
    BY <1>9 DEF CaseOps, TemplateOps
  <2> QED
    BY <1>1, <1>2, <1>9, <2>1, <2>2, BeginKeeps
<1>10. ASSUME StartDeleteTemplate(s) PROVE WorkflowInvariant'
  BY <1>9, <1>10 DEF StartDeleteTemplate, TemplateOps
<1>11. ASSUME NEW op \in TemplateOps, StartSetArchived(s, op) PROVE WorkflowInvariant'
  BY <1>9, <1>11 DEF StartSetArchived
<1> QED
  BY <1>3, <1>4, <1>5, <1>6, <1>7, <1>8, <1>10, <1>11 DEF Request

(***************************************************************************)
(* Positions                                                               *)
(***************************************************************************)
\* Live steps are finitely many.
LEMMA LiveIsFinite ==
  ASSUME NEW rows
  PROVE  Live(rows) \subseteq Steps /\ IsFiniteSet(Live(rows)) /\ Cardinality(Live(rows)) \in Nat
BY WorkflowAssumption, FS_Subset, FS_CardinalityType DEF Live

\* A row of a step has these two fields.
LEMMA RowFields ==
  ASSUME NEW rows \in [Steps -> StepRow], NEW u \in Steps
  PROVE  /\ rows[u] = [state |-> rows[u].state, order |-> rows[u].order]
         /\ rows[u].state \in {"absent", "live", "deleted"}
         /\ rows[u].order \in Nat
BY DEF StepRow

\* What Numbered says, position by position.
LEMMA NumberedIsOneToN ==
  ASSUME NEW rows, NEW n \in Nat, n = Cardinality(Live(rows))
  PROVE  Numbered(rows) <=>
           /\ \A u \in Live(rows) : rows[u].order \in 1 .. n
           /\ \A m \in 1 .. n : \E u \in Live(rows) : rows[u].order = m
           /\ \A u, v \in Live(rows) : rows[u].order = rows[v].order => u = v
<1>1. ASSUME Numbered(rows)
      PROVE  /\ \A u \in Live(rows) : rows[u].order \in 1 .. n
             /\ \A m \in 1 .. n : \E u \in Live(rows) : rows[u].order = m
             /\ \A u, v \in Live(rows) : rows[u].order = rows[v].order => u = v
  BY <1>1 DEF Numbered
<1>2. ASSUME \A u \in Live(rows) : rows[u].order \in 1 .. n,
             \A m \in 1 .. n : \E u \in Live(rows) : rows[u].order = m,
             \A u, v \in Live(rows) : rows[u].order = rows[v].order => u = v
      PROVE  Numbered(rows)
  <2>1. {rows[u].order : u \in Live(rows)} \subseteq 1 .. n
    BY <1>2
  <2>2. 1 .. n \subseteq {rows[u].order : u \in Live(rows)}
    BY <1>2
  <2> QED
    BY <1>2, <2>1, <2>2 DEF Numbered
<1> QED
  BY <1>1, <1>2

\* A step is put in at a position, and those from there on move down.
PutIn(st, position, rows, new) ==
  /\ rows[st].state # "live"
  /\ new[st].state = "live" /\ new[st].order = position
  /\ \A u \in Steps \ {st} : new[u].state = rows[u].state
  /\ \A u \in Live(rows) : rows[u].order >= position => new[u].order = rows[u].order + 1
  /\ \A u \in Live(rows) : rows[u].order < position => new[u].order = rows[u].order

\* Then the steps are still numbered.
LEMMA RoomKeepsNumbers ==
  ASSUME NEW rows, NEW new, NEW st \in Steps, NEW n \in Nat, NEW position \in 1 .. n + 1,
         Numbered(rows), n = Cardinality(Live(rows)), PutIn(st, position, rows, new)
  PROVE  Live(new) = Live(rows) \cup {st} /\ Numbered(new)
<1> USE DEF PutIn
<1>1. st \notin Live(rows) /\ Live(rows) \subseteq Steps /\ IsFiniteSet(Live(rows))
  BY LiveIsFinite DEF Live
<1>2. Live(new) = Live(rows) \cup {st}
  BY DEF Live
<1>3. Cardinality(Live(new)) = n + 1
  BY <1>1, <1>2, FS_AddElement
<1>4. /\ \A u \in Live(rows) : rows[u].order \in 1 .. n
      /\ \A m \in 1 .. n : \E u \in Live(rows) : rows[u].order = m
      /\ \A u, v \in Live(rows) : rows[u].order = rows[v].order => u = v
  BY NumberedIsOneToN
<1>5. ASSUME NEW u \in Live(new) PROVE new[u].order \in 1 .. n + 1
  BY <1>2, <1>4
<1>6. ASSUME NEW u \in Live(rows), NEW v \in Live(rows), new[u].order = new[v].order PROVE u = v
  <2>1. rows[u].order \in Int /\ rows[v].order \in Int
    BY <1>4
  <2>2. rows[u].order = rows[v].order
    BY <1>6, <2>1
  <2> QED
    BY <1>4, <2>2
<1>7. ASSUME NEW u \in Live(rows) PROVE new[u].order # position
  <2>1. rows[u].order \in Int
    BY <1>4
  <2> QED
    BY <2>1
<1>8. \A u, v \in Live(new) : new[u].order = new[v].order => u = v
  BY <1>2, <1>6, <1>7
<1>9. ASSUME NEW m \in 1 .. n + 1 PROVE \E u \in Live(new) : new[u].order = m
  <2>1. CASE m = position
    BY <1>2, <2>1
  <2>2. CASE m < position
    <3>1. PICK u \in Live(rows) : rows[u].order = m
      BY <1>4, <2>2
    <3> QED
      BY <1>2, <2>2, <3>1
  <2>3. CASE m > position
    <3>1. m - 1 \in 1 .. n
      BY <2>3
    <3>2. PICK u \in Live(rows) : rows[u].order = m - 1
      BY <1>4, <3>1
    <3> QED
      BY <1>2, <2>3, <3>2
  <2> QED
    BY <2>1, <2>2, <2>3
<1>10. n + 1 \in Nat
  OBVIOUS
<1>11. Numbered(new)
  BY <1>3, <1>5, <1>8, <1>9, <1>10, NumberedIsOneToN
<1> QED
  BY <1>2, <1>11

\* A step is taken out of its position, and the later ones move up.
TakenOut(st, position, rows, new) ==
  /\ rows[st].order = position /\ new[st].state = "deleted"
  /\ \A u \in Steps \ {st} : new[u].state = rows[u].state
  /\ \A u \in Live(rows) \ {st} : rows[u].order > position => new[u].order = rows[u].order - 1
  /\ \A u \in Live(rows) \ {st} : rows[u].order < position => new[u].order = rows[u].order

\* Then the steps are still numbered.
LEMMA GapKeepsNumbers ==
  ASSUME NEW rows, NEW new, NEW st \in Live(rows), NEW k \in Nat,
         Numbered(rows), TakenOut(st, k, rows, new)
  PROVE  Live(new) = Live(rows) \ {st} /\ Numbered(new)
<1> USE DEF TakenOut
<1>1. PICK n \in Nat : n = Cardinality(Live(rows))
  BY LiveIsFinite
<1>2. Live(rows) \subseteq Steps /\ IsFiniteSet(Live(rows))
  BY LiveIsFinite
<1>3. Live(new) = Live(rows) \ {st}
  BY DEF Live
<1>4. Cardinality(Live(new)) = n - 1
  BY <1>1, <1>2, <1>3, FS_RemoveElement
<1>5. /\ \A u \in Live(rows) : rows[u].order \in 1 .. n
      /\ \A m \in 1 .. n : \E u \in Live(rows) : rows[u].order = m
      /\ \A u, v \in Live(rows) : rows[u].order = rows[v].order => u = v
  BY <1>1, NumberedIsOneToN
<1>6. k \in 1 .. n
  BY <1>5
<1>7. ASSUME NEW u \in Live(new)
      PROVE  u \in Live(rows) /\ u # st /\ rows[u].order \in 1 .. n /\ rows[u].order # k
  BY <1>3, <1>5
<1>8. ASSUME NEW u \in Live(new) PROVE new[u].order \in 1 .. n - 1
  BY <1>6, <1>7
<1>9. ASSUME NEW u \in Live(new), NEW v \in Live(new), new[u].order = new[v].order PROVE u = v
  <2>1. rows[u].order \in Int /\ rows[v].order \in Int /\ rows[u].order # k /\ rows[v].order # k
    BY <1>7
  <2>2. rows[u].order = rows[v].order
    BY <1>7, <1>9, <2>1
  <2> QED
    BY <1>5, <1>7, <2>2
<1>10. ASSUME NEW m \in 1 .. n - 1 PROVE \E u \in Live(new) : new[u].order = m
  <2>1. CASE m < k
    <3>1. PICK u \in Live(rows) : rows[u].order = m
      BY <1>5
    <3>2. u # st
      BY <2>1, <3>1
    <3> QED
      BY <1>3, <2>1, <3>1, <3>2
  <2>2. CASE m >= k
    <3>1. m + 1 \in 1 .. n
      OBVIOUS
    <3>2. PICK u \in Live(rows) : rows[u].order = m + 1
      BY <1>5, <3>1
    <3>3. u # st
      BY <2>2, <3>2
    <3> QED
      BY <1>3, <2>2, <3>2, <3>3
  <2> QED
    BY <2>1, <2>2
<1>11. n - 1 \in Nat
  BY <1>6
<1>12. Numbered(new)
  BY <1>4, <1>8, <1>9, <1>10, <1>11, NumberedIsOneToN
<1> QED
  BY <1>3, <1>12

\* What make_room_at and create_step make of the steps.
With(st, position, rows) == [Moved(rows, position, 1) EXCEPT ![st] = [state |-> "live", order |-> position]]

\* They keep the numbering.
LEMMA AddKeepsNumbers ==
  ASSUME NEW rows \in [Steps -> StepRow], Numbered(rows), NEW st \in Steps, rows[st].state # "live",
         NEW position \in 1 .. Cardinality(Live(rows)) + 1,
         NEW new, new = With(st, position, rows)
  PROVE  /\ new \in [Steps -> StepRow] /\ Live(new) = Live(rows) \cup {st} /\ Numbered(new)
         /\ PutIn(st, position, rows, new)
<1>1. PICK n \in Nat : n = Cardinality(Live(rows))
  BY LiveIsFinite
<1>2. position \in Nat /\ position \in 1 .. n + 1
  BY <1>1
<1>3. new[st] = [state |-> "live", order |-> position]
  BY DEF With, Moved
<1>4. ASSUME NEW u \in Steps, u # st
      PROVE  /\ rows[u].state = "live" /\ rows[u].order >= position =>
                  new[u] = [state |-> "live", order |-> rows[u].order + 1]
             /\ ~(rows[u].state = "live" /\ rows[u].order >= position) => new[u] = rows[u]
  <2>1. rows[u] = [state |-> rows[u].state, order |-> rows[u].order]
    BY RowFields
  <2> QED
    BY <1>4, <2>1 DEF With, Moved
<1>5. new \in [Steps -> StepRow]
  <2>1. ASSUME NEW u \in Steps PROVE new[u] \in StepRow
    <3>1. rows[u] \in StepRow /\ rows[u].order \in Nat
      BY RowFields
    <3>2. [state |-> "live", order |-> position] \in StepRow
      BY <1>2 DEF StepRow
    <3>3. [state |-> "live", order |-> rows[u].order + 1] \in StepRow
      BY <3>1 DEF StepRow
    <3> QED
      BY <1>3, <1>4, <3>1, <3>2, <3>3
  <2>2. DOMAIN new = Steps /\ new = [u \in Steps |-> new[u]]
    BY DEF With, Moved
  <2> QED
    BY <2>1, <2>2
<1>6. new[st].state = "live" /\ new[st].order = position
  BY <1>3
<1>7. ASSUME NEW u \in Steps, u # st
      PROVE  /\ new[u].state = rows[u].state
             /\ rows[u].state = "live" /\ rows[u].order >= position => new[u].order = rows[u].order + 1
             /\ ~(rows[u].order >= position) => new[u].order = rows[u].order
  <2>1. CASE rows[u].state = "live" /\ rows[u].order >= position
    <3>1. new[u] = [state |-> "live", order |-> rows[u].order + 1]
      BY <1>4, <1>7, <2>1
    <3>2. new[u].state = "live" /\ new[u].order = rows[u].order + 1
      BY <3>1
    <3> QED
      BY <2>1, <3>2
  <2>2. CASE ~(rows[u].state = "live" /\ rows[u].order >= position)
    <3>1. new[u] = rows[u]
      BY <1>4, <1>7, <2>2
    <3> QED
      BY <2>2, <3>1
  <2> QED
    BY <2>1, <2>2
<1>8. ASSUME NEW u \in Live(rows)
      PROVE  /\ rows[u].order >= position => new[u].order = rows[u].order + 1
             /\ rows[u].order < position => new[u].order = rows[u].order
  <2>1. u \in Steps /\ u # st /\ rows[u].state = "live" /\ rows[u].order \in Nat
    BY RowFields DEF Live
  <2>2. rows[u].order < position => ~(rows[u].order >= position)
    BY <1>2, <2>1
  <2> QED
    BY <1>7, <2>1, <2>2
<1>9. \A u \in Steps \ {st} : new[u].state = rows[u].state
  BY <1>7
<1>10. /\ \A u \in Live(rows) : rows[u].order >= position => new[u].order = rows[u].order + 1
       /\ \A u \in Live(rows) : rows[u].order < position => new[u].order = rows[u].order
  BY <1>8
<1>11. PutIn(st, position, rows, new)
  BY <1>6, <1>9, <1>10 DEF PutIn
<1>12. Live(new) = Live(rows) \cup {st} /\ Numbered(new)
  BY <1>1, <1>2, <1>11, RoomKeepsNumbers
<1> QED
  BY <1>5, <1>11, <1>12

\* Deleting a step and close_gap_after keep the numbering.
LEMMA DeleteKeepsNumbers ==
  ASSUME step \in [Steps -> StepRow], Numbered(step), NEW st \in Live(step),
         NEW new, new = Without(st)
  PROVE  /\ new \in [Steps -> StepRow] /\ Live(new) = Live(step) \ {st} /\ Numbered(new)
         /\ TakenOut(st, step[st].order, step, new)
<1>1. st \in Steps
  BY LiveIsFinite
<1>2. PICK k \in Nat : k = step[st].order
  BY <1>1, RowFields
<1>3. ASSUME NEW u \in Steps
      PROVE  /\ u = st => new[u] = [state |-> "deleted", order |-> k]
             /\ u # st /\ step[u].state = "live" /\ step[u].order > k =>
                  new[u] = [state |-> "live", order |-> step[u].order - 1]
             /\ u # st /\ ~(step[u].state = "live" /\ step[u].order > k) => new[u] = step[u]
  <2> DEFINE mid == [step EXCEPT ![st].state = "deleted"]
  <2>1. step[u] = [state |-> step[u].state, order |-> step[u].order] /\ step[u].order \in Nat
    BY RowFields
  <2>2. step[st] = [state |-> step[st].state, order |-> step[st].order]
    BY <1>1, RowFields
  <2>3. mid[u] = IF u = st THEN [state |-> "deleted", order |-> k] ELSE step[u]
    BY <1>1, <1>2, <2>2
  <2>4. new[u] = IF mid[u].state = "live" /\ mid[u].order >= k + 1
                 THEN [mid[u] EXCEPT !.order = @ + (-1)] ELSE mid[u]
    BY <1>2 DEF Without, Moved
  <2> HIDE DEF mid
  <2>5. CASE u = st
    <3>1. mid[u] = [state |-> "deleted", order |-> k]
      BY <2>3, <2>5
    <3>2. mid[u].state # "live"
      BY <3>1
    <3> QED
      BY <2>4, <2>5, <3>1, <3>2
  <2>6. CASE u # st
    <3>1. step[u].order + (-1) = step[u].order - 1 /\ (step[u].order >= k + 1 <=> step[u].order > k)
      BY <2>1
    <3>2. mid[u] = step[u]
      BY <2>3, <2>6
    <3>3. [step[u] EXCEPT !.order = @ + (-1)] = [state |-> step[u].state, order |-> step[u].order - 1]
      BY <2>1, <3>1
    <3> QED
      BY <2>4, <2>6, <3>1, <3>2, <3>3
  <2> QED
    BY <2>5, <2>6
<1>4. new \in [Steps -> StepRow]
  <2>1. ASSUME NEW u \in Steps PROVE new[u] \in StepRow
    <3>1. step[u] \in StepRow /\ step[u].order \in Nat
      BY RowFields
    <3>2. [state |-> "deleted", order |-> k] \in StepRow
      BY <1>2 DEF StepRow
    <3>3. step[u].order > k => [state |-> "live", order |-> step[u].order - 1] \in StepRow
      BY <1>2, <3>1 DEF StepRow
    <3> QED
      BY <1>3, <3>1, <3>2, <3>3
  <2>2. DOMAIN new = Steps /\ new = [u \in Steps |-> new[u]]
    BY DEF Without, Moved
  <2> QED
    BY <2>1, <2>2
<1>5. new[st].state = "deleted"
  <2>1. new[st] = [state |-> "deleted", order |-> k]
    BY <1>1, <1>3
  <2> QED
    BY <2>1
<1>6. ASSUME NEW u \in Steps, u # st
      PROVE  /\ new[u].state = step[u].state
             /\ step[u].state = "live" /\ step[u].order > k => new[u].order = step[u].order - 1
             /\ ~(step[u].order > k) => new[u].order = step[u].order
  <2>1. CASE step[u].state = "live" /\ step[u].order > k
    <3>1. new[u] = [state |-> "live", order |-> step[u].order - 1]
      BY <1>3, <1>6, <2>1
    <3>2. new[u].state = "live" /\ new[u].order = step[u].order - 1
      BY <3>1
    <3> QED
      BY <2>1, <3>2
  <2>2. CASE ~(step[u].state = "live" /\ step[u].order > k)
    <3>1. new[u] = step[u]
      BY <1>3, <1>6, <2>2
    <3> QED
      BY <2>2, <3>1
  <2> QED
    BY <2>1, <2>2
<1>7. ASSUME NEW u \in Live(step) \ {st}
      PROVE  /\ step[u].order > k => new[u].order = step[u].order - 1
             /\ step[u].order < k => new[u].order = step[u].order
  <2>1. u \in Steps /\ u # st /\ step[u].state = "live"
    BY DEF Live
  <2>2. step[u].order \in Nat
    BY <2>1, RowFields
  <2>3. step[u].order < k => ~(step[u].order > k)
    BY <1>2, <2>2
  <2> QED
    BY <1>6, <2>1, <2>3
<1>8. \A u \in Steps \ {st} : new[u].state = step[u].state
  BY <1>6
<1>9. /\ \A u \in Live(step) \ {st} : step[u].order > k => new[u].order = step[u].order - 1
      /\ \A u \in Live(step) \ {st} : step[u].order < k => new[u].order = step[u].order
  BY <1>7
<1>10. TakenOut(st, k, step, new)
  BY <1>2, <1>5, <1>8, <1>9 DEF TakenOut
<1>11. Live(new) = Live(step) \ {st} /\ Numbered(new)
  BY <1>10, GapKeepsNumbers
<1> QED
  BY <1>2, <1>4, <1>10, <1>11

\* A new order of the same steps keeps the numbering.
LEMMA ReorderKeepsNumbers ==
  ASSUME NEW rows \in [Steps -> StepRow], NEW position \in Bijection(Live(rows), 1 .. Cardinality(Live(rows))),
         NEW new, new = [st \in Steps |-> IF st \in Live(rows) THEN [rows[st] EXCEPT !.order = position[st]]
                                          ELSE rows[st]]
  PROVE  /\ new \in [Steps -> StepRow] /\ Live(new) = Live(rows) /\ Numbered(new)
         /\ \A u \in Steps : new[u].state = rows[u].state
<1>1. PICK n \in Nat : n = Cardinality(Live(rows))
  BY LiveIsFinite
<1>2. /\ position \in [Live(rows) -> 1 .. n]
      /\ \A u, v \in Live(rows) : position[u] = position[v] => u = v
      /\ \A m \in 1 .. n : \E u \in Live(rows) : position[u] = m
  BY <1>1 DEF Bijection, Injection, Surjection, IsInjective
<1>3. ASSUME NEW u \in Steps
      PROVE  new[u] = IF u \in Live(rows) THEN [state |-> rows[u].state, order |-> position[u]] ELSE rows[u]
  <2>1. rows[u] = [state |-> rows[u].state, order |-> rows[u].order]
    BY RowFields
  <2> QED
    BY <2>1
<1>4. new \in [Steps -> StepRow]
  <2>1. ASSUME NEW u \in Steps PROVE new[u] \in StepRow
    <3>1. rows[u] \in StepRow /\ rows[u].state \in {"absent", "live", "deleted"}
      BY RowFields
    <3>2. u \in Live(rows) => [state |-> rows[u].state, order |-> position[u]] \in StepRow
      BY <1>2, <3>1 DEF StepRow
    <3> QED
      BY <1>3, <3>1, <3>2
  <2> QED
    BY <2>1
<1>5. Live(new) = Live(rows) /\ \A u \in Live(rows) : new[u].order = position[u]
  BY <1>3 DEF Live
<1>6. /\ \A u \in Live(new) : new[u].order \in 1 .. n
      /\ \A m \in 1 .. n : \E u \in Live(new) : new[u].order = m
      /\ \A u, v \in Live(new) : new[u].order = new[v].order => u = v
  <2>1. \A u \in Live(new) : new[u].order = position[u]
    BY <1>5
  <2>2. \A u \in Live(new) : new[u].order \in 1 .. n
    BY <1>2, <1>5, <2>1
  <2>3. \A m \in 1 .. n : \E u \in Live(new) : new[u].order = m
    BY <1>2, <1>5, <2>1, Zenon
  <2>4. ASSUME NEW u \in Live(new), NEW v \in Live(new), new[u].order = new[v].order PROVE u = v
    <3>1. u \in Live(rows) /\ v \in Live(rows) /\ position[u] = position[v]
      BY <1>5, <2>1, <2>4
    <3> QED
      BY <1>2, <3>1
  <2> QED
    BY <2>2, <2>3, <2>4
<1>7. Numbered(new)
  BY <1>1, <1>5, <1>6, NumberedIsOneToN
<1>8. \A u \in Steps : new[u].state = rows[u].state
  BY <1>3
<1> QED
  BY <1>4, <1>5, <1>7, <1>8


(***************************************************************************)
(* Statements on the template                                              *)
(***************************************************************************)
Points == {"idle", "lock_template", "write_template", "end_task", "lock_case",
           "move_on", "list_tasks", "cancel_tasks", "commit"}

\* Going on to another point changes nothing else of what a transaction is doing.
LEMMA GotoIsACall ==
  ASSUME WorkflowInvariant, NEW s \in Sessions, NEW pc \in Points, Goto(s, pc)
  PROVE  \E k \in Call :
           /\ call' = [call EXCEPT ![s] = k] /\ call'[s] = k
           /\ k.pc = pc /\ k.op = call[s].op /\ k.c = call[s].c /\ k.t = call[s].t /\ k.st = call[s].st
<1> DEFINE k == [call[s] EXCEPT !.pc = pc]
<1>1. call \in [Sessions -> Call] /\ call[s] \in Call
  BY DEF WorkflowInvariant, TypeOK
<1>2. k \in Call
  BY <1>1 DEF Call, Points
<1>3. k.pc = pc /\ k.op = call[s].op /\ k.c = call[s].c /\ k.t = call[s].t /\ k.st = call[s].st
  BY <1>1 DEF Call
<1>4. call' = [call EXCEPT ![s] = k]
  BY <1>1 DEF Goto
<1> HIDE DEF k
<1>5. call'[s] = k
  BY <1>1, <1>4
<1> QED
  BY <1>2, <1>3, <1>4, <1>5

\* Before its first lock a transaction holds nothing; a template it can lock is as it
\* was committed.
LEMMA NothingHeldAtFirst ==
  ASSUME WorkflowInvariant, NEW s \in Sessions, call[s].pc \in {"lock_template", "write_template", "end_task"}
  PROVE  /\ \A row \in Rows : lock[row] # s
         /\ CanLock(s, Template) => templateTip = template /\ stepTip = step
<1>1. CallIsSound(s)
  BY DEF WorkflowInvariant, CallsAreSound
<1>2. MayHold(call[s]) = {}
  BY DEF MayHold
<1>3. \A row \in Rows : lock[row] # s
  BY <1>1, <1>2 DEF CallIsSound
<1>4. CanLock(s, Template) => lock[Template] = Free
  BY <1>3, RowsAreApart DEF CanLock
<1> QED
  BY <1>3, <1>4 DEF WorkflowInvariant, TablesAreSound, UnlockedIsCommitted

\* The steps or the template are written under the lock of the template's row.
LEMMA TemplateWritesKeep ==
  ASSUME WorkflowInvariant, NEW s \in Sessions, UNCHANGED committed,
         call[s].pc \in {"lock_template", "write_template"}, call[s].op \in StepOps \cup TemplateOps,
         CanLock(s, Template), Take(s, {Template}), Goto(s, "commit"), UNCHANGED <<caseTip, taskTip>>,
         templateTip' \in TemplateRow, call[s].op \in StepOps => UNCHANGED templateTip,
         stepTip' \in [Steps -> StepRow], call[s].op \in TemplateOps => UNCHANGED stepTip,
         Numbered(stepTip'),
         \A t \in Tasks : IsOpen(task[t]) => task[t].step \in Live(stepTip'),
         \A st \in Steps : step[st].state = "absent" =>
           \/ stepTip'[st].state = "absent"
           \/ call[s].pc = "lock_template" /\ call[s].op = "add_step" /\ st = call[s].st
  PROVE  WorkflowInvariant'
<1> USE DEF committed
<1>1. TypeOK /\ CallIsSound(s)
  BY DEF WorkflowInvariant, CallsAreSound
<1>2. templateTip = template /\ stepTip = step /\ \A row \in Rows : lock[row] # s
  BY NothingHeldAtFirst
<1>3. PICK k \in Call :
        /\ call' = [call EXCEPT ![s] = k] /\ call'[s] = k
        /\ k.pc = "commit" /\ k.op = call[s].op /\ k.c = call[s].c /\ k.t = call[s].t /\ k.st = call[s].st
  BY GotoIsACall DEF Points
<1>4. \A row \in Rows : lock'[row] = IF row = Template THEN s ELSE lock[row]
  BY DEF Take
<1>5. /\ lock'[Template] = s
      /\ \A row \in Rows : row # Template => lock'[row] # s
  BY <1>2, <1>4, RowsAreApart
<1>6. call[s].op \notin CaseOps /\ ~(call[s].op \in StepOps /\ call[s].op \in TemplateOps)
  BY DEF CaseOps, StepOps, TemplateOps
<1>7. CallIsSound(s)'
  <2>1. k.op \in Operations("commit")
    BY <1>3 DEF Operations, AllOps
  <2>2. k.op \in {"add_step", "delete_step"} => k.st \in Steps
    BY <1>1, <1>3 DEF CallIsSound
  <2>3. MayHold(k) = {Template}
    BY <1>3, <1>6 DEF MayHold, CaseOps
  <2>4. TemplateIsSound(s)'
    BY <1>2, <1>3, <1>6 DEF TemplateIsSound
  <2>5. FreshIsFresh(s)' /\ EndingIsSound(s)' /\ CancelIsSound(s)' /\ CommitIsSound(s)'
    BY <1>3, <1>6 DEF FreshIsFresh, EndingIsSound, CancelIsSound, CommitIsSound, CaseOps
  <2> QED
    BY <1>3, <1>5, <1>6, <2>1, <2>2, <2>3, <2>4, <2>5 DEF CallIsSound
<1>8. /\ caseTip' \in [Cases -> CaseStatus] /\ taskTip' \in [Tasks -> TaskRow]
      /\ \A row \in {Template} : CanLock(s, row)
      /\ lock'[Template] # s => UNCHANGED <<templateTip, stepTip>>
      /\ \A c \in Cases : lock'[c] # s => caseTip'[c] = caseTip[c]
      /\ \A t \in Tasks : lock'[t] # s => taskTip'[t] = taskTip[t]
      /\ \A t \in Tasks : lock'[t] = s =>
           /\ taskTip'[t].status # "absent"
           /\ IsOpen(taskTip'[t]) => lock'[Template] = s /\ taskTip'[t].step \in Live(step)
  BY <1>1, <1>5, RowsAreApart DEF TypeOK
<1>9. \A st \in Steps : stepTip[st].state = "absent" =>
        \/ stepTip'[st].state = "absent"
        \/ call[s].pc = "lock_template" /\ call[s].op = "add_step" /\ st = call[s].st
  BY <1>2
<1>10. PICK rows : Take(s, rows) /\ \A row \in rows : CanLock(s, row)
  BY <1>8
<1> HIDE DEF committed
<1>11. /\ templateTip' \in TemplateRow /\ stepTip' \in [Steps -> StepRow]
       /\ UNCHANGED committed /\ Numbered(stepTip')
       /\ \A t \in Tasks : IsOpen(task[t]) => task[t].step \in Live(stepTip')
  BY DEF committed
<1> QED
  BY <1>3, <1>7, <1>8, <1>9, <1>10, <1>11, StatementsKeep, ZenonT(60)

\* add_step keeps the invariant.
LEMMA AddStepKeeps ==
  ASSUME WorkflowInvariant, NEW s \in Sessions, AddStep(s)
  PROVE  WorkflowInvariant'
<1> DEFINE st == call[s].st
<1>1. /\ call[s].pc = "lock_template" /\ call[s].op = "add_step" /\ UNCHANGED committed
      /\ template.deleted \/ CanLock(s, Template)
  BY DEF AddStep, GetTemplate, At
<1>2. CASE template.deleted
  BY <1>1, <1>2, RollbackKeeps DEF AddStep
<1>3. CASE ~template.deleted
  <2>1. PICK position \in 1 .. Cardinality(Live(step)) + 1 :
          WriteSteps(s, [Moved(step, position, 1) EXCEPT ![st] = [state |-> "live", order |-> position]])
    BY <1>3 DEF AddStep
  <2>2. st \in Steps /\ step[st].state = "absent"
    BY <1>1 DEF WorkflowInvariant, CallsAreSound, CallIsSound, FreshIsFresh
  <2>3. step \in [Steps -> StepRow] /\ Numbered(step) /\ templateTip \in TemplateRow
    BY DEF WorkflowInvariant, TypeOK, TablesAreSound
  <2>4. step[st].state # "live"
    BY <2>2
  <2>5. stepTip' = With(st, position, step)
    BY <2>1 DEF WriteSteps, With
  <2> HIDE DEF st
  <2>6. /\ stepTip' \in [Steps -> StepRow] /\ Live(stepTip') = Live(step) \cup {st} /\ Numbered(stepTip')
        /\ \A u \in Steps \ {st} : stepTip'[u].state = step[u].state
    BY <2>2, <2>3, <2>4, <2>5, AddKeepsNumbers DEF PutIn
  <2>7. \A t \in Tasks : IsOpen(task[t]) => task[t].step \in Live(stepTip')
    BY <2>6 DEF WorkflowInvariant, TablesAreSound
  <2>8. \A u \in Steps : step[u].state = "absent" => stepTip'[u].state = "absent" \/ u = st
    BY <2>6
  <2>9. Take(s, {Template}) /\ Goto(s, "commit") /\ UNCHANGED <<templateTip, caseTip, taskTip>>
    BY <2>1 DEF WriteSteps
  <2>10. call[s].op \in StepOps /\ call[s].op \notin TemplateOps
    BY <1>1 DEF StepOps, TemplateOps
  <2> QED
    BY <1>1, <1>3, <2>3, <2>6, <2>7, <2>8, <2>9, <2>10, TemplateWritesKeep DEF st
<1> QED
  BY <1>2, <1>3

\* reorder_steps keeps the invariant.
LEMMA ReorderStepsKeeps ==
  ASSUME WorkflowInvariant, NEW s \in Sessions, ReorderSteps(s)
  PROVE  WorkflowInvariant'
<1>1. /\ call[s].pc = "lock_template" /\ call[s].op = "reorder_steps" /\ UNCHANGED committed
      /\ template.deleted \/ CanLock(s, Template)
  BY DEF ReorderSteps, GetTemplate, At
<1>2. CASE template.deleted \/ \E c \in Cases : Running(c)
  BY <1>1, <1>2, RollbackKeeps DEF ReorderSteps
<1>3. CASE ~(template.deleted \/ \E c \in Cases : Running(c))
  <2>1. PICK position \in Bijection(Live(step), 1 .. Cardinality(Live(step))) :
          WriteSteps(s, [st \in Steps |-> IF st \in Live(step) THEN [step[st] EXCEPT !.order = position[st]]
                                          ELSE step[st]])
    BY <1>3 DEF ReorderSteps, Reordered
  <2>2. step \in [Steps -> StepRow] /\ templateTip \in TemplateRow
    BY DEF WorkflowInvariant, TypeOK
  <2>3. stepTip' = [st \in Steps |-> IF st \in Live(step) THEN [step[st] EXCEPT !.order = position[st]]
                                     ELSE step[st]]
    BY <2>1 DEF WriteSteps
  <2>4. /\ stepTip' \in [Steps -> StepRow] /\ Live(stepTip') = Live(step) /\ Numbered(stepTip')
        /\ \A u \in Steps : stepTip'[u].state = step[u].state
    BY <2>2, <2>3, ReorderKeepsNumbers
  <2>5. \A t \in Tasks : IsOpen(task[t]) => task[t].step \in Live(stepTip')
    BY <2>4 DEF WorkflowInvariant, TablesAreSound
  <2>6. \A u \in Steps : step[u].state = "absent" => stepTip'[u].state = "absent"
    BY <2>4
  <2>7. Take(s, {Template}) /\ Goto(s, "commit") /\ UNCHANGED <<templateTip, caseTip, taskTip>>
    BY <2>1 DEF WriteSteps
  <2>8. call[s].op \in StepOps /\ call[s].op \notin TemplateOps
    BY <1>1 DEF StepOps, TemplateOps
  <2> QED
    BY <1>1, <1>3, <2>2, <2>4, <2>5, <2>6, <2>7, <2>8, TemplateWritesKeep
<1> QED
  BY <1>2, <1>3

\* delete_step keeps the invariant: no task is open on the step it takes out.
LEMMA DeleteStepKeeps ==
  ASSUME WorkflowInvariant, NEW s \in Sessions, DeleteStep(s)
  PROVE  WorkflowInvariant'
<1> DEFINE st == call[s].st
<1>1. /\ call[s].pc = "lock_template" /\ call[s].op = "delete_step" /\ UNCHANGED committed
      /\ template.deleted \/ CanLock(s, Template)
  BY DEF DeleteStep, GetTemplate, At
<1>2. CASE template.deleted \/ step[st].state # "live" \/ InUse(st)
  BY <1>1, <1>2, RollbackKeeps DEF DeleteStep
<1>3. CASE ~(template.deleted \/ step[st].state # "live" \/ InUse(st))
  <2>1. WriteSteps(s, Without(st))
    BY <1>3 DEF DeleteStep
  <2>2. st \in Steps
    BY <1>1 DEF WorkflowInvariant, CallsAreSound, CallIsSound
  <2>3. step \in [Steps -> StepRow] /\ Numbered(step) /\ templateTip \in TemplateRow
    BY DEF WorkflowInvariant, TypeOK, TablesAreSound
  <2>4. st \in Live(step)
    BY <1>3, <2>2 DEF Live
  <2>5. stepTip' = Without(st)
    BY <2>1 DEF WriteSteps
  <2>6. \A t \in Tasks : IsOpen(task[t]) => task[t].step # st
    BY <1>3 DEF InUse
  <2> HIDE DEF st
  <2>7. /\ stepTip' \in [Steps -> StepRow] /\ Live(stepTip') = Live(step) \ {st} /\ Numbered(stepTip')
        /\ \A u \in Steps \ {st} : stepTip'[u].state = step[u].state
    BY <2>3, <2>4, <2>5, DeleteKeepsNumbers DEF TakenOut
  <2>8. \A t \in Tasks : IsOpen(task[t]) => task[t].step \in Live(stepTip')
    BY <2>6, <2>7 DEF WorkflowInvariant, TablesAreSound
  <2>9. \A u \in Steps : step[u].state = "absent" => stepTip'[u].state = "absent"
    BY <2>4, <2>7 DEF Live
  <2>10. Take(s, {Template}) /\ Goto(s, "commit") /\ UNCHANGED <<templateTip, caseTip, taskTip>>
    BY <2>1 DEF WriteSteps
  <2>11. call[s].op \in StepOps /\ call[s].op \notin TemplateOps
    BY <1>1 DEF StepOps, TemplateOps
  <2> QED
    BY <1>1, <1>3, <2>3, <2>7, <2>8, <2>9, <2>10, <2>11, TemplateWritesKeep
<1> QED
  BY <1>2, <1>3

\* delete_template, archive_template and unarchive_template keep the invariant.
LEMMA WriteTemplateKeeps ==
  ASSUME WorkflowInvariant, NEW s \in Sessions, WriteTemplate(s)
  PROVE  WorkflowInvariant'
<1>1. /\ call[s].pc = "write_template" /\ UNCHANGED committed /\ CanLock(s, Template)
      /\ Take(s, {Template}) /\ Goto(s, "commit") /\ UNCHANGED <<stepTip, caseTip, taskTip>>
  BY DEF WriteTemplate, At
<1>2. call[s].op \in TemplateOps /\ call[s].op \notin StepOps
  BY <1>1 DEF WorkflowInvariant, CallsAreSound, CallIsSound, Operations, TemplateOps, StepOps
<1>3. templateTip \in TemplateRow /\ stepTip \in [Steps -> StepRow] /\ Numbered(stepTip) /\ stepTip = step
  BY <1>1, NothingHeldAtFirst DEF WorkflowInvariant, TypeOK, TablesAreSound
<1>4. templateTip' \in TemplateRow
  BY <1>3 DEF WriteTemplate, TemplateRow
<1>5. \A t \in Tasks : IsOpen(task[t]) => task[t].step \in Live(stepTip')
  BY <1>1 DEF WorkflowInvariant, TablesAreSound
<1> QED
  BY <1>1, <1>2, <1>3, <1>4, <1>5, TemplateWritesKeep


(***************************************************************************)
(* Statements on a case and its tasks                                      *)
(***************************************************************************)
\* They take rows of the case and write those they hold; steps and template stay.
LEMMA CaseWritesKeep ==
  ASSUME WorkflowInvariant, NEW s \in Sessions, NEW k \in Call, NEW rows, UNCHANGED committed,
         call[s].op \in CaseOps, call' = [call EXCEPT ![s] = k],
         k.op = call[s].op, k.c = call[s].c, k.st = call[s].st, k.pc # "lock_template",
         k.op \in Operations(k.pc),
         Take(s, rows), \A row \in rows : CanLock(s, row) /\ row \in MayHold(k),
         \A row \in Rows : lock[row] = s => row \in MayHold(k),
         UNCHANGED <<templateTip, stepTip>>,
         caseTip' \in [Cases -> CaseStatus], taskTip' \in [Tasks -> TaskRow],
         \A c \in Cases : lock'[c] # s => caseTip'[c] = caseTip[c],
         \A t \in Tasks : lock'[t] # s => taskTip'[t] = taskTip[t],
         \A t \in Tasks : lock'[t] = s =>
           /\ taskTip'[t].status # "absent"
           /\ IsOpen(taskTip'[t]) => lock'[Template] = s /\ taskTip'[t].step \in Live(step),
         EndingIsSound(s)', CancelIsSound(s)', CommitIsSound(s)'
  PROVE  WorkflowInvariant'
<1>1. TypeOK /\ CallIsSound(s) /\ TablesAreSound
  BY DEF WorkflowInvariant, CallsAreSound
<1>2. call'[s] = k
  BY <1>1 DEF TypeOK
<1>3. \A row \in Rows : lock'[row] = IF row \in rows THEN s ELSE lock[row]
  BY DEF Take
<1>4. call[s].op \notin StepOps /\ call[s].op \notin {"add_step", "delete_step"}
  BY DEF CaseOps, StepOps
<1>5. lock'[Template] = s => stepTip = step
  <2>1. lock'[Template] = s => lock[Template] \in {s, Free}
    BY <1>3, RowsAreApart DEF CanLock
  <2>2. lock[Template] = s => stepTip = step
    BY <1>1, <1>4 DEF CallIsSound, TemplateIsSound
  <2>3. lock[Template] = Free => stepTip = step
    BY <1>1 DEF TablesAreSound, UnlockedIsCommitted
  <2> QED
    BY <2>1, <2>2, <2>3
<1>6. UNCHANGED step /\ templateTip' = templateTip /\ stepTip' = stepTip
  BY DEF committed
<1>7. TemplateIsSound(s)'
  BY <1>2, <1>4, <1>5, <1>6 DEF TemplateIsSound
<1>8. FreshIsFresh(s)'
  BY <1>2 DEF FreshIsFresh
<1>9. \A row \in Rows : lock'[row] = s => row \in MayHold(k)
  BY <1>3
<1>10. CallIsSound(s)'
  BY <1>1, <1>2, <1>4, <1>7, <1>8, <1>9 DEF CallIsSound
<1>11. /\ templateTip' \in TemplateRow /\ stepTip' \in [Steps -> StepRow]
       /\ lock'[Template] # s => UNCHANGED <<templateTip, stepTip>>
       /\ Numbered(stepTip')
       /\ \A row \in rows : CanLock(s, row)
  BY <1>1, <1>6 DEF TypeOK, TablesAreSound
<1>12. \A t \in Tasks : IsOpen(task[t]) => task[t].step \in Live(stepTip')
  BY <1>1, <1>6 DEF TablesAreSound
<1>13. \A st \in Steps : stepTip[st].state = "absent" =>
         \/ stepTip'[st].state = "absent"
         \/ call[s].pc = "lock_template" /\ call[s].op = "add_step" /\ st = call[s].st
  BY <1>6
<1> QED
  BY <1>10, <1>11, <1>12, <1>13, StatementsKeep, ZenonT(60)

\* A task that is not there, or is as it was committed and closed, is held by nobody.
LEMMA AbsentIsUnlocked ==
  ASSUME WorkflowInvariant, NEW t \in Tasks, taskTip[t].status = "absent"
  PROVE  lock[t] = Free /\ task[t].status = "absent"
<1>1. lock[t] = Free
  BY DEF WorkflowInvariant, TablesAreSound, HeldTasksAreSound
<1> QED
  BY <1>1 DEF WorkflowInvariant, TablesAreSound, UnlockedIsCommitted

\* start_instance keeps the invariant.
LEMMA CreateInstanceKeeps ==
  ASSUME WorkflowInvariant, NEW s \in Sessions, CreateInstance(s)
  PROVE  WorkflowInvariant'
<1> DEFINE c == call[s].c
<1>1. /\ call[s].pc = "lock_template" /\ call[s].op = "start" /\ UNCHANGED committed
      /\ template.deleted \/ CanLock(s, Template)
  BY DEF CreateInstance, GetTemplate, At
<1>2. CASE template.deleted \/ template.archived \/ Live(step) = {}
  BY <1>1, <1>2, RollbackKeeps DEF CreateInstance
<1>3. CASE ~(template.deleted \/ template.archived \/ Live(step) = {})
  <2>1. PICK t \in NextTask(c) :
          /\ caseTip' = [caseTip EXCEPT ![c] = "in_progress"]
          /\ taskTip' = [taskTip EXCEPT ![t] = NewTask(First(Live(step)))]
          /\ Take(s, TemplateLock \cup {c, t})
          /\ Goto(s, "commit")
          /\ UNCHANGED <<templateTip, stepTip>>
    BY <1>3 DEF CreateInstance
  <2>2. CallIsSound(s) /\ TypeOK
    BY DEF WorkflowInvariant, CallsAreSound
  <2>3. /\ c \in Cases /\ case[c] = "absent"
        /\ \A r \in Sessions \ {s} : call[r].c # c
    BY <1>1, <2>2 DEF CallIsSound, FreshIsFresh, CaseOps
  <2>4. t \in TasksOf(c) /\ t \in Tasks
    BY <2>1, <2>3, RowsAreApart DEF NextTask
  <2>5. PICK k \in Call :
          /\ call' = [call EXCEPT ![s] = k] /\ call'[s] = k
          /\ k.pc = "commit" /\ k.op = call[s].op /\ k.c = call[s].c /\ k.t = call[s].t /\ k.st = call[s].st
    BY <2>1, GotoIsACall DEF Points
  <2>6. \A row \in Rows : lock[row] # s
    BY <1>1, NothingHeldAtFirst
  <2> HIDE DEF c
  <2>7. PICK first \in Live(step) : first = First(Live(step))
    <3>1. PICK st \in Steps : TRUE
      BY <1>3 DEF Live
    <3> QED
      BY <1>3, <3>1, FirstIsThere
  <2>8. lock[c] = Free /\ \A u \in TasksOf(c) : lock[u] = Free
    <3>1. \A r \in Sessions : lock[c] # r /\ \A u \in TasksOf(c) : lock[u] # r
      BY <2>3, <2>6, HoldersKnowTheCase, RowsAreApart
    <3> QED
      BY <2>2, <2>3, <3>1, RowsAreApart DEF TypeOK
  <2>9. \A u \in TasksOf(c) : task[u].status = "absent"
    BY <2>3 DEF WorkflowInvariant, TablesAreSound
  <2> DEFINE rows == {Template, c, t}
  <2>10. Take(s, rows)
    <3>1. TemplateLock \cup {c, t} = rows
      BY <1>3 DEF TemplateLock
    <3> QED
      BY <2>1, <3>1
  <2>11. \A row \in Rows : lock'[row] = IF row \in rows THEN s ELSE lock[row]
    BY <2>10 DEF Take
  <2>12. \A row \in Rows : lock'[row] = s <=> row \in {Template, c, t}
    BY <2>6, <2>11
  <2>13. MayHold(k) = {Template} \cup RowsOf(c)
    <3>1. k.pc = "commit" /\ k.op = "start" /\ k.c = c
      BY <1>1, <2>5 DEF c
    <3> QED
      BY <3>1 DEF MayHold, StepOps, TemplateOps
  <2>14. \A row \in rows : CanLock(s, row) /\ row \in MayHold(k)
    BY <1>1, <1>3, <2>4, <2>8, <2>13 DEF CanLock, RowsOf
  <2>15. NewTask(first) \in TaskRow /\ NewTask(first).status = "open" /\ NewTask(first).step = first
    BY <2>7, LiveIsFinite DEF NewTask, TaskRow
  <2>16. /\ caseTip' \in [Cases -> CaseStatus] /\ caseTip'[c] = "in_progress"
         /\ \A d \in Cases : d # c => caseTip'[d] = caseTip[d]
    BY <2>1, <2>2, <2>3 DEF TypeOK, CaseStatus
  <2>17. /\ taskTip' \in [Tasks -> TaskRow] /\ taskTip'[t] = NewTask(first)
         /\ \A u \in Tasks : u # t => taskTip'[u] = taskTip[u]
    BY <2>1, <2>2, <2>4, <2>7, <2>15 DEF TypeOK
  <2>18. /\ \A d \in Cases : lock'[d] # s => caseTip'[d] = caseTip[d]
         /\ \A u \in Tasks : lock'[u] # s => taskTip'[u] = taskTip[u]
    BY <2>12, <2>16, <2>17, RowsAreApart
  <2>19. \A u \in Tasks : lock'[u] = s =>
           /\ taskTip'[u].status # "absent"
           /\ IsOpen(taskTip'[u]) => lock'[Template] = s /\ taskTip'[u].step \in Live(step)
    <3>1. \A u \in Tasks : lock'[u] = s => u = t
      BY <2>3, <2>12, RowsAreApart
    <3>2. lock'[Template] = s
      BY <2>12, RowsAreApart
    <3> QED
      BY <2>7, <2>15, <2>17, <3>1, <3>2
  <2>20. CommitIsSound(s)'
    <3>1. lock'[c] = s
      BY <2>3, <2>12, RowsAreApart
    <3>2. ASSUME NEW u \in TasksOf(c) PROVE IsOpen(Becomes(s, u)') <=> u = t
      <4>1. u \in Tasks /\ u \in Rows
        BY <2>3, RowsAreApart
      <4>2. CASE u = t
        <5>1. lock'[u] = s
          BY <2>12, <4>1, <4>2
        <5> QED
          BY <2>15, <2>17, <4>2, <5>1 DEF Becomes, IsOpen
      <4>3. CASE u # t
        <5>1. lock'[u] # s
          BY <2>3, <2>12, <4>1, <4>3, RowsAreApart
        <5>2. task'[u].status = "absent"
          BY <1>1, <2>9 DEF committed
        <5> QED
          BY <4>3, <5>1, <5>2 DEF Becomes, IsOpen
      <4> QED
        BY <4>2, <4>3
    <3>3. {u \in TasksOf(c) : IsOpen(Becomes(s, u)')} = {t}
      BY <2>4, <3>2
    <3> QED
      BY <2>5, <2>16, <3>1, <3>3 DEF CommitIsSound, Sits, c
  <2>21. EndingIsSound(s)' /\ CancelIsSound(s)'
    BY <1>1, <2>5 DEF EndingIsSound, CancelIsSound
  <2>22. k.op \in Operations(k.pc) /\ call[s].op \in CaseOps
    BY <1>1, <2>5 DEF Operations, AllOps, CaseOps
  <2>23. k.pc # "lock_template"
    BY <2>5
  <2>24. \A row \in Rows : lock[row] = s => row \in MayHold(k)
    BY <2>6
  <2> HIDE DEF rows
  <2> QED
    BY <1>1, <2>1, <2>5, <2>10, <2>14, <2>16, <2>17, <2>18, <2>19, <2>20, <2>21, <2>22, <2>23, <2>24,
       CaseWritesKeep, ZenonT(60)
<1> QED
  BY <1>2, <1>3


\* What a point allows a transaction of a case to hold.
LEMMA WhatMayBeHeld ==
  ASSUME NEW k
  PROVE  /\ k.pc = "end_task" => MayHold(k) = {}
         /\ k.pc = "lock_case" /\ k.op = "end_task" => MayHold(k) = {k.t}
         /\ k.pc = "lock_case" /\ k.op = "cancel_case" => MayHold(k) = {}
         /\ k.pc = "move_on" => MayHold(k) = {k.t, k.c}
         /\ k.pc = "list_tasks" => MayHold(k) = {k.c}
         /\ k.pc = "cancel_tasks" => MayHold(k) = RowsOf(k.c)
         /\ k.pc = "commit" /\ k.op = "end_task" => MayHold(k) = {Template} \cup RowsOf(k.c)
         /\ k.pc = "commit" /\ k.op = "cancel_case" => MayHold(k) = RowsOf(k.c)
BY DEF MayHold, StepOps, TemplateOps

\* complete_task and cancel_task keep the invariant.
LEMMA EndTaskKeeps ==
  ASSUME WorkflowInvariant, NEW s \in Sessions, EndTask(s)
  PROVE  WorkflowInvariant'
<1>1. CallIsSound(s) /\ TypeOK
  BY DEF WorkflowInvariant, CallsAreSound
<1>2. /\ call[s].pc = "end_task" /\ call[s].op = "end_task" /\ UNCHANGED committed
      /\ CanLock(s, call[s].t)
  BY <1>1 DEF EndTask, At, CallIsSound, Operations
<1> DEFINE c == call[s].c
           t == call[s].t
<1>3. c \in Cases /\ t \in TasksOf(c) /\ t \in Tasks
  BY <1>1, <1>2, RowsAreApart DEF CallIsSound, CaseOps, EndingIsSound
<1>4. CASE ~IsOpen(taskTip[t])
  BY <1>2, <1>4, RollbackKeeps DEF EndTask
<1>5. CASE IsOpen(taskTip[t])
  <2>1. /\ taskTip' = [taskTip EXCEPT ![t].status = "ended"]
        /\ Take(s, {t}) /\ Goto(s, "lock_case")
        /\ UNCHANGED <<templateTip, stepTip, caseTip>>
    BY <1>5 DEF EndTask
  <2>2. PICK k \in Call :
          /\ call' = [call EXCEPT ![s] = k] /\ call'[s] = k
          /\ k.pc = "lock_case" /\ k.op = call[s].op /\ k.c = call[s].c /\ k.t = call[s].t /\ k.st = call[s].st
    BY <2>1, GotoIsACall DEF Points
  <2>3. \A row \in Rows : lock[row] # s
    BY <1>2, NothingHeldAtFirst
  <2>4. k.t = t
    BY <2>2
  <2> HIDE DEF c, t
  <2>5. lock[t] = Free /\ IsOpen(task[t])
    <3>1. lock[t] = Free
      BY <1>2, <1>3, <2>3, RowsAreApart DEF CanLock, t
    <3> QED
      BY <1>3, <1>5, <3>1 DEF WorkflowInvariant, TablesAreSound, UnlockedIsCommitted
  <2>6. \A row \in Rows : lock'[row] = IF row = t THEN s ELSE lock[row]
    BY <2>1 DEF Take
  <2>7. \A row \in Rows : lock'[row] = s <=> row = t
    BY <2>3, <2>6
  <2>8. MayHold(k) = {t}
    BY <1>2, <2>2, <2>4, WhatMayBeHeld
  <2>9. PICK rows : rows = {t}
    OBVIOUS
  <2>10. Take(s, rows) /\ \A row \in rows : CanLock(s, row) /\ row \in MayHold(k)
    BY <1>2, <2>1, <2>8, <2>9 DEF t
  <2>11. taskTip \in [Tasks -> TaskRow] /\ taskTip[t] \in TaskRow
    BY <1>1, <1>3 DEF TypeOK
  <2>12. /\ [taskTip[t] EXCEPT !.status = "ended"] \in TaskRow
         /\ [taskTip[t] EXCEPT !.status = "ended"].status = "ended"
    BY <2>11 DEF TaskRow
  <2>13. /\ taskTip' \in [Tasks -> TaskRow] /\ taskTip'[t].status = "ended"
         /\ \A u \in Tasks : u # t => taskTip'[u] = taskTip[u]
    BY <1>3, <2>1, <2>11, <2>12
  <2>14. /\ caseTip' \in [Cases -> CaseStatus]
         /\ \A d \in Cases : lock'[d] # s => caseTip'[d] = caseTip[d]
         /\ UNCHANGED <<templateTip, stepTip>>
    BY <1>1, <2>1 DEF TypeOK
  <2>15. \A u \in Tasks : lock'[u] # s => taskTip'[u] = taskTip[u]
    BY <1>3, <2>7, <2>13, RowsAreApart
  <2>16. \A u \in Tasks : lock'[u] = s =>
           /\ taskTip'[u].status # "absent"
           /\ IsOpen(taskTip'[u]) => lock'[Template] = s /\ taskTip'[u].step \in Live(step)
    BY <2>7, <2>13, RowsAreApart DEF IsOpen
  <2>17. EndingIsSound(s)'
    <3>1. lock'[t] = s
      BY <1>3, <2>7, RowsAreApart
    <3>2. IsOpen(task'[t])
      BY <1>2, <2>5 DEF committed
    <3> QED
      BY <1>3, <2>2, <2>4, <2>13, <3>1, <3>2 DEF EndingIsSound, c
  <2>18. CancelIsSound(s)' /\ CommitIsSound(s)'
    BY <2>2 DEF CancelIsSound, CommitIsSound
  <2>19. k.op \in Operations(k.pc) /\ call[s].op \in CaseOps /\ k.pc # "lock_template"
    BY <1>2, <2>2 DEF Operations, CaseOps
  <2>20. \A row \in Rows : lock[row] = s => row \in MayHold(k)
    BY <2>3
  <2> QED
    BY <1>2, <2>2, <2>10, <2>13, <2>14, <2>15, <2>16, <2>17, <2>18, <2>19, <2>20, CaseWritesKeep, ZenonT(60)
<1> QED
  BY <1>4, <1>5

\* The first lock of move_on_after_task keeps the invariant: the case of an open task
\* that is not locked is running.
LEMMA LockCaseKeeps ==
  ASSUME WorkflowInvariant, NEW s \in Sessions, LockCase(s)
  PROVE  WorkflowInvariant'
<1> DEFINE c == call[s].c
           t == call[s].t
<1>1. CallIsSound(s) /\ TypeOK
  BY DEF WorkflowInvariant, CallsAreSound
<1>2. /\ call[s].pc = "lock_case" /\ call[s].op = "end_task" /\ UNCHANGED committed
      /\ CanLock(s, c) /\ Take(s, {c}) /\ UNCHANGED tips
      /\ Goto(s, IF caseTip[c] = "in_progress" THEN "move_on" ELSE "commit")
  BY DEF LockCase, At
<1>3. c \in Cases /\ t \in TasksOf(c) /\ t \in Tasks
  BY <1>1, <1>2, RowsAreApart DEF CallIsSound, CaseOps, EndingIsSound
<1>4. lock[t] = s /\ IsOpen(task[t]) /\ taskTip[t].status = "ended"
  BY <1>1, <1>2 DEF CallIsSound, EndingIsSound
<1>5. case[c] = "in_progress"
  <2>1. Sits(case[c], OpenTasks(c)) /\ t \in OpenTasks(c)
    BY <1>3, <1>4 DEF WorkflowInvariant, TablesAreSound, OpenTasks
  <2> QED
    BY <2>1 DEF Sits
<1>6. MayHold(call[s]) = {t}
  BY <1>2, WhatMayBeHeld
<1>7. \A row \in Rows : lock[row] = s => row = t
  BY <1>1, <1>6 DEF CallIsSound
<1>8. caseTip[c] = "in_progress"
  <2>1. lock[c] = Free
    BY <1>2, <1>3, <1>7, RowsAreApart DEF CanLock
  <2> QED
    BY <1>3, <1>5, <2>1 DEF WorkflowInvariant, TablesAreSound, UnlockedIsCommitted
<1>9. PICK k \in Call :
        /\ call' = [call EXCEPT ![s] = k] /\ call'[s] = k
        /\ k.pc = "move_on" /\ k.op = call[s].op /\ k.c = call[s].c /\ k.t = call[s].t /\ k.st = call[s].st
  BY <1>2, <1>8, GotoIsACall DEF Points
<1>10. k.c = c /\ k.t = t /\ k.op = "end_task"
  BY <1>2, <1>9
<1> HIDE DEF c, t
<1>11. MayHold(k) = {t, c}
  BY <1>9, <1>10, WhatMayBeHeld
<1>12. PICK rows : rows = {c}
  OBVIOUS
<1>13. Take(s, rows) /\ \A row \in rows : CanLock(s, row) /\ row \in MayHold(k)
  BY <1>2, <1>11, <1>12
<1>14. \A row \in Rows : lock[row] = s => row \in MayHold(k)
  BY <1>7, <1>11
<1>15. \A row \in Rows : lock'[row] = IF row = c THEN s ELSE lock[row]
  BY <1>12, <1>13 DEF Take
<1>16. UNCHANGED <<templateTip, stepTip>> /\ caseTip' = caseTip /\ taskTip' = taskTip
  BY <1>2 DEF tips
<1>17. /\ caseTip' \in [Cases -> CaseStatus] /\ taskTip' \in [Tasks -> TaskRow]
       /\ \A d \in Cases : lock'[d] # s => caseTip'[d] = caseTip[d]
       /\ \A u \in Tasks : lock'[u] # s => taskTip'[u] = taskTip[u]
  BY <1>1, <1>16 DEF TypeOK
<1>18. \A u \in Tasks : lock'[u] = s =>
         /\ taskTip'[u].status # "absent"
         /\ IsOpen(taskTip'[u]) => lock'[Template] = s /\ taskTip'[u].step \in Live(step)
  BY <1>3, <1>4, <1>7, <1>15, <1>16, RowsAreApart DEF IsOpen
<1>19. EndingIsSound(s)'
  <2>1. lock'[t] = s /\ lock'[c] = s
    BY <1>3, <1>4, <1>15, RowsAreApart
  <2>2. IsOpen(task'[t]) /\ case'[c] = "in_progress" /\ taskTip'[t].status = "ended" /\ caseTip'[c] = "in_progress"
    BY <1>2, <1>4, <1>5, <1>8, <1>16 DEF committed
  <2> QED
    BY <1>3, <1>9, <1>10, <2>1, <2>2 DEF EndingIsSound
<1>20. CancelIsSound(s)' /\ CommitIsSound(s)'
  BY <1>9 DEF CancelIsSound, CommitIsSound
<1>21. k.op \in Operations(k.pc) /\ call[s].op \in CaseOps /\ k.pc # "lock_template"
  BY <1>2, <1>9 DEF Operations, CaseOps
<1> QED
  BY <1>2, <1>9, <1>13, <1>14, <1>16, <1>17, <1>18, <1>19, <1>20, <1>21, CaseWritesKeep, ZenonT(60)

\* cancel_instance keeps the invariant, up to its list of tasks.
LEMMA CancelInstanceKeeps ==
  ASSUME WorkflowInvariant, NEW s \in Sessions, CancelInstance(s)
  PROVE  WorkflowInvariant'
<1> DEFINE c == call[s].c
<1>1. CallIsSound(s) /\ TypeOK
  BY DEF WorkflowInvariant, CallsAreSound
<1>2. /\ call[s].pc = "lock_case" /\ call[s].op = "cancel_case" /\ UNCHANGED committed
      /\ CanLock(s, c)
  BY DEF CancelInstance, At
<1>3. c \in Cases
  BY <1>1, <1>2 DEF CallIsSound, CaseOps
<1>4. CASE caseTip[c] # "in_progress"
  BY <1>2, <1>4, RollbackKeeps DEF CancelInstance
<1>5. CASE caseTip[c] = "in_progress"
  <2>1. /\ caseTip' = [caseTip EXCEPT ![c] = "cancelled"]
        /\ Take(s, {c}) /\ Goto(s, "list_tasks")
        /\ UNCHANGED <<templateTip, stepTip, taskTip>>
    BY <1>5 DEF CancelInstance
  <2>2. PICK k \in Call :
          /\ call' = [call EXCEPT ![s] = k] /\ call'[s] = k
          /\ k.pc = "list_tasks" /\ k.op = call[s].op /\ k.c = call[s].c /\ k.t = call[s].t /\ k.st = call[s].st
    BY <2>1, GotoIsACall DEF Points
  <2>3. \A row \in Rows : lock[row] # s
    BY <1>1, <1>2, WhatMayBeHeld DEF CallIsSound
  <2>4. k.c = c /\ k.op = "cancel_case"
    BY <1>2, <2>2
  <2> HIDE DEF c
  <2>5. \A row \in Rows : lock'[row] = IF row = c THEN s ELSE lock[row]
    BY <2>1 DEF Take
  <2>6. \A row \in Rows : lock'[row] = s <=> row = c
    BY <2>3, <2>5
  <2>7. MayHold(k) = {c}
    BY <2>2, <2>4, WhatMayBeHeld
  <2>8. PICK rows : rows = {c}
    OBVIOUS
  <2>9. Take(s, rows) /\ \A row \in rows : CanLock(s, row) /\ row \in MayHold(k)
    BY <1>2, <2>1, <2>7, <2>8
  <2>10. /\ caseTip' \in [Cases -> CaseStatus] /\ caseTip'[c] = "cancelled"
         /\ \A d \in Cases : d # c => caseTip'[d] = caseTip[d]
    BY <1>1, <1>3, <2>1 DEF TypeOK, CaseStatus
  <2>11. /\ \A d \in Cases : lock'[d] # s => caseTip'[d] = caseTip[d]
         /\ \A u \in Tasks : lock'[u] # s => taskTip'[u] = taskTip[u]
         /\ taskTip' \in [Tasks -> TaskRow]
         /\ UNCHANGED <<templateTip, stepTip>>
    BY <1>1, <2>1, <2>6, <2>10, RowsAreApart DEF TypeOK
  <2>12. \A u \in Tasks : lock'[u] = s =>
           /\ taskTip'[u].status # "absent"
           /\ IsOpen(taskTip'[u]) => lock'[Template] = s /\ taskTip'[u].step \in Live(step)
    BY <1>3, <2>6, RowsAreApart
  <2>13. CancelIsSound(s)'
    <3>1. lock'[c] = s
      BY <1>3, <2>6, RowsAreApart
    <3> QED
      BY <2>2, <2>4, <2>10, <3>1 DEF CancelIsSound
  <2>14. EndingIsSound(s)' /\ CommitIsSound(s)'
    BY <2>2, <2>4 DEF EndingIsSound, CommitIsSound
  <2>15. k.op \in Operations(k.pc) /\ call[s].op \in CaseOps /\ k.pc # "lock_template"
    BY <1>2, <2>2 DEF Operations, CaseOps
  <2>16. \A row \in Rows : lock[row] = s => row \in MayHold(k)
    BY <2>3
  <2> QED
    BY <1>2, <2>2, <2>9, <2>10, <2>11, <2>12, <2>13, <2>14, <2>15, <2>16, CaseWritesKeep, ZenonT(60)
<1> QED
  BY <1>4, <1>5

\* The list of a cancelled case's open tasks keeps the invariant.
LEMMA ListTasksKeeps ==
  ASSUME WorkflowInvariant, NEW s \in Sessions, ListTasks(s)
  PROVE  WorkflowInvariant'
<1> DEFINE c == call[s].c
           open == {t \in TasksOf(c) : IsOpen(task[t])}
           k == [call[s] EXCEPT !.pc = "cancel_tasks", !.todo = open]
<1>1. CallIsSound(s) /\ TypeOK /\ call \in [Sessions -> Call] /\ call[s] \in Call
  BY DEF WorkflowInvariant, CallsAreSound, TypeOK
<1>2. call[s].pc = "list_tasks" /\ UNCHANGED committed /\ UNCHANGED <<tips, lock>>
  BY DEF ListTasks, At
<1>3. call[s].op = "cancel_case"
  BY <1>1, <1>2 DEF CallIsSound, Operations
<1>4. c \in Cases
  BY <1>1, <1>3 DEF CallIsSound, CaseOps
<1>5. open \subseteq Tasks
  BY <1>4, RowsAreApart
<1>6. call' = [call EXCEPT ![s] = k]
  BY <1>1 DEF ListTasks
<1> HIDE DEF open
<1>7. k \in Call
  BY <1>1, <1>5 DEF Call
<1>8. k.op = "cancel_case" /\ k.op = call[s].op /\ k.c = call[s].c /\ k.st = call[s].st /\ k.pc = "cancel_tasks" /\ k.todo = open
  BY <1>1, <1>3 DEF Call
<1>9. k.c = c
  BY <1>8
<1> HIDE DEF k
<1>10. call'[s] = k
  BY <1>1, <1>6
<1>11. MayHold(call[s]) = {c}
  BY <1>2, WhatMayBeHeld
<1>12. lock[c] = s /\ caseTip[c] = "cancelled"
  BY <1>1, <1>2 DEF CallIsSound, CancelIsSound
<1> HIDE DEF c
<1>13. MayHold(k) = RowsOf(c)
  BY <1>8, <1>9, WhatMayBeHeld
<1>14. \A row \in Rows : lock[row] = s => row = c
  BY <1>1, <1>11 DEF CallIsSound
<1>15. \A row \in Rows : lock[row] = s => row \in MayHold(k)
  BY <1>13, <1>14 DEF RowsOf
<1>16. PICK rows : rows = {}
  OBVIOUS
<1>17. Take(s, rows) /\ \A row \in rows : CanLock(s, row) /\ row \in MayHold(k)
  BY <1>1, <1>2, <1>16 DEF Take, TypeOK
<1>18. /\ UNCHANGED <<templateTip, stepTip>> /\ caseTip' = caseTip /\ taskTip' = taskTip /\ lock' = lock
  BY <1>2 DEF tips
<1>19. /\ caseTip' \in [Cases -> CaseStatus] /\ taskTip' \in [Tasks -> TaskRow]
       /\ \A d \in Cases : lock'[d] # s => caseTip'[d] = caseTip[d]
       /\ \A u \in Tasks : lock'[u] # s => taskTip'[u] = taskTip[u]
  BY <1>1, <1>18 DEF TypeOK
<1>20. \A u \in Tasks : lock'[u] # s
  BY <1>4, <1>14, <1>18, RowsAreApart
<1>21. \A u \in Tasks : lock'[u] = s =>
         /\ taskTip'[u].status # "absent"
         /\ IsOpen(taskTip'[u]) => lock'[Template] = s /\ taskTip'[u].step \in Live(step)
  BY <1>20
<1>22. CancelIsSound(s)'
  <2>1. open \subseteq TasksOf(c) /\ \A t \in TasksOf(c) : IsOpen(task'[t]) => t \in open
    BY <1>2 DEF open, committed
  <2>2. \A t \in TasksOf(c) : lock'[t] # s
    BY <1>4, <1>20, RowsAreApart
  <2> QED
    BY <1>8, <1>9, <1>10, <1>12, <1>18, <2>1, <2>2 DEF CancelIsSound
<1>23. EndingIsSound(s)' /\ CommitIsSound(s)'
  BY <1>8, <1>10 DEF EndingIsSound, CommitIsSound
<1>24. k.op \in Operations(k.pc) /\ call[s].op \in CaseOps /\ k.pc # "lock_template"
  BY <1>3, <1>8 DEF Operations, CaseOps
<1> QED
  BY <1>2, <1>6, <1>7, <1>8, <1>15, <1>17, <1>18, <1>19, <1>21, <1>22, <1>23, <1>24, CaseWritesKeep, ZenonT(60)


\* Cancelling the listed tasks keeps the invariant: those that ended meanwhile stay.
LEMMA CancelOpenTasksKeeps ==
  ASSUME WorkflowInvariant, NEW s \in Sessions, CancelOpenTasks(s)
  PROVE  WorkflowInvariant'
<1> DEFINE c == call[s].c
           todo == call[s].todo
<1>1. CallIsSound(s) /\ TypeOK /\ call \in [Sessions -> Call] /\ call[s] \in Call
  BY DEF WorkflowInvariant, CallsAreSound, TypeOK
<1>2. call[s].pc = "cancel_tasks" /\ UNCHANGED committed /\ UNCHANGED <<templateTip, stepTip, caseTip>>
  BY DEF CancelOpenTasks, At
<1>3. call[s].op = "cancel_case"
  BY <1>1, <1>2 DEF CallIsSound, Operations
<1>4. c \in Cases /\ \A t \in TasksOf(c) : t \in Tasks /\ t \in Rows
  BY <1>1, <1>3, RowsAreApart DEF CallIsSound, CaseOps
<1>5. /\ lock[c] = s /\ caseTip[c] = "cancelled" /\ todo \subseteq TasksOf(c)
      /\ \A t \in TasksOf(c) :
           /\ IsOpen(task[t]) => t \in todo \/ lock[t] = s
           /\ lock[t] = s => ~IsOpen(taskTip[t])
  BY <1>1, <1>2 DEF CallIsSound, CancelIsSound
<1>6. \A row \in Rows : lock[row] = s => row \in RowsOf(c)
  BY <1>1, <1>2, WhatMayBeHeld DEF CallIsSound
<1>7. \A t \in Tasks : lock[t] = s => t \in TasksOf(c)
  BY <1>4, <1>6, RowsAreApart DEF RowsOf
<1>8. \A t \in Tasks : lock[t] = s => taskTip[t].status # "absent" /\ ~IsOpen(taskTip[t])
  BY <1>5, <1>7, WorkflowAssumption DEF WorkflowInvariant, TablesAreSound, HeldTasksAreSound
<1>9. UNCHANGED <<templateTip, stepTip>> /\ caseTip' = caseTip /\ UNCHANGED task
  BY <1>2 DEF committed
<1>10. call[s].op \in CaseOps
  BY <1>3 DEF CaseOps
<1>11. /\ caseTip' \in [Cases -> CaseStatus]
       /\ \A d \in Cases : lock'[d] # s => caseTip'[d] = caseTip[d]
  BY <1>1, <1>9 DEF TypeOK
<1>12. CASE todo = {} /\ Goto(s, "commit") /\ UNCHANGED <<taskTip, lock>>
  <2>1. PICK k \in Call :
          /\ call' = [call EXCEPT ![s] = k] /\ call'[s] = k
          /\ k.pc = "commit" /\ k.op = call[s].op /\ k.c = call[s].c /\ k.t = call[s].t /\ k.st = call[s].st
    BY <1>12, GotoIsACall DEF Points
  <2>2. PICK rows : rows = {}
    OBVIOUS
  <2>3. Take(s, rows) /\ \A row \in rows : CanLock(s, row) /\ row \in MayHold(k)
    BY <1>1, <1>12, <2>2 DEF Take, TypeOK
  <2>4. MayHold(k) = RowsOf(k.c)
    BY <1>3, <2>1, WhatMayBeHeld
  <2>5. \A row \in Rows : lock[row] = s => row \in MayHold(k)
    BY <1>6, <2>1, <2>4
  <2>6. /\ taskTip' \in [Tasks -> TaskRow]
        /\ \A u \in Tasks : lock'[u] # s => taskTip'[u] = taskTip[u]
    BY <1>1, <1>12 DEF TypeOK
  <2>7. \A u \in Tasks : lock'[u] = s =>
          /\ taskTip'[u].status # "absent"
          /\ IsOpen(taskTip'[u]) => lock'[Template] = s /\ taskTip'[u].step \in Live(step)
    BY <1>8, <1>12
  <2>8. CommitIsSound(s)'
    <3>1. \A u \in TasksOf(c) : ~IsOpen(Becomes(s, u)')
      BY <1>5, <1>9, <1>12 DEF Becomes
    <3>2. {u \in TasksOf(c) : IsOpen(Becomes(s, u)')} = {}
      BY <3>1
    <3>3. lock'[c] = s /\ caseTip'[c] = "cancelled" /\ call'[s].c = c
      BY <1>5, <1>9, <1>12, <2>1
    <3> HIDE DEF c
    <3> QED
      BY <3>2, <3>3 DEF CommitIsSound, Sits
  <2>9. EndingIsSound(s)' /\ CancelIsSound(s)'
    BY <1>3, <2>1 DEF EndingIsSound, CancelIsSound
  <2>10. k.op \in Operations(k.pc) /\ k.pc # "lock_template"
    BY <1>3, <2>1 DEF Operations, AllOps
  <2> QED
    BY <1>2, <1>9, <1>10, <1>11, <2>1, <2>3, <2>5, <2>6, <2>7, <2>8, <2>9, <2>10, CaseWritesKeep, ZenonT(60)
<1>13. ASSUME NEW t \in todo, CanLock(s, t), call' = [call EXCEPT ![s].todo = @ \ {t}],
              NEW rows, Take(s, rows), rows \subseteq {t},
              taskTip' \in [Tasks -> TaskRow], \A u \in Tasks : u # t => taskTip'[u] = taskTip[u],
              rows = {} => taskTip' = taskTip /\ ~IsOpen(taskTip[t]),
              rows # {} => taskTip'[t].status = "ended"
       PROVE  WorkflowInvariant'
  <2> DEFINE k == [call[s] EXCEPT !.todo = todo \ {t}]
  <2>1. t \in TasksOf(c) /\ t \in Tasks
    BY <1>4, <1>5, <1>13
  <2>2. call' = [call EXCEPT ![s] = k]
    BY <1>1, <1>13
  <2>3. todo \ {t} \in SUBSET Tasks
    BY <1>4, <1>5
  <2>4. k \in Call
    BY <1>1, <2>3 DEF Call
  <2>5. /\ k.op = call[s].op /\ k.c = call[s].c /\ k.st = call[s].st /\ k.pc = "cancel_tasks"
        /\ k.todo = todo \ {t}
    BY <1>1, <1>2 DEF Call
  <2> HIDE DEF k
  <2>6. call'[s] = k
    BY <1>1, <2>2
  <2>7. MayHold(k) = RowsOf(c)
    BY <2>5, WhatMayBeHeld
  <2>8. \A row \in rows : CanLock(s, row) /\ row \in MayHold(k)
    BY <1>13, <2>1, <2>7 DEF RowsOf
  <2>9. \A row \in Rows : lock[row] = s => row \in MayHold(k)
    BY <1>6, <2>7
  <2>10. \A row \in Rows : lock'[row] = IF row \in rows THEN s ELSE lock[row]
    BY <1>13 DEF Take
  <2>11. \A u \in Tasks : u # t => (lock'[u] = s <=> lock[u] = s)
    BY <1>13, <2>10, RowsAreApart
  <2>12. rows = {} \/ lock'[t] = s
    BY <1>13, <2>1, <2>10, RowsAreApart
  <2>13. rows = {} => \A row \in Rows : lock'[row] = lock[row]
    BY <2>10
  <2>14. \A u \in Tasks : lock'[u] # s => taskTip'[u] = taskTip[u]
    BY <1>13, <2>12
  <2>15. \A u \in Tasks : lock'[u] = s => taskTip'[u].status # "absent" /\ ~IsOpen(taskTip'[u])
    <3> SUFFICES ASSUME NEW u \in Tasks, lock'[u] = s
                 PROVE  taskTip'[u].status # "absent" /\ ~IsOpen(taskTip'[u])
      OBVIOUS
    <3>1. CASE u # t
      BY <1>8, <1>13, <2>11, <3>1
    <3>2. CASE u = t /\ rows # {}
      BY <1>13, <3>2 DEF IsOpen
    <3>3. CASE rows = {}
      BY <1>8, <1>13, <2>13, <3>3, RowsAreApart
    <3> QED
      BY <3>1, <3>2, <3>3
  <2>16. \A u \in Tasks : lock'[u] = s =>
           /\ taskTip'[u].status # "absent"
           /\ IsOpen(taskTip'[u]) => lock'[Template] = s /\ taskTip'[u].step \in Live(step)
    BY <2>15
  <2>17. IsOpen(task[t]) => lock'[t] = s
    <3>1. CASE rows # {}
      BY <2>12, <3>1
    <3>2. CASE rows = {}
      <4>1. ~IsOpen(taskTip[t]) /\ lock'[t] = lock[t] /\ lock[t] \in {s, Free}
        BY <1>13, <2>1, <2>13, <3>2, RowsAreApart DEF CanLock
      <4>2. lock[t] = Free => taskTip[t] = task[t]
        BY <2>1 DEF WorkflowInvariant, TablesAreSound, UnlockedIsCommitted
      <4> QED
        BY <4>1, <4>2
    <3> QED
      BY <3>1, <3>2
  <2>18. CancelIsSound(s)'
    <3>1. lock'[c] = s
      BY <1>4, <1>5, <2>10, RowsAreApart
    <3>2. todo \ {t} \subseteq TasksOf(c)
      BY <1>5
    <3>3. ASSUME NEW u \in TasksOf(c)
          PROVE  /\ IsOpen(task'[u]) => u \in todo \ {t} \/ lock'[u] = s
                 /\ lock'[u] = s => ~IsOpen(taskTip'[u])
      BY <1>4, <1>5, <1>9, <2>11, <2>15, <2>17
    <3>4. caseTip'[c] = "cancelled" /\ call'[s].c = c /\ call'[s].todo = todo \ {t}
      BY <1>5, <1>9, <2>5, <2>6
    <3> HIDE DEF c, todo
    <3> QED
      BY <3>1, <3>2, <3>3, <3>4 DEF CancelIsSound
  <2>19. EndingIsSound(s)' /\ CommitIsSound(s)'
    BY <1>3, <2>5, <2>6 DEF EndingIsSound, CommitIsSound
  <2>20. k.op \in Operations(k.pc) /\ k.pc # "lock_template"
    BY <1>3, <2>5 DEF Operations
  <2>21. Take(s, rows) /\ taskTip' \in [Tasks -> TaskRow]
    BY <1>13
  <2> QED
    BY <1>2, <1>9, <1>10, <1>11, <2>2, <2>4, <2>5, <2>8, <2>9, <2>14, <2>16, <2>18, <2>19, <2>20, <2>21,
       CaseWritesKeep, ZenonT(60)
<1>14. ASSUME NEW t \in todo, CanLock(s, t), call' = [call EXCEPT ![s].todo = @ \ {t}],
              IF IsOpen(taskTip[t])
              THEN taskTip' = [taskTip EXCEPT ![t].status = "ended"] /\ Take(s, {t})
              ELSE UNCHANGED <<taskTip, lock>>
       PROVE  WorkflowInvariant'
  <2>1. t \in Tasks /\ taskTip \in [Tasks -> TaskRow] /\ taskTip[t] \in TaskRow
    BY <1>1, <1>4, <1>5, <1>14 DEF TypeOK
  <2>2. CASE IsOpen(taskTip[t])
    <3>1. taskTip' = [taskTip EXCEPT ![t].status = "ended"] /\ Take(s, {t})
      BY <1>14, <2>2
    <3>2. /\ [taskTip[t] EXCEPT !.status = "ended"] \in TaskRow
          /\ [taskTip[t] EXCEPT !.status = "ended"].status = "ended"
      BY <2>1 DEF TaskRow
    <3>3. /\ taskTip' \in [Tasks -> TaskRow] /\ taskTip'[t].status = "ended"
          /\ \A u \in Tasks : u # t => taskTip'[u] = taskTip[u]
      BY <2>1, <3>1, <3>2
    <3>4. {t} # {}
      OBVIOUS
    <3> HIDE DEF todo
    <3> QED
      BY <1>13, <1>14, <3>1, <3>3, <3>4
  <2>3. CASE ~IsOpen(taskTip[t])
    <3>1. UNCHANGED <<taskTip, lock>>
      BY <1>14, <2>3
    <3>2. Take(s, {})
      BY <1>1, <3>1 DEF Take, TypeOK
    <3> HIDE DEF todo
    <3> QED
      BY <1>13, <1>14, <2>1, <2>3, <3>1, <3>2
  <2> QED
    BY <2>2, <2>3
<1> QED
  BY <1>12, <1>14 DEF CancelOpenTasks


\* The rest of move_on_after_task keeps the invariant: the case sits on one new task,
\* or is over.
LEMMA MoveOnKeeps ==
  ASSUME WorkflowInvariant, NEW s \in Sessions, MoveOn(s)
  PROVE  WorkflowInvariant'
<1> DEFINE c == call[s].c
           t == call[s].t
           finished == task[t].step
           after == StepsAfter(finished)
<1>1. CallIsSound(s) /\ TypeOK
  BY DEF WorkflowInvariant, CallsAreSound
<1>2. /\ call[s].pc = "move_on" /\ call[s].op = "end_task" /\ UNCHANGED committed
      /\ template.deleted \/ CanLock(s, Template)
  BY DEF MoveOn, GetTemplate, At
<1>3. c \in Cases /\ t \in TasksOf(c) /\ t \in Tasks
  BY <1>1, <1>2, RowsAreApart DEF CallIsSound, CaseOps, EndingIsSound
<1>4. /\ lock[t] = s /\ IsOpen(task[t]) /\ taskTip[t].status = "ended"
      /\ lock[c] = s /\ case[c] = "in_progress" /\ caseTip[c] = "in_progress"
  BY <1>1, <1>2 DEF CallIsSound, EndingIsSound
<1>5. OpenTasks(c) = {t}
  <2>1. Sits(case[c], OpenTasks(c)) /\ t \in OpenTasks(c)
    BY <1>3, <1>4 DEF WorkflowInvariant, TablesAreSound, OpenTasks
  <2> QED
    BY <1>4, <2>1 DEF Sits
<1>6. \A row \in Rows : lock[row] = s => row \in {t, c}
  BY <1>1, <1>2, WhatMayBeHeld DEF CallIsSound
<1>7. CASE finished \notin Live(step) \/ (after # {} /\ template.deleted)
  BY <1>2, <1>7, RollbackKeeps DEF MoveOn
<1>8. ASSUME finished \in Live(step), NEW rows \in SUBSET Rows, Take(s, rows), Goto(s, "commit"),
             \A row \in rows : CanLock(s, row) /\ row \in {Template} \cup RowsOf(c),
             UNCHANGED <<templateTip, stepTip>>,
             caseTip' \in [Cases -> CaseStatus], taskTip' \in [Tasks -> TaskRow],
             \A d \in Cases : d # c => caseTip'[d] = caseTip[d],
             \A u \in Tasks : u \notin rows => taskTip'[u] = taskTip[u],
             \A u \in Tasks : u \in rows =>
               /\ u # t /\ taskTip'[u].status # "absent"
               /\ IsOpen(taskTip'[u]) => Template \in rows /\ taskTip'[u].step \in Live(step),
             caseTip'[c] # "absent",
             Sits(caseTip'[c], {u \in TasksOf(c) : u \in rows /\ IsOpen(taskTip'[u])})
      PROVE  WorkflowInvariant'
  <2>1. PICK k \in Call :
          /\ call' = [call EXCEPT ![s] = k] /\ call'[s] = k
          /\ k.pc = "commit" /\ k.op = call[s].op /\ k.c = call[s].c /\ k.t = call[s].t /\ k.st = call[s].st
    BY <1>8, GotoIsACall DEF Points
  <2>2. k.c = c /\ k.op = "end_task"
    BY <1>2, <2>1
  <2> HIDE DEF c, t, finished, after
  <2>3. MayHold(k) = {Template} \cup RowsOf(c)
    BY <2>1, <2>2, WhatMayBeHeld
  <2>4. \A row \in rows : CanLock(s, row) /\ row \in MayHold(k)
    BY <1>8, <2>3
  <2>5. \A row \in Rows : lock[row] = s => row \in MayHold(k)
    BY <1>3, <1>6, <2>3 DEF RowsOf
  <2>6. \A row \in Rows : lock'[row] = IF row \in rows THEN s ELSE lock[row]
    BY <1>8 DEF Take
  <2>7. \A row \in Rows : lock'[row] = s <=> row \in rows \/ lock[row] = s
    BY <2>6
  <2>8. lock'[c] = s /\ lock'[t] = s
    BY <1>3, <1>4, <2>7, RowsAreApart
  <2>9. /\ \A d \in Cases : lock'[d] # s => caseTip'[d] = caseTip[d]
        /\ \A u \in Tasks : lock'[u] # s => taskTip'[u] = taskTip[u]
    BY <1>8, <2>7, <2>8, RowsAreApart
  <2>10. ASSUME NEW u \in Tasks, u \notin rows PROVE lock'[u] = s => u = t
    BY <1>3, <1>6, <2>7, <2>10, RowsAreApart
  <2>11. taskTip'[t] = taskTip[t]
    BY <1>3, <1>8
  <2>12. \A u \in Tasks : lock'[u] = s =>
           /\ taskTip'[u].status # "absent"
           /\ IsOpen(taskTip'[u]) => lock'[Template] = s /\ taskTip'[u].step \in Live(step)
    <3> SUFFICES ASSUME NEW u \in Tasks, lock'[u] = s
                 PROVE  /\ taskTip'[u].status # "absent"
                        /\ IsOpen(taskTip'[u]) => lock'[Template] = s /\ taskTip'[u].step \in Live(step)
      OBVIOUS
    <3>1. CASE u \in rows
      BY <1>8, <2>7, <3>1, RowsAreApart
    <3>2. CASE u \notin rows
      BY <1>4, <2>10, <2>11, <3>2 DEF IsOpen
    <3> QED
      BY <3>1, <3>2
  <2>13. CommitIsSound(s)'
    <3>1. ASSUME NEW u \in TasksOf(c) PROVE IsOpen(Becomes(s, u)') <=> u \in rows /\ IsOpen(taskTip'[u])
      <4>1. u \in Tasks /\ u \in Rows
        BY <1>3, RowsAreApart
      <4>2. CASE u \in rows
        BY <2>7, <4>1, <4>2 DEF Becomes
      <4>3. CASE u = t /\ u \notin rows
        BY <1>4, <2>8, <2>11, <4>3 DEF Becomes, IsOpen
      <4>4. CASE u # t /\ u \notin rows
        <5>1. lock'[u] # s
          BY <2>10, <4>1, <4>4
        <5>2. ~IsOpen(task[u]) /\ task' = task
          BY <1>2, <1>5, <4>4 DEF OpenTasks, committed
        <5> QED
          BY <4>4, <5>1, <5>2 DEF Becomes
      <4> QED
        BY <4>2, <4>3, <4>4
    <3>2. {u \in TasksOf(c) : IsOpen(Becomes(s, u)')} = {u \in TasksOf(c) : u \in rows /\ IsOpen(taskTip'[u])}
      BY <3>1
    <3>3. Sits(caseTip'[c], {u \in TasksOf(c) : IsOpen(Becomes(s, u)')})
      BY <1>8, <3>2
    <3> QED
      BY <1>8, <2>1, <2>2, <2>8, <3>3 DEF CommitIsSound
  <2>14. EndingIsSound(s)'
    BY <1>3, <2>1, <2>2 DEF EndingIsSound, t
  <2>15. CancelIsSound(s)'
    BY <2>1 DEF CancelIsSound
  <2>16. k.op \in Operations(k.pc) /\ call[s].op \in CaseOps /\ k.pc # "lock_template"
    BY <1>2, <2>1 DEF Operations, AllOps, CaseOps
  <2>17. /\ Take(s, rows) /\ UNCHANGED <<templateTip, stepTip>>
         /\ caseTip' \in [Cases -> CaseStatus] /\ taskTip' \in [Tasks -> TaskRow]
    BY <1>8
  <2> QED
    BY <1>2, <2>1, <2>4, <2>5, <2>9, <2>12, <2>13, <2>14, <2>15, <2>16, <2>17, CaseWritesKeep, ZenonT(60)
<1>9. CASE ~(finished \notin Live(step) \/ (after # {} /\ template.deleted))
  <2>1. /\ finished \in Live(step)
        /\ after # {} => ~template.deleted
        /\ Goto(s, "commit") /\ UNCHANGED <<templateTip, stepTip>>
    BY <1>9 DEF MoveOn
  <2>2. /\ \A row \in TemplateLock : CanLock(s, row) /\ row \in {Template} \cup RowsOf(c)
        /\ ~template.deleted => TemplateLock = {Template}
        /\ TemplateLock \subseteq Rows /\ \A u \in Tasks : u \notin TemplateLock
    BY <1>2, RowsAreApart DEF TemplateLock
  <2>3. caseTip \in [Cases -> CaseStatus] /\ taskTip \in [Tasks -> TaskRow]
    BY <1>1 DEF TypeOK
  <2>4. ASSUME NEW new \in NextTask(c), after # {},
               taskTip' = [taskTip EXCEPT ![new] = NewTask(First(after))],
               Take(s, TemplateLock \cup {new}), UNCHANGED caseTip
        PROVE  WorkflowInvariant'
    <3>1. new \in TasksOf(c) /\ new \in Tasks /\ taskTip[new].status = "absent"
      BY <1>3, <2>4, RowsAreApart DEF NextTask
    <3>2. lock[new] = Free /\ new # t
      BY <1>4, <3>1, AbsentIsUnlocked
    <3>3. PICK first \in Live(step) : first = First(after)
      <4>1. PICK st \in Live(step) : st = finished
        BY <2>1
      <4>2. st \in Steps /\ StepsAfter(st) # {}
        BY <2>4, <4>1, LiveIsFinite
      <4>3. First(StepsAfter(st)) \in StepsAfter(st)
        BY <4>1, <4>2, FirstIsThere
      <4>4. after = StepsAfter(st)
        BY <4>1
      <4> QED
        BY <4>3, <4>4 DEF StepsAfter
    <3> HIDE DEF c, t, finished, after
    <3>4. NewTask(first) \in TaskRow /\ NewTask(first).status = "open" /\ NewTask(first).step = first
      BY <3>3, LiveIsFinite DEF NewTask, TaskRow
    <3>5. /\ taskTip' \in [Tasks -> TaskRow] /\ taskTip'[new] = NewTask(first)
          /\ \A u \in Tasks : u # new => taskTip'[u] = taskTip[u]
      BY <2>3, <2>4, <3>1, <3>3, <3>4
    <3> DEFINE rows == TemplateLock \cup {new}
    <3>6. rows \in SUBSET Rows /\ Template \in rows /\ \A u \in Tasks : u \in rows <=> u = new
      <4>1. TemplateLock = {Template}
        BY <2>1, <2>2, <2>4
      <4>2. rows = {Template, new} /\ new \in Rows /\ Template \in Rows /\ Template \notin Tasks
        BY <3>1, <4>1, RowsAreApart
      <4> QED
        BY <4>2
    <3>7. \A row \in rows : CanLock(s, row) /\ row \in {Template} \cup RowsOf(c)
      BY <2>2, <3>1, <3>2 DEF CanLock, RowsOf
    <3>8. Take(s, rows)
      BY <2>4
    <3> HIDE DEF rows
    <3>9. \A u \in Tasks : u \notin rows => taskTip'[u] = taskTip[u]
      BY <3>5, <3>6
    <3>10. \A u \in Tasks : u \in rows =>
             /\ u # t /\ taskTip'[u].status # "absent"
             /\ IsOpen(taskTip'[u]) => Template \in rows /\ taskTip'[u].step \in Live(step)
      BY <3>2, <3>3, <3>4, <3>5, <3>6
    <3>11. caseTip' = caseTip /\ caseTip'[c] = "in_progress"
      BY <1>4, <2>4
    <3>12. {u \in TasksOf(c) : u \in rows /\ IsOpen(taskTip'[u])} = {new}
      BY <1>3, <3>1, <3>4, <3>5, <3>6, RowsAreApart DEF IsOpen
    <3>13. Sits(caseTip'[c], {u \in TasksOf(c) : u \in rows /\ IsOpen(taskTip'[u])})
      BY <3>11, <3>12 DEF Sits
    <3>14. /\ caseTip' \in [Cases -> CaseStatus] /\ caseTip'[c] # "absent"
           /\ \A d \in Cases : d # c => caseTip'[d] = caseTip[d]
      BY <2>3, <3>11
    <3> QED
      BY <1>8, <2>1, <3>5, <3>6, <3>7, <3>8, <3>9, <3>10, <3>13, <3>14, ZenonT(60)
  <2>5. ASSUME after = {}, caseTip' = [caseTip EXCEPT ![c] = "completed"], Take(s, TemplateLock), UNCHANGED taskTip
        PROVE  WorkflowInvariant'
    <3> HIDE DEF c, t, finished, after
    <3>1. /\ caseTip' \in [Cases -> CaseStatus] /\ caseTip'[c] = "completed"
          /\ \A d \in Cases : d # c => caseTip'[d] = caseTip[d]
      BY <1>3, <2>3, <2>5 DEF CaseStatus
    <3>2. {u \in TasksOf(c) : u \in TemplateLock /\ IsOpen(taskTip'[u])} = {}
      BY <1>3, <2>2, RowsAreApart
    <3>3. Sits(caseTip'[c], {u \in TasksOf(c) : u \in TemplateLock /\ IsOpen(taskTip'[u])})
      BY <3>1, <3>2 DEF Sits
    <3>4. /\ taskTip' \in [Tasks -> TaskRow] /\ caseTip'[c] # "absent"
          /\ \A u \in Tasks : u \notin TemplateLock => taskTip'[u] = taskTip[u]
          /\ \A u \in Tasks : u \in TemplateLock =>
               /\ u # t /\ taskTip'[u].status # "absent"
               /\ IsOpen(taskTip'[u]) => Template \in TemplateLock /\ taskTip'[u].step \in Live(step)
      BY <2>2, <2>3, <2>5, <3>1
    <3>5. TemplateLock \in SUBSET Rows
      BY <2>2
    <3> QED
      BY <1>8, <2>1, <2>2, <2>5, <3>1, <3>3, <3>4, <3>5, ZenonT(60)
  <2> QED
    BY <1>9, <2>4, <2>5 DEF MoveOn
<1> QED
  BY <1>7, <1>9


(***************************************************************************)
(* The specification                                                       *)
(***************************************************************************)
\* A template as it is built, and no case yet.
LEMMA InitIsSound ==
  ASSUME Init
  PROVE  WorkflowInvariant
<1>1. PICK n \in Nat : n = Cardinality(DOMAIN FirstSteps)
  BY WorkflowAssumption, FS_Subset, FS_CardinalityType
<1>2. /\ \A st \in DOMAIN FirstSteps : st \in Steps /\ FirstSteps[st] \in 1 .. n
      /\ \A m \in 1 .. n : \E st \in DOMAIN FirstSteps : FirstSteps[st] = m
      /\ \A st, u \in DOMAIN FirstSteps : FirstSteps[st] = FirstSteps[u] => st = u
  BY <1>1, WorkflowAssumption DEF Range, IsInjective
<1>3. ASSUME NEW st \in Steps
      PROVE  /\ st \in DOMAIN FirstSteps => step[st] = [state |-> "live", order |-> FirstSteps[st]]
             /\ st \notin DOMAIN FirstSteps => step[st] = [state |-> "absent", order |-> 0]
  BY DEF Init
<1>4. ASSUME NEW st \in Steps
      PROVE  /\ st \in DOMAIN FirstSteps => step[st].state = "live" /\ step[st].order = FirstSteps[st]
             /\ st \notin DOMAIN FirstSteps => step[st].state = "absent"
  <2>1. CASE st \in DOMAIN FirstSteps
    <3>1. step[st] = [state |-> "live", order |-> FirstSteps[st]]
      BY <1>3, <2>1
    <3> QED
      BY <2>1, <3>1
  <2>2. CASE st \notin DOMAIN FirstSteps
    <3>1. step[st] = [state |-> "absent", order |-> 0]
      BY <1>3, <2>2
    <3> QED
      BY <2>2, <3>1
  <2> QED
    BY <2>1, <2>2
<1>5. Live(step) = DOMAIN FirstSteps
  BY <1>2, <1>4 DEF Live
<1>6. /\ \A st \in Live(step) : step[st].order \in 1 .. n
      /\ \A m \in 1 .. n : \E st \in Live(step) : step[st].order = m
      /\ \A st, u \in Live(step) : step[st].order = step[u].order => st = u
  BY <1>2, <1>4, <1>5
<1>7. Numbered(step)
  BY <1>1, <1>5, <1>6, NumberedIsOneToN
<1>8. TypeOK
  <2>1. step \in [Steps -> StepRow]
    <3>1. ASSUME NEW st \in Steps PROVE step[st] \in StepRow
      <4>1. st \in DOMAIN FirstSteps => [state |-> "live", order |-> FirstSteps[st]] \in StepRow
        BY <1>2 DEF StepRow
      <4>2. [state |-> "absent", order |-> 0] \in StepRow
        BY DEF StepRow
      <4> QED
        BY <1>3, <4>1, <4>2
    <3>2. step = [st \in Steps |-> step[st]]
      BY DEF Init
    <3> QED
      BY <3>1, <3>2
  <2>2. stepTip = step /\ caseTip = case /\ taskTip = task /\ templateTip = template
    BY DEF Init
  <2>3. template \in TemplateRow
    BY DEF Init, TemplateRow
  <2>4. case \in [Cases -> CaseStatus] /\ task \in [Tasks -> TaskRow]
    BY DEF Init, CaseStatus, TaskRow, NoTask
  <2>5. lock \in [Rows -> Sessions \cup {Free}]
    BY DEF Init
  <2>6. call \in [Sessions -> Call]
    BY DEF Init, Idle, Call
  <2> QED
    BY <2>1, <2>2, <2>3, <2>4, <2>5, <2>6 DEF TypeOK
<1>9. TablesAreSound
  <2>1. \A t \in Tasks : task[t].status = "absent" /\ ~IsOpen(task[t])
    BY DEF Init, NoTask, IsOpen
  <2>2. \A c \in Cases : case[c] = "absent" /\ OpenTasks(c) = {}
    BY <2>1, RowsAreApart DEF Init, OpenTasks
  <2>3. \A c \in Cases : Sits(case[c], OpenTasks(c))
    BY <2>2 DEF Sits
  <2>4. UnlockedIsCommitted /\ Numbered(stepTip)
    BY <1>7 DEF Init, UnlockedIsCommitted
  <2>5. HeldTasksAreSound
    BY RowsAreApart DEF Init, HeldTasksAreSound
  <2> QED
    BY <1>7, <2>1, <2>3, <2>4, <2>5, RowsAreApart DEF TablesAreSound
<1>10. ASSUME NEW s \in Sessions PROVE CallIsSound(s)
  <2>1. call[s].op = "none" /\ call[s].pc = "idle"
    BY DEF Init, Idle
  <2>2. \A row \in Rows : lock[row] # s
    BY WorkflowAssumption DEF Init
  <2> QED
    BY <2>1, <2>2, RowsAreApart
    DEF CallIsSound, Operations, TemplateIsSound, FreshIsFresh, EndingIsSound, CancelIsSound, CommitIsSound, CaseOps
<1> QED
  BY <1>8, <1>9, <1>10 DEF WorkflowInvariant, CallsAreSound

\* Every step keeps the invariant.
LEMMA NextKeeps ==
  ASSUME WorkflowInvariant, [Next]_vars
  PROVE  WorkflowInvariant'
<1>1. CASE UNCHANGED vars
  <2>1. /\ UNCHANGED committed /\ lock' = lock /\ call' = call
        /\ template' = template /\ step' = step /\ case' = case /\ task' = task
        /\ templateTip' = templateTip /\ stepTip' = stepTip /\ caseTip' = caseTip /\ taskTip' = taskTip
    BY <1>1 DEF vars, tables, committed, tips
  <2>2. TypeOK'
    BY <2>1 DEF WorkflowInvariant, TypeOK
  <2>3. TablesAreSound'
    BY <2>1 DEF WorkflowInvariant, TablesAreSound, UnlockedIsCommitted, HeldTasksAreSound, OpenTasks
  <2>4. ASSUME NEW r \in Sessions PROVE CallIsSound(r)'
    <3>1. FreshIsFresh(r)
      BY DEF WorkflowInvariant, CallsAreSound, CallIsSound
    <3>2. FreshIsFresh(r)'
      BY <2>1, <3>1 DEF FreshIsFresh
    <3> QED
      BY <2>1, <3>2, OthersStaySound
  <2> QED
    BY <2>2, <2>3, <2>4 DEF WorkflowInvariant, CallsAreSound
<1>2. ASSUME NEW s \in Sessions, Request(s) \/ Statement(s) \/ Commit(s) \/ Rollback(s)
      PROVE  WorkflowInvariant'
  <2>1. CASE Request(s)
    BY <2>1, RequestsKeep
  <2>2. CASE CreateInstance(s)
    BY <2>2, CreateInstanceKeeps
  <2>3. CASE EndTask(s)
    BY <2>3, EndTaskKeeps
  <2>4. CASE LockCase(s)
    BY <2>4, LockCaseKeeps
  <2>5. CASE MoveOn(s)
    BY <2>5, MoveOnKeeps
  <2>6. CASE CancelInstance(s)
    BY <2>6, CancelInstanceKeeps
  <2>7. CASE ListTasks(s)
    BY <2>7, ListTasksKeeps
  <2>8. CASE CancelOpenTasks(s)
    BY <2>8, CancelOpenTasksKeeps
  <2>9. CASE AddStep(s)
    BY <2>9, AddStepKeeps
  <2>10. CASE ReorderSteps(s)
    BY <2>10, ReorderStepsKeeps
  <2>11. CASE DeleteStep(s)
    BY <2>11, DeleteStepKeeps
  <2>12. CASE WriteTemplate(s)
    BY <2>12, WriteTemplateKeeps
  <2>13. CASE Commit(s)
    BY <2>13, CommitKeeps
  <2>14. CASE Rollback(s)
    BY <2>14, RollbackKeeps DEF Rollback
  <2> QED
    BY <1>2, <2>1, <2>2, <2>3, <2>4, <2>5, <2>6, <2>7, <2>8, <2>9, <2>10, <2>11, <2>12, <2>13, <2>14 DEF Statement
<1> QED
  BY <1>1, <1>2 DEF Next

\* The invariant holds of every reachable state.
THEOREM InvariantHolds == Spec => []WorkflowInvariant
BY InitIsSound, NextKeeps, PTL DEF Spec

\* Every table, lock and transaction of the cases keeps its type (the workflow tables
\* and the transactions of TemplateService, StepService and InstanceService).
THEOREM WorkflowTypes == Spec => []TypeOK
<1>1. WorkflowInvariant => TypeOK
  BY DEF WorkflowInvariant
<1> QED
  BY <1>1, InvariantHolds, PTL

\* The live steps of a template are always numbered 1..n, however adds, deletes and
\* reorders of any number of transactions interleave (add_step, delete_step and
\* reorder_steps lock the template's row).
THEOREM StepsStayNumbered == Spec => []StepsAreNumbered
<1>1. WorkflowInvariant => StepsAreNumbered
  BY DEF WorkflowInvariant, TablesAreSound, Numbered, StepsAreNumbered
<1> QED
  BY <1>1, InvariantHolds, PTL

\* A running case always waits on exactly one task, a case that is over on none, however
\* many transactions complete, cancel and move on (move_on_after_task, cancel_instance).
THEOREM RunningCasesHaveOneTask == Spec => []OneTaskWhileRunning
<1>1. ASSUME WorkflowInvariant, NEW c \in Cases
      PROVE  Cardinality(OpenTasks(c)) = IF Running(c) THEN 1 ELSE 0
  <2>1. Sits(case[c], OpenTasks(c))
    BY <1>1 DEF WorkflowInvariant, TablesAreSound
  <2>2. CASE Running(c)
    <3>1. PICK t : OpenTasks(c) = {t}
      BY <2>1, <2>2 DEF Running, Sits
    <3> QED
      BY <2>2, <3>1, FS_Singleton
  <2>3. CASE ~Running(c)
    BY <2>1, <2>3, FS_EmptySet DEF Running, Sits
  <2> QED
    BY <2>2, <2>3
<1>2. WorkflowInvariant => OneTaskWhileRunning
  BY <1>1 DEF OneTaskWhileRunning
<1> QED
  BY <1>2, InvariantHolds, PTL

\* The step of an open task is never taken out of the template (delete_step refuses a
\* step with an open task, and excludes move_on_after_task by the template's lock).
THEOREM OpenTasksKeepTheirSteps == Spec => []OpenTaskKeepsItsStep
<1>1. WorkflowInvariant => OpenTaskKeepsItsStep
  BY DEF WorkflowInvariant, TablesAreSound, OpenTaskKeepsItsStep
<1> QED
  BY <1>1, InvariantHolds, PTL

-----------------------------------------------------------------------------
(***************************************************************************)
(* The deadline of a step (add_business_hours), for any start, turnaround  *)
(* and opening hours: DeadlineCountsWorkingHours.                          *)
(*                                                                         *)
(* Each turn of the loop keeps the sum of the hours worked so far and of   *)
(* those that remain; it comes to an hour that is worked, so that the last *)
(* turn ends on an hour of which each before it is worked.                 *)
(***************************************************************************)
\* An hour that is worked.
Worked(h) == (h \div 24) % 7 < 5 /\ h % 24 >= WorkdayStartHour /\ h % 24 < WorkdayEndHour

\* The calculation: what is left is what has not been worked yet, the hour it has come to is
\* a working one, and once it has ended the property holds.
DeadlinesInvariant ==
  /\ sum = [start |-> sum.start, hours |-> sum.hours, current |-> sum.current,
            remaining |-> sum.remaining, result |-> sum.result]
  /\ sum.start \in Nat /\ sum.hours \in Nat /\ sum.current \in Nat /\ sum.remaining \in Nat
  /\ sum.result \in Nat \cup {NoResult}
  /\ sum.start <= sum.current /\ Worked(sum.current)
  /\ WorkingHours(sum.start, sum.current) + sum.remaining = sum.hours
  /\ sum.hours > 0 => sum.remaining > 0
  /\ DeadlineCountsWorkingHours

\* A moment is a day and an hour of it.
LEMMA Days ==
  ASSUME NEW m \in Nat
  PROVE  /\ m \div 24 \in Nat /\ m % 24 \in 0 .. 23 /\ m = 24 * (m \div 24) + (m % 24)
         /\ \A d \in Nat, h \in 0 .. 23 : m = 24 * d + h => m \div 24 = d /\ m % 24 = h
<1>1. m \div 24 \in Int /\ m % 24 \in 0 .. 23 /\ m = 24 * (m \div 24) + (m % 24)
  OBVIOUS
<1>2. m \div 24 \in Nat
  BY <1>1
<1>3. \A d \in Nat, h \in 0 .. 23 : m = 24 * d + h => m \div 24 = d /\ m % 24 = h
  BY <1>1
<1> QED BY <1>1, <1>2, <1>3

\* The working hours are so many worked hours.
LEMMA WorkingCount ==
  ASSUME NEW a \in Nat, NEW b \in Nat
  PROVE  /\ WorkingHours(a, b) = Cardinality({h \in a .. b - 1 : Worked(h)})
         /\ IsFiniteSet({h \in a .. b - 1 : Worked(h)})
         /\ WorkingHours(a, b) \in Nat
<1> DEFINE S == {h \in a .. b - 1 : Worked(h)}
<1>1. WorkingHours(a, b) = Cardinality(S)
  BY DEF WorkingHours, Worked
<1>2. IsFiniteSet(a .. b - 1)
  BY FS_Interval
<1>3. S \subseteq a .. b - 1
  OBVIOUS
<1> HIDE DEF S
<1>4. IsFiniteSet(S) /\ Cardinality(S) \in Nat
  BY <1>2, <1>3, FS_Subset, FS_CardinalityType
<1> QED BY <1>1, <1>4 DEF S

\* The working hours before a moment and those from then on.
LEMMA WorkingAdds ==
  ASSUME NEW a \in Nat, NEW b \in Nat, NEW c \in Nat, a <= b, b <= c
  PROVE  WorkingHours(a, c) = WorkingHours(a, b) + WorkingHours(b, c)
<1> DEFINE S == {h \in a .. b - 1 : Worked(h)}
           T == {h \in b .. c - 1 : Worked(h)}
<1>1. S \cap T = {} /\ S \cup T = {h \in a .. c - 1 : Worked(h)}
  OBVIOUS
<1>2. /\ WorkingHours(a, b) = Cardinality(S) /\ IsFiniteSet(S) /\ Cardinality(S) \in Nat
      /\ WorkingHours(b, c) = Cardinality(T) /\ IsFiniteSet(T) /\ Cardinality(T) \in Nat
      /\ WorkingHours(a, c) = Cardinality(S \cup T)
  BY <1>1, WorkingCount
<1> HIDE DEF S, T
<1>3. Cardinality(S \cup T) = Cardinality(S) + Cardinality(T) - Cardinality(S \cap T)
  BY <1>2, FS_Union
<1> QED BY <1>1, <1>2, <1>3, FS_EmptySet

\* Hours of which all are worked, and hours of which none is.
LEMMA AllWorked ==
  ASSUME NEW a \in Nat, NEW b \in Nat, a <= b, \A h \in a .. b - 1 : Worked(h)
  PROVE  WorkingHours(a, b) = b - a
<1>1. {h \in a .. b - 1 : Worked(h)} = a .. b - 1
  OBVIOUS
<1>2. Cardinality(a .. b - 1) = b - a
  <2>1. b - 1 \in Int /\ a \in Int
    OBVIOUS
  <2>2. Cardinality(a .. b - 1) = IF a > b - 1 THEN 0 ELSE (b - 1) - a + 1
    BY <2>1, FS_Interval
  <2> QED BY <2>2
<1> QED BY <1>1, <1>2, WorkingCount

LEMMA NoneWorked ==
  ASSUME NEW a \in Nat, NEW b \in Nat, \A h \in a .. b - 1 : ~Worked(h)
  PROVE  WorkingHours(a, b) = 0
<1>1. {h \in a .. b - 1 : Worked(h)} = {}
  OBVIOUS
<1> QED BY <1>1, WorkingCount, FS_EmptySet

\* A weekday follows within three days: the inner loop finds the first.
LEMMA Opening ==
  ASSUME NEW m \in Nat, ~IsBeforeWork(m), ~IsAtWork(m)
  PROVE  \E n \in 1 .. 3 :
           /\ NextOpening(m) = 24 * (m \div 24 + n) + WorkdayStartHour
           /\ (m \div 24 + n) % 7 < 5
           /\ \A k \in 1 .. n - 1 : ~((m \div 24 + k) % 7 < 5)
<1> DEFINE d == m \div 24
           OpeningIn(n) == AtHour(m, WorkdayStartHour) + 24 * n
           openings == {OpeningIn(n) : n \in 1 .. 3}
           Opens(o) == IsWeekday(o) /\ \A e \in openings : IsWeekday(e) => o <= e
<1>1. WorkdayStartHour \in 0 .. 23
  BY DeadlinesAssumption
<1>2. d \in Nat /\ m % 24 \in 0 .. 23 /\ m = 24 * d + (m % 24)
  BY Days
<1>3. \A n \in 1 .. 3 : OpeningIn(n) = 24 * (d + n) + WorkdayStartHour /\ OpeningIn(n) \in Nat
  BY <1>1, <1>2 DEF AtHour, HourOf
<1>4. \A n \in 1 .. 3 : IsWeekday(OpeningIn(n)) <=> (d + n) % 7 < 5
  <2> SUFFICES ASSUME NEW n \in 1 .. 3 PROVE IsWeekday(OpeningIn(n)) <=> (d + n) % 7 < 5
    OBVIOUS
  <2>1. d + n \in Nat /\ OpeningIn(n) = 24 * (d + n) + WorkdayStartHour /\ OpeningIn(n) \in Nat
    BY <1>2, <1>3
  <2> HIDE DEF d, OpeningIn
  <2>2. OpeningIn(n) \div 24 = d + n
    BY <1>1, <2>1, Days
  <2> QED BY <2>2 DEF IsWeekday
<1> HIDE DEF d, OpeningIn
<1>5. PICK n \in 1 .. 3 : (d + n) % 7 < 5 /\ \A k \in 1 .. n - 1 : ~((d + k) % 7 < 5)
  <2>1. \E k \in 1 .. 3 : (d + k) % 7 < 5
    BY <1>2
  <2>2. CASE (d + 1) % 7 < 5
    BY <2>2
  <2>3. CASE ~((d + 1) % 7 < 5) /\ (d + 2) % 7 < 5
    BY <2>3
  <2>4. CASE ~((d + 1) % 7 < 5) /\ ~((d + 2) % 7 < 5)
    BY <2>1, <2>4
  <2> QED BY <2>2, <2>3, <2>4
<1>6. Opens(OpeningIn(n)) /\ OpeningIn(n) \in openings
  <2>1. \A k \in 1 .. 3 : (d + k) % 7 < 5 => n <= k
    BY <1>5
  <2>2. \A k \in 1 .. 3 : n <= k => OpeningIn(n) <= OpeningIn(k)
    BY <1>1, <1>2, <1>3
  <2> QED BY <1>4, <1>5, <2>1, <2>2
<1>7. \A o \in openings : Opens(o) => o = OpeningIn(n)
  BY <1>3, <1>6
<1>8. NextOpening(m) = CHOOSE o \in openings : Opens(o)
  BY DEF NextOpening, OpeningIn
<1>9. NextOpening(m) = OpeningIn(n)
  <2> HIDE DEF Opens, openings
  <2> QED BY <1>6, <1>7, <1>8
<1> QED BY <1>3, <1>5, <1>9 DEF d

\* The moment the loop moves to is worked, and none of the hours that are passed over.
LEMMA NextMoment ==
  ASSUME NEW m \in Nat
  PROVE  /\ NextWorkingMoment(m) \in Nat /\ m <= NextWorkingMoment(m) /\ Worked(NextWorkingMoment(m))
         /\ \A h \in m .. NextWorkingMoment(m) - 1 : ~Worked(h)
<1>1. /\ WorkdayStartHour \in 0 .. 23 /\ WorkdayEndHour \in 1 .. 24 /\ WorkdayStartHour < WorkdayEndHour
  BY DeadlinesAssumption
<1>2. m \div 24 \in Nat /\ m % 24 \in 0 .. 23 /\ m = 24 * (m \div 24) + (m % 24)
  BY Days
<1>3. CASE IsBeforeWork(m)
  <2> DEFINE n == 24 * (m \div 24) + WorkdayStartHour
  <2>1. NextWorkingMoment(m) = n
    BY <1>1, <1>2, <1>3 DEF NextWorkingMoment, AtHour, HourOf
  <2>2. m \div 24 = n \div 24 /\ n % 24 = WorkdayStartHour /\ m < n /\ n \in Nat
    BY <1>1, <1>2, <1>3 DEF IsBeforeWork, HourOf
  <2>3. (m \div 24) % 7 < 5
    BY <1>3 DEF IsBeforeWork, IsWeekday
  <2>4. \A h \in m .. n - 1 : h % 24 < WorkdayStartHour
    BY <1>1, <1>2
  <2> HIDE DEF n
  <2> QED BY <1>1, <2>1, <2>2, <2>3, <2>4 DEF Worked
<1>4. CASE IsAtWork(m)
  <2>1. NextWorkingMoment(m) = m
    <3>1. HourOf(m) \in 0 .. 23
      BY <1>2 DEF HourOf
    <3>2. ~IsBeforeWork(m)
      BY <1>1, <1>4, <3>1 DEF IsAtWork, IsBeforeWork
    <3> QED BY <1>4, <3>2 DEF NextWorkingMoment
  <2>2. Worked(m)
    BY <1>4 DEF IsAtWork, IsWeekday, HourOf, Worked
  <2> QED BY <2>1, <2>2
<1>5. CASE ~IsBeforeWork(m) /\ ~IsAtWork(m)
  <2> DEFINE d == m \div 24
  <2>1. PICK k \in 1 .. 3 :
          /\ NextOpening(m) = 24 * (d + k) + WorkdayStartHour
          /\ (d + k) % 7 < 5
          /\ \A i \in 1 .. k - 1 : ~((d + i) % 7 < 5)
    BY <1>5, Opening
  <2>2. NextWorkingMoment(m) = NextOpening(m)
    BY <1>5 DEF NextWorkingMoment
  <2> DEFINE n == 24 * (d + k) + WorkdayStartHour
  <2>3. d \in Nat /\ n \in Nat /\ m <= n
    BY <1>1, <1>2
  <2>4. n \div 24 = d + k /\ n % 24 = WorkdayStartHour
    BY <1>1, <2>3
  <2>5. d % 7 < 5 => m % 24 >= WorkdayEndHour
    BY <1>1, <1>2, <1>5 DEF IsBeforeWork, IsAtWork, IsWeekday, HourOf
  <2>6. ASSUME NEW h \in m .. n - 1 PROVE ~Worked(h)
    <3>1. h \in Nat /\ h \div 24 \in Nat /\ h % 24 \in 0 .. 23 /\ h = 24 * (h \div 24) + (h % 24)
      BY <1>2, <2>3, Days
    <3> DEFINE e == h \div 24
               t == h % 24
    <3> HIDE DEF e, t
    <3>2. e \in Nat /\ t \in 0 .. 23 /\ h = 24 * e + t /\ m <= h /\ h < n
      BY <2>3, <3>1 DEF e, t
    <3>3. d <= e /\ e <= d + k
      BY <1>1, <1>2, <2>3, <3>2
    <3>4. CASE e = d
      <4>1. t >= m % 24
        BY <1>2, <3>2, <3>4
      <4> QED BY <1>1, <1>2, <2>5, <3>2, <3>4, <4>1 DEF Worked, e, t
    <3>5. CASE e = d + k
      <4>1. t < WorkdayStartHour
        BY <1>1, <2>3, <3>2, <3>5
      <4> QED BY <1>1, <3>2, <4>1 DEF Worked, t
    <3>6. CASE e # d /\ e # d + k
      <4>1. e - d \in 1 .. k - 1 /\ d + (e - d) = e
        BY <2>3, <3>2, <3>3, <3>6
      <4>2. ~(e % 7 < 5)
        BY <2>1, <4>1
      <4> QED BY <4>2 DEF Worked, e
    <3> QED BY <3>4, <3>5, <3>6
  <2>7. Worked(n)
    BY <1>1, <2>1, <2>4 DEF Worked
  <2> QED BY <2>1, <2>2, <2>3, <2>6, <2>7
<1> QED BY <1>3, <1>4, <1>5

\* From a working hour to the closing hour all is worked.
LEMMA Closing ==
  ASSUME NEW m \in Nat, Worked(m)
  PROVE  /\ AtHour(m, WorkdayEndHour) \in Nat /\ m < AtHour(m, WorkdayEndHour)
         /\ \A h \in m .. AtHour(m, WorkdayEndHour) - 1 : Worked(h)
<1> DEFINE c == AtHour(m, WorkdayEndHour)
           d == m \div 24
<1>1. /\ WorkdayStartHour \in 0 .. 23 /\ WorkdayEndHour \in 1 .. 24 /\ WorkdayStartHour < WorkdayEndHour
  BY DeadlinesAssumption
<1>2. d \in Nat /\ m % 24 \in 0 .. 23 /\ m = 24 * d + (m % 24)
  BY Days
<1>3. d % 7 < 5 /\ m % 24 >= WorkdayStartHour /\ m % 24 < WorkdayEndHour
  BY DEF Worked
<1>4. c = 24 * d + WorkdayEndHour
  BY <1>1, <1>2 DEF AtHour, HourOf
<1> HIDE DEF c, d
<1>5. c \in Nat /\ m < c
  BY <1>1, <1>2, <1>3, <1>4
<1>6. ASSUME NEW h \in m .. c - 1 PROVE Worked(h)
  <2>1. h \in Nat /\ h - 24 * d \in 0 .. 23 /\ h = 24 * d + (h - 24 * d)
        /\ h - 24 * d >= m % 24 /\ h - 24 * d < WorkdayEndHour
    BY <1>1, <1>2, <1>3, <1>4, <1>5
  <2>2. PICK t \in 0 .. 23 : h = 24 * d + t /\ t >= m % 24 /\ t < WorkdayEndHour
    BY <2>1
  <2>3. h \div 24 = d /\ h % 24 = t
    BY <1>2, <2>1, <2>2, Days
  <2> QED BY <1>1, <1>2, <1>3, <2>2, <2>3 DEF Worked
<1> QED BY <1>5, <1>6 DEF c

\* The evening or the weekend a step starts in does not count.
LEMMA DeadlinesStart == DeadlinesInit => DeadlinesInvariant
<1> SUFFICES ASSUME NEW start \in Starts, NEW hours \in Turnarounds,
                    sum = [start |-> start, hours |-> hours, current |-> NextWorkingMoment(start),
                           remaining |-> hours, result |-> NoResult]
             PROVE  DeadlinesInvariant
  BY DEF DeadlinesInit
<1> DEFINE c == NextWorkingMoment(start)
<1>1. start \in Nat /\ hours \in Nat
  BY DeadlinesAssumption
<1>2. c \in Nat /\ start <= c /\ Worked(c) /\ \A h \in start .. c - 1 : ~Worked(h)
  BY <1>1, NextMoment
<1> HIDE DEF c
<1>3. WorkingHours(start, c) = 0
  BY <1>1, <1>2, NoneWorked
<1>4. sum = [start |-> start, hours |-> hours, current |-> c, remaining |-> hours, result |-> NoResult]
  BY DEF c
<1> QED BY <1>1, <1>2, <1>3, <1>4 DEF DeadlinesInvariant, DeadlineCountsWorkingHours

\* What is worked of a day is taken off what remains.
LEMMA DeadlinesStep == DeadlinesInvariant /\ [DeadlinesNext]_sum => DeadlinesInvariant'
<1> SUFFICES ASSUME DeadlinesInvariant, [DeadlinesNext]_sum PROVE DeadlinesInvariant'
  OBVIOUS
<1> DEFINE s == sum.start
           n == sum.hours
           c == sum.current
           left == sum.remaining
           close == AtHour(c, WorkdayEndHour)
<1>1. /\ s \in Nat /\ n \in Nat /\ c \in Nat /\ left \in Nat /\ s <= c /\ Worked(c)
      /\ WorkingHours(s, c) + left = n
      /\ n > 0 => left > 0
      /\ sum = [start |-> s, hours |-> n, current |-> c, remaining |-> left, result |-> sum.result]
  BY DEF DeadlinesInvariant
<1>2. close \in Nat /\ c < close /\ \A h \in c .. close - 1 : Worked(h)
  BY <1>1, Closing
<1>3. LeftToday = close - c
  BY DEF LeftToday
<1>4. WorkingHours(s, c) \in Nat
  BY <1>1, WorkingCount
<1>5. CASE EndsToday
  <2> DEFINE end == c + left
  <2>1. left <= close - c /\ sum' = [sum EXCEPT !.result = end]
    BY <1>3, <1>5 DEF EndsToday
  <2>2. sum' = [start |-> s, hours |-> n, current |-> c, remaining |-> left, result |-> end]
    BY <1>1, <2>1
  <2>3. end \in Nat /\ c <= end /\ end <= close
    BY <1>1, <1>2, <2>1
  <2> HIDE DEF close, s, n, c, left, end
  <2>4. \A e \in c .. end : WorkingHours(s, e) = n - left + (e - c)
    <3> SUFFICES ASSUME NEW e \in c .. end PROVE WorkingHours(s, e) = n - left + (e - c)
      OBVIOUS
    <3>1. e \in Nat /\ c <= e /\ e <= close
      BY <1>1, <1>2, <2>3
    <3>2. \A h \in c .. e - 1 : Worked(h)
      BY <1>1, <1>2, <3>1
    <3>3. WorkingHours(c, e) = e - c
      BY <1>1, <3>1, <3>2, AllWorked
    <3>4. WorkingHours(s, e) = WorkingHours(s, c) + WorkingHours(c, e)
      BY <1>1, <3>1, WorkingAdds
    <3> QED BY <1>1, <1>4, <3>1, <3>3, <3>4
  <2>5. n > 0 => WorkingHours(s, end) = n /\ WorkingHours(s, end - 1) = n - 1
    <3> SUFFICES ASSUME n > 0 PROVE WorkingHours(s, end) = n /\ WorkingHours(s, end - 1) = n - 1
      OBVIOUS
    <3>1. end = c + left /\ end - 1 \in c .. end /\ end \in c .. end
      BY <1>1, <2>3 DEF end
    <3>2. WorkingHours(s, end) = n - left + (end - c) /\ WorkingHours(s, end - 1) = n - left + (end - 1 - c)
      BY <2>4, <3>1
    <3> QED BY <1>1, <3>1, <3>2
  <2>6. /\ sum'.start = s /\ sum'.hours = n /\ sum'.current = c /\ sum'.remaining = left
        /\ sum'.result = end
    BY <2>2
  <2>7. DeadlineCountsWorkingHours'
    BY <1>1, <2>5, <2>6 DEF DeadlineCountsWorkingHours
  <2> QED BY <1>1, <2>2, <2>3, <2>6, <2>7 DEF DeadlinesInvariant
<1>6. CASE GoesOnAnotherDay
  <2> DEFINE m == NextWorkingMoment(close)
             later == left - (close - c)
  <2>1. left > close - c /\ sum.result = NoResult
        /\ sum' = [sum EXCEPT !.remaining = later, !.current = m]
    BY <1>3, <1>6 DEF GoesOnAnotherDay
  <2>2. sum' = [start |-> s, hours |-> n, current |-> m, remaining |-> later, result |-> NoResult]
    BY <1>1, <2>1
  <2>3. m \in Nat /\ close <= m /\ Worked(m) /\ \A h \in close .. m - 1 : ~Worked(h)
    BY <1>2, NextMoment
  <2>4. later \in Nat /\ later > 0
    BY <1>1, <1>2, <2>1
  <2>5. WorkingHours(s, m) + later = n
    <3> HIDE DEF close, s, n, c, left, m
    <3>1. WorkingHours(c, close) = close - c
      BY <1>1, <1>2, AllWorked
    <3>2. WorkingHours(close, m) = 0
      BY <1>2, <2>3, NoneWorked
    <3>3. WorkingHours(s, close) = WorkingHours(s, c) + WorkingHours(c, close)
      BY <1>1, <1>2, WorkingAdds
    <3>4. WorkingHours(s, m) = WorkingHours(s, close) + WorkingHours(close, m)
      BY <1>1, <1>2, <2>3, WorkingAdds
    <3> QED BY <1>1, <1>2, <1>4, <3>1, <3>2, <3>3, <3>4
  <2> HIDE DEF close, s, n, c, left, m, later
  <2>6. /\ sum'.start = s /\ sum'.hours = n /\ sum'.current = m /\ sum'.remaining = later
        /\ sum'.result = NoResult
    BY <2>2
  <2> QED BY <1>1, <1>2, <2>2, <2>3, <2>4, <2>5, <2>6 DEF DeadlinesInvariant, DeadlineCountsWorkingHours
<1>7. CASE UNCHANGED sum
  BY <1>7 DEF DeadlinesInvariant, DeadlineCountsWorkingHours
<1> QED BY <1>5, <1>6, <1>7 DEF DeadlinesNext

\* A deadline leaves exactly the working hours that were asked for, whatever the opening
\* hours, the start and the number of hours.
THEOREM DeadlinesHoldTheHoursAsked == DeadlinesSpec => []DeadlineCountsWorkingHours
<1>1. DeadlinesInvariant => DeadlineCountsWorkingHours
  BY DEF DeadlinesInvariant
<1> QED BY <1>1, DeadlinesStart, DeadlinesStep, PTL DEF DeadlinesSpec

=============================================================================
