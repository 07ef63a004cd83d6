--------------------------- MODULE CaseLifeProofs ---------------------------
(***************************************************************************)
(* Workflow implements CaseLife: every commit is one move of one case or   *)
(* none.  And none passes over a step.                                     *)
(*                                                                         *)
(* WorkflowInvariant says that a case waits on one step or is over.  What  *)
(* is missing is order: the steps a case has left come before the one it   *)
(* waits on, whatever edits of the template are under way, and what a      *)
(* transaction is about to commit is a move of its case.                   *)
(***************************************************************************)
EXTENDS WorkflowProofs

(***************************************************************************)
(* The invariant                                                           *)
(***************************************************************************)
\* What a transaction makes of a task: a new one, or one that has ended.
TaskMoves ==
  \A t \in Tasks :
    \/ taskTip[t] = task[t]
    \/ task[t].status = "absent" /\ IsOpen(taskTip[t])
    \/ IsOpen(task[t]) /\ taskTip[t].status = "ended" /\ taskTip[t].step = task[t].step

\* A template is deleted once and for all.
DeletedForGood == template.deleted => templateTip.deleted

\* A step is made once, and tasks are made from steps that were.
StepsWereMade ==
  /\ \A st \in Steps : stepTip[st].state = "absent" => step[st].state = "absent"
  /\ \A t \in Tasks : task[t].status # "absent" => task[t].step \in Steps /\ step[task[t].step].state # "absent"

\* The step `past`, if it is still there, comes before the step `ahead`.
Behind(rows, past, ahead) == past \in Live(rows) => rows[past].order < rows[ahead].order

\* The steps a case has left come before the one it waits on, in the template as it is
\* and as it is about to be.
PastIsBehind ==
  \A c \in Cases : \A t \in OpenTasks(c), u \in EndedTasks(c) :
    Behind(step, task[u].step, task[t].step) /\ Behind(stepTip, task[u].step, task[t].step)

\* Who holds the template has not found it deleted, and reorders it only while no case runs.
EditIsAllowed(s) ==
  lock[Template] = s =>
    /\ call[s].op \notin TemplateOps => ~template.deleted
    /\ call[s].op = "reorder_steps" => \A c \in Cases : ~Running(c)

\* What s is about to commit is one move of its case.
StartIsAMove(s) ==
  call[s].op = "start" /\ call[s].pc = "commit" =>
    lock[Template] = s /\ case[call[s].c] = "absent" /\ caseTip[call[s].c] = "in_progress"

EndingIsAMove(s) ==
  LET c == call[s].c
      t == call[s].t
      after == StepsAfter(task[t].step)
  IN
  call[s].op = "end_task" /\ call[s].pc = "commit" =>
    /\ case[c] = "in_progress" /\ lock[t] = s /\ IsOpen(task[t]) /\ taskTip[t].status = "ended"
    /\ lock[Template] = s \/ template.deleted
    /\ \/ caseTip[c] = "completed" /\ after = {}
       \/ /\ caseTip[c] = "in_progress" /\ after # {}
          /\ \A u \in TasksOf(c) : lock[u] = s /\ IsOpen(taskTip[u]) => taskTip[u].step = First(after)

CancelIsAMove(s) ==
  call[s].op = "cancel_case" /\ call[s].pc \in {"list_tasks", "cancel_tasks", "commit"} =>
    case[call[s].c] = "in_progress" /\ caseTip[call[s].c] = "cancelled"

CallMoves(s) == EditIsAllowed(s) /\ StartIsAMove(s) /\ EndingIsAMove(s) /\ CancelIsAMove(s)

LifeInvariant ==
  /\ WorkflowInvariant
  /\ TaskMoves /\ DeletedForGood /\ StepsWereMade /\ PastIsBehind
  /\ \A s \in Sessions : CallMoves(s)

(***************************************************************************)
(* What a statement does to the others: nothing                            *)
(***************************************************************************)
\* Transaction s takes these rows, and writes no others.
Touches(s, rows) ==
  /\ Take(s, rows) /\ \A row \in rows : CanLock(s, row)
  /\ Template \in rows \/ (templateTip' = templateTip /\ stepTip' = stepTip)
  /\ \A c \in Cases : c \in rows \/ caseTip'[c] = caseTip[c]
  /\ \A t \in Tasks : t \in rows \/ taskTip'[t] = taskTip[t]
  /\ \A r \in Sessions \ {s} : call'[r] = call[r]

\* The move of a transaction stays as long as the rows it holds and what is committed do.
LEMMA OthersMove ==
  ASSUME WorkflowInvariant, NEW r \in Sessions, CallMoves(r), UNCHANGED committed, call'[r] = call[r],
         \A row \in Rows : lock'[row] = r <=> lock[row] = r,
         \A c \in Cases : lock[c] = r => caseTip'[c] = caseTip[c],
         \A t \in Tasks : lock[t] = r => taskTip'[t] = taskTip[t]
  PROVE  CallMoves(r)'
<1>1. /\ template' = template /\ step' = step /\ case' = case /\ task' = task
  BY DEF committed
<1>2. CallIsSound(r) /\ Template \in Rows
  BY RowsAreApart DEF WorkflowInvariant, CallsAreSound
<1>3. EditIsAllowed(r)'
  BY <1>1, <1>2 DEF CallMoves, EditIsAllowed, Running
<1>4. call[r].pc = "commit" /\ call[r].op \in CaseOps =>
        call[r].c \in Cases /\ lock[call[r].c] = r /\ call[r].c \in Rows
  BY <1>2, RowsAreApart DEF CallIsSound, CommitIsSound
<1>5. StartIsAMove(r)'
  <2>1. "start" \in CaseOps
    BY DEF CaseOps
  <2> QED
    BY <1>1, <1>2, <1>4, <2>1 DEF CallMoves, StartIsAMove
<1>6. EndingIsAMove(r)'
  <2> DEFINE c == call[r].c
             t == call[r].t
             after == StepsAfter(task[t].step)
  <2> SUFFICES ASSUME call[r].op = "end_task", call[r].pc = "commit"
               PROVE  EndingIsAMove(r)'
    BY <1>2 DEF EndingIsAMove
  <2>1. c \in Cases /\ lock[c] = r /\ c \in Rows
    BY <1>4 DEF CaseOps
  <2>2. t \in Tasks /\ t \in Rows /\ \A u \in TasksOf(c) : u \in Tasks /\ u \in Rows
    BY <1>2, <2>1, RowsAreApart DEF CallIsSound, EndingIsSound
  <2>3. /\ case[c] = "in_progress" /\ lock[t] = r /\ IsOpen(task[t]) /\ taskTip[t].status = "ended"
        /\ lock[Template] = r \/ template.deleted
        /\ \/ caseTip[c] = "completed" /\ after = {}
           \/ /\ caseTip[c] = "in_progress" /\ after # {}
              /\ \A u \in TasksOf(c) : lock[u] = r /\ IsOpen(taskTip[u]) => taskTip[u].step = First(after)
    BY DEF CallMoves, EndingIsAMove
  <2>4. c' = c /\ t' = t
    OBVIOUS
  <2>5. after' = after
    BY <1>1, <2>4 DEF StepsAfter, Live
  <2>6. First(after)' = First(after)
    BY <1>1, <2>5 DEF First
  <2>7. /\ case[c] = "in_progress" /\ lock'[t] = r /\ IsOpen(task[t]) /\ taskTip'[t].status = "ended"
        /\ lock'[Template] = r \/ template.deleted
        /\ \/ caseTip'[c] = "completed" /\ after = {}
           \/ /\ caseTip'[c] = "in_progress" /\ after # {}
              /\ \A u \in TasksOf(c) : lock'[u] = r /\ IsOpen(taskTip'[u]) => taskTip'[u].step = First(after)
    <3> HIDE DEF after, c, t
    <3> QED
      BY <1>2, <2>1, <2>2, <2>3
  <2> QED
    BY <1>1, <2>4, <2>5, <2>6, <2>7 DEF EndingIsAMove, TasksOf
<1>7. CancelIsAMove(r)'
  <2>1. call[r].op = "cancel_case" /\ call[r].pc \in {"list_tasks", "cancel_tasks", "commit"} =>
          call[r].c \in Cases /\ lock[call[r].c] = r
    BY <1>2, <1>4 DEF CallIsSound, CancelIsSound, CaseOps
  <2> QED
    BY <1>1, <2>1 DEF CallMoves, CancelIsAMove
<1> QED
  BY <1>3, <1>5, <1>6, <1>7 DEF CallMoves

\* What a statement of s has to show for the rest to follow.
LEMMA MovesKeep ==
  ASSUME LifeInvariant, NEW s \in Sessions, NEW rows, Touches(s, rows), UNCHANGED committed,
         WorkflowInvariant', TaskMoves', DeletedForGood', StepsWereMade', PastIsBehind', CallMoves(s)'
  PROVE  LifeInvariant'
<1>1. WorkflowInvariant /\ \A r \in Sessions : CallMoves(r)
  BY DEF LifeInvariant
<1>2. \A row \in Rows : lock'[row] = IF row \in rows THEN s ELSE lock[row]
  BY DEF Touches, Take
<1>3. ASSUME NEW r \in Sessions, r # s PROVE CallMoves(r)'
  <2>1. \A row \in Rows : (lock'[row] = r <=> lock[row] = r) /\ (lock[row] = r => row \notin rows)
    BY <1>2, <1>3, WorkflowAssumption DEF Touches, CanLock
  <2>2. /\ \A c \in Cases : lock[c] = r => caseTip'[c] = caseTip[c]
        /\ \A t \in Tasks : lock[t] = r => taskTip'[t] = taskTip[t]
        /\ call'[r] = call[r]
    BY <1>3, <2>1, RowsAreApart DEF Touches
  <2> QED
    BY <1>1, <2>1, <2>2, OthersMove
<1> QED
  BY <1>3 DEF LifeInvariant

\* Statements that leave the template alone.
LEMMA TemplateStays ==
  ASSUME LifeInvariant, UNCHANGED committed, templateTip' = templateTip, stepTip' = stepTip
  PROVE  DeletedForGood' /\ StepsWereMade' /\ PastIsBehind'
<1>1. template' = template /\ step' = step /\ case' = case /\ task' = task
  BY DEF committed
<1>2. DeletedForGood' /\ StepsWereMade'
  BY <1>1 DEF LifeInvariant, DeletedForGood, StepsWereMade
<1>3. PastIsBehind'
  BY <1>1 DEF LifeInvariant, PastIsBehind, OpenTasks, EndedTasks, Behind, Live
<1> QED
  BY <1>2, <1>3

\* A transaction that fails gives everything back.
LEMMA RollbackMoves ==
  ASSUME LifeInvariant, NEW s \in Sessions, RolledBack(s), UNCHANGED committed
  PROVE  LifeInvariant'
<1>1. template' = template /\ step' = step /\ case' = case /\ task' = task
  BY DEF committed
<1>2. WorkflowInvariant' /\ WorkflowInvariant /\ TypeOK
  BY RollbackKeeps DEF LifeInvariant, WorkflowInvariant
<1>3. /\ templateTip' = IF lock[Template] = s THEN template ELSE templateTip
      /\ stepTip' = IF lock[Template] = s THEN step ELSE stepTip
      /\ \A c \in Cases : caseTip'[c] = IF lock[c] = s THEN case[c] ELSE caseTip[c]
      /\ \A t \in Tasks : taskTip'[t] = IF lock[t] = s THEN task[t] ELSE taskTip[t]
      /\ \A row \in Rows : lock'[row] = IF lock[row] = s THEN Free ELSE lock[row]
      /\ call' = [call EXCEPT ![s] = Idle]
  BY DEF RolledBack, Newest, Release
<1>4. call'[s] = Idle /\ \A r \in Sessions \ {s} : call'[r] = call[r]
  BY <1>2, <1>3 DEF TypeOK
<1>5. TaskMoves'
  BY <1>1, <1>3 DEF LifeInvariant, TaskMoves
<1>6. DeletedForGood' /\ StepsWereMade'
  BY <1>1, <1>3 DEF LifeInvariant, DeletedForGood, StepsWereMade
<1>7. PastIsBehind'
  BY <1>1, <1>3 DEF LifeInvariant, PastIsBehind, OpenTasks, EndedTasks, Behind, Live
<1>8. CallMoves(s)'
  <2>1. lock'[Template] # s /\ Idle.op = "none"
    BY <1>3, RowsAreApart, WorkflowAssumption DEF Idle
  <2> QED
    BY <1>4, <2>1 DEF CallMoves, EditIsAllowed, StartIsAMove, EndingIsAMove, CancelIsAMove
<1>9. ASSUME NEW r \in Sessions, r # s PROVE CallMoves(r)'
  <2>1. \A row \in Rows : lock'[row] = r <=> lock[row] = r
    BY <1>3, <1>9, WorkflowAssumption
  <2>2. /\ \A c \in Cases : lock[c] = r => caseTip'[c] = caseTip[c]
        /\ \A t \in Tasks : lock[t] = r => taskTip'[t] = taskTip[t]
        /\ call'[r] = call[r] /\ CallMoves(r)
    BY <1>3, <1>4, <1>9 DEF LifeInvariant
  <2> QED
    BY <1>2, <2>1, <2>2, OthersMove
<1> QED
  BY <1>2, <1>5, <1>6, <1>7, <1>8, <1>9 DEF LifeInvariant

\* A request that begins holds nothing and commits nothing yet.
LEMMA RequestsMove ==
  ASSUME LifeInvariant, NEW s \in Sessions, Request(s)
  PROVE  LifeInvariant'
<1>1. WorkflowInvariant' /\ WorkflowInvariant /\ TypeOK
  BY RequestsKeep DEF LifeInvariant, WorkflowInvariant
<1>2. PICK op, pc, c, t, st : Begin(s, op, pc, c, t, st) /\ pc \in {"lock_template", "write_template", "end_task", "lock_case"}
  BY DEF Request, StartInstance, StartCancelInstance, StartEndTask, StartAddStep, StartDeleteStep, StartReorderSteps,
         StartDeleteTemplate, StartSetArchived
<1>3. /\ UNCHANGED committed /\ lock' = lock /\ templateTip' = templateTip /\ stepTip' = stepTip
      /\ caseTip' = caseTip /\ taskTip' = taskTip /\ task' = task
  BY <1>2 DEF Begin, tables, committed, tips
<1>4. call' = [call EXCEPT ![s] = [Idle EXCEPT !.op = op, !.pc = pc, !.c = c, !.t = t, !.st = st]] /\ call[s] = Idle
  BY <1>2 DEF Begin
<1>5. call'[s].pc = pc /\ \A r \in Sessions \ {s} : call'[r] = call[r]
  BY <1>1, <1>4 DEF TypeOK, Idle
<1>6. DeletedForGood' /\ StepsWereMade' /\ PastIsBehind' /\ TaskMoves'
  BY <1>3, TemplateStays DEF LifeInvariant, TaskMoves
<1>7. lock[Template] # s
  <2>1. CallIsSound(s) /\ MayHold(call[s]) = {}
    BY <1>1, <1>4 DEF WorkflowInvariant, CallsAreSound, MayHold, Idle
  <2> QED
    BY <2>1, RowsAreApart DEF CallIsSound
<1>8. CallMoves(s)'
  BY <1>2, <1>3, <1>5, <1>7 DEF CallMoves, EditIsAllowed, StartIsAMove, EndingIsAMove, CancelIsAMove
<1>9. ASSUME NEW r \in Sessions, r # s PROVE CallMoves(r)'
  <2>1. call'[r] = call[r] /\ CallMoves(r)
    BY <1>5, <1>9 DEF LifeInvariant
  <2> QED
    BY <1>1, <1>3, <2>1, OthersMove
<1> QED
  BY <1>1, <1>6, <1>8, <1>9 DEF LifeInvariant

\* A statement of a case's transaction writes cases and tasks only.
LEMMA CaseStatementsMove ==
  ASSUME LifeInvariant, NEW s \in Sessions, NEW k, NEW rows,
         UNCHANGED committed, call' = [call EXCEPT ![s] = k],
         Take(s, rows), \A row \in rows : CanLock(s, row),
         templateTip' = templateTip, stepTip' = stepTip,
         \A c \in Cases : c \in rows \/ caseTip'[c] = caseTip[c],
         \A t \in Tasks : t \in rows \/ taskTip'[t] = taskTip[t],
         WorkflowInvariant', TaskMoves', CallMoves(s)'
  PROVE  LifeInvariant'
<1>1. \A r \in Sessions \ {s} : call'[r] = call[r]
  BY DEF LifeInvariant, WorkflowInvariant, TypeOK
<1>2. Touches(s, rows)
  BY <1>1 DEF Touches
<1>3. DeletedForGood' /\ StepsWereMade' /\ PastIsBehind'
  BY TemplateStays
<1> QED
  BY <1>2, <1>3, MovesKeep, ZenonT(60)

\* start_instance: the template it starts from is not deleted, and stays.
LEMMA CreateInstanceMoves ==
  ASSUME LifeInvariant, NEW s \in Sessions, CreateInstance(s)
  PROVE  LifeInvariant'
<1> DEFINE c == call[s].c
<1>1. /\ call[s].pc = "lock_template" /\ call[s].op = "start" /\ UNCHANGED committed
      /\ template.deleted \/ CanLock(s, Template)
  BY DEF CreateInstance, GetTemplate, At
<1>2. CASE template.deleted \/ template.archived \/ Live(step) = {}
  BY <1>1, <1>2, RollbackMoves DEF CreateInstance
<1>3. CASE ~(template.deleted \/ template.archived \/ Live(step) = {})
  <2>1. PICK t \in NextTask(c) :
          /\ caseTip' = [caseTip EXCEPT ![c] = "in_progress"]
          /\ taskTip' = [taskTip EXCEPT ![t] = NewTask(First(Live(step)))]
          /\ Take(s, TemplateLock \cup {c, t})
          /\ Goto(s, "commit")
          /\ UNCHANGED <<templateTip, stepTip>>
    BY <1>3 DEF CreateInstance
  <2>2. WorkflowInvariant /\ CallIsSound(s) /\ TypeOK /\ TaskMoves
    BY DEF LifeInvariant, WorkflowInvariant, CallsAreSound
  <2>3. /\ c \in Cases /\ case[c] = "absent"
        /\ \A r \in Sessions \ {s} : call[r].c # c
    BY <1>1, <2>2 DEF CallIsSound, FreshIsFresh, CaseOps
  <2>4. t \in TasksOf(c) /\ t \in Tasks /\ taskTip[t].status = "absent"
    BY <2>1, <2>3, RowsAreApart DEF NextTask
  <2>5. PICK k \in Call :
          /\ call' = [call EXCEPT ![s] = k] /\ call'[s] = k
          /\ k.pc = "commit" /\ k.op = call[s].op /\ k.c = call[s].c /\ k.t = call[s].t /\ k.st = call[s].st
    BY <2>1, <2>2, GotoIsACall DEF Points
  <2>6. \A row \in Rows : lock[row] # s
    BY <1>1, <2>2, NothingHeldAtFirst
  <2> HIDE DEF c
  <2>7. lock[c] = Free /\ \A u \in TasksOf(c) : lock[u] = Free
    <3>1. \A r \in Sessions : lock[c] # r /\ \A u \in TasksOf(c) : lock[u] # r
      BY <2>2, <2>3, <2>6, HoldersKnowTheCase, RowsAreApart
    <3> QED
      BY <2>2, <2>3, <3>1, RowsAreApart DEF TypeOK
  <2>8. PICK rows : rows = {Template, c, t}
    OBVIOUS
  <2>9. Take(s, rows) /\ \A row \in rows : CanLock(s, row)
    <3>1. TemplateLock \cup {c, t} = rows
      BY <1>3, <2>8 DEF TemplateLock
    <3> QED
      BY <1>1, <1>3, <2>1, <2>4, <2>7, <2>8, <3>1 DEF CanLock
  <2>10. lock'[Template] = s
    BY <2>8, <2>9, RowsAreApart DEF Take
  <2>11. caseTip'[c] = "in_progress" /\ \A d \in Cases : d # c => caseTip'[d] = caseTip[d]
    BY <2>1, <2>2, <2>3 DEF TypeOK
  <2>12. IsOpen(taskTip'[t]) /\ \A u \in Tasks : u # t => taskTip'[u] = taskTip[u]
    <3>1. PICK first : first = NewTask(First(Live(step)))
      OBVIOUS
    <3>2. IsOpen(first)
      BY <3>1 DEF NewTask, IsOpen
    <3> QED
      BY <2>1, <2>2, <2>4, <3>1, <3>2 DEF TypeOK
  <2>13. TaskMoves'
    <3>1. task[t].status = "absent" /\ task' = task
      BY <1>1, <2>2, <2>4, AbsentIsUnlocked DEF committed
    <3> QED
      BY <2>2, <2>12, <3>1 DEF TaskMoves
  <2>14. CallMoves(s)'
    <3>1. template' = template /\ case' = case
      BY <1>1 DEF committed
    <3>2. k.op = "start" /\ k.pc = "commit" /\ k.c = c
      BY <1>1, <2>5 DEF c
    <3>3. EditIsAllowed(s)' /\ StartIsAMove(s)'
      BY <1>3, <2>3, <2>5, <2>10, <2>11, <3>1, <3>2 DEF EditIsAllowed, StartIsAMove
    <3>4. EndingIsAMove(s)' /\ CancelIsAMove(s)'
      BY <2>5, <3>2 DEF EndingIsAMove, CancelIsAMove
    <3> QED
      BY <3>3, <3>4 DEF CallMoves
  <2>15. WorkflowInvariant'
    BY <2>2, CreateInstanceKeeps
  <2>16. /\ \A d \in Cases : d \in rows \/ caseTip'[d] = caseTip[d]
         /\ \A u \in Tasks : u \in rows \/ taskTip'[u] = taskTip[u]
         /\ templateTip' = templateTip /\ stepTip' = stepTip
    BY <2>1, <2>8, <2>11, <2>12
  <2> QED
    BY <1>1, <2>5, <2>9, <2>13, <2>14, <2>15, <2>16, CaseStatementsMove, ZenonT(60)
<1> QED
  BY <1>2, <1>3

\* complete_task, cancel_task: a task is ended that is open as it was committed.
LEMMA EndTaskMoves ==
  ASSUME LifeInvariant, NEW s \in Sessions, EndTask(s)
  PROVE  LifeInvariant'
<1> DEFINE t == call[s].t
<1>1. WorkflowInvariant /\ CallIsSound(s) /\ TypeOK /\ TaskMoves
  BY DEF LifeInvariant, WorkflowInvariant, CallsAreSound
<1>2. /\ call[s].pc = "end_task" /\ call[s].op = "end_task" /\ UNCHANGED committed
      /\ CanLock(s, t)
  BY <1>1 DEF EndTask, At, CallIsSound, Operations
<1>3. t \in Tasks /\ t \in Rows /\ t # Template
  BY <1>1, <1>2, RowsAreApart DEF CallIsSound, CaseOps, EndingIsSound
<1>4. CASE ~IsOpen(taskTip[t])
  BY <1>2, <1>4, RollbackMoves DEF EndTask
<1>5. CASE IsOpen(taskTip[t])
  <2>1. /\ taskTip' = [taskTip EXCEPT ![t].status = "ended"]
        /\ Take(s, {t}) /\ Goto(s, "lock_case")
        /\ templateTip' = templateTip /\ stepTip' = stepTip /\ caseTip' = caseTip
    BY <1>5 DEF EndTask
  <2>2. PICK k \in Call :
          /\ call' = [call EXCEPT ![s] = k] /\ call'[s] = k
          /\ k.pc = "lock_case" /\ k.op = call[s].op /\ k.c = call[s].c /\ k.t = call[s].t /\ k.st = call[s].st
    BY <1>1, <2>1, GotoIsACall DEF Points
  <2>3. \A row \in Rows : lock[row] # s
    BY <1>1, <1>2, NothingHeldAtFirst
  <2> HIDE DEF t
  <2>4. taskTip[t] = task[t]
    BY <1>1, <1>2, <1>3, <2>3 DEF CanLock, WorkflowInvariant, TablesAreSound, UnlockedIsCommitted
  <2>5. PICK rows : rows = {t}
    OBVIOUS
  <2>6. Take(s, rows) /\ \A row \in rows : CanLock(s, row)
    BY <1>2, <2>1, <2>5
  <2>7. lock'[Template] # s
    BY <1>3, <2>1, <2>3, RowsAreApart DEF Take
  <2>8. /\ taskTip'[t].status = "ended" /\ taskTip'[t].step = taskTip[t].step
        /\ \A u \in Tasks : u # t => taskTip'[u] = taskTip[u]
    <3>1. taskTip \in [Tasks -> TaskRow] /\ taskTip[t] \in TaskRow
      BY <1>1, <1>3 DEF TypeOK
    <3>2. PICK row : row = [taskTip[t] EXCEPT !.status = "ended"]
      OBVIOUS
    <3>3. row.status = "ended" /\ row.step = taskTip[t].step
      BY <3>1, <3>2 DEF TaskRow
    <3>4. taskTip' = [taskTip EXCEPT ![t] = row]
      BY <2>1, <3>2
    <3> QED
      BY <1>3, <3>1, <3>3, <3>4
  <2>9. TaskMoves'
    <3>1. task' = task /\ IsOpen(task[t])
      BY <1>2, <1>5, <2>4 DEF committed
    <3> QED
      BY <1>1, <2>4, <2>8, <3>1 DEF TaskMoves
  <2>10. CallMoves(s)'
    BY <1>2, <2>2, <2>7 DEF CallMoves, EditIsAllowed, StartIsAMove, EndingIsAMove, CancelIsAMove
  <2>11. WorkflowInvariant'
    BY <1>1, EndTaskKeeps
  <2>12. /\ \A d \in Cases : d \in rows \/ caseTip'[d] = caseTip[d]
         /\ \A u \in Tasks : u \in rows \/ taskTip'[u] = taskTip[u]
    BY <2>1, <2>5, <2>8
  <2> QED
    BY <1>2, <2>1, <2>2, <2>6, <2>9, <2>10, <2>11, <2>12, CaseStatementsMove, ZenonT(60)
<1> QED
  BY <1>4, <1>5

\* The first lock of move_on_after_task.
LEMMA LockCaseMoves ==
  ASSUME LifeInvariant, NEW s \in Sessions, LockCase(s)
  PROVE  LifeInvariant'
<1> DEFINE c == call[s].c
<1>1. WorkflowInvariant /\ CallIsSound(s) /\ TypeOK /\ TaskMoves
  BY DEF LifeInvariant, WorkflowInvariant, CallsAreSound
<1>2. /\ call[s].pc = "lock_case" /\ call[s].op = "end_task" /\ UNCHANGED committed
      /\ CanLock(s, c) /\ Take(s, {c})
      /\ templateTip' = templateTip /\ stepTip' = stepTip /\ caseTip' = caseTip /\ taskTip' = taskTip
      /\ Goto(s, IF caseTip[c] = "in_progress" THEN "move_on" ELSE "commit")
  BY DEF LockCase, At, tips
<1>3. c \in Cases /\ call[s].t \in TasksOf(c) /\ call[s].t \in Tasks /\ c \in Rows /\ c # call[s].t /\ Template # c
  BY <1>1, <1>2, RowsAreApart DEF CallIsSound, CaseOps, EndingIsSound
<1>4. \A row \in Rows : lock[row] = s => row = call[s].t
  BY <1>1, <1>2, WhatMayBeHeld DEF CallIsSound
<1>5. caseTip[c] = "in_progress"
  <2>1. Sits(case[c], OpenTasks(c)) /\ call[s].t \in OpenTasks(c)
    BY <1>1, <1>2, <1>3 DEF CallIsSound, EndingIsSound, WorkflowInvariant, TablesAreSound, OpenTasks
  <2>2. case[c] = "in_progress"
    BY <2>1 DEF Sits
  <2>3. lock[c] = Free
    BY <1>2, <1>3, <1>4 DEF CanLock
  <2> QED
    BY <1>1, <1>3, <2>2, <2>3 DEF WorkflowInvariant, TablesAreSound, UnlockedIsCommitted
<1>6. PICK k \in Call :
        /\ call' = [call EXCEPT ![s] = k] /\ call'[s] = k
        /\ k.pc = "move_on" /\ k.op = call[s].op /\ k.c = call[s].c /\ k.t = call[s].t /\ k.st = call[s].st
  BY <1>1, <1>2, <1>5, GotoIsACall DEF Points
<1> HIDE DEF c
<1>7. PICK rows : rows = {c}
  OBVIOUS
<1>8. Take(s, rows) /\ \A row \in rows : CanLock(s, row)
  BY <1>2, <1>7
<1>9. lock'[Template] # s
  BY <1>2, <1>3, <1>4, RowsAreApart DEF Take
<1>10. TaskMoves'
  BY <1>1, <1>2 DEF TaskMoves, committed
<1>11. CallMoves(s)'
  BY <1>2, <1>6, <1>9 DEF CallMoves, EditIsAllowed, StartIsAMove, EndingIsAMove, CancelIsAMove
<1>12. WorkflowInvariant'
  BY <1>1, LockCaseKeeps
<1>13. /\ \A d \in Cases : d \in rows \/ caseTip'[d] = caseTip[d]
       /\ \A u \in Tasks : u \in rows \/ taskTip'[u] = taskTip[u]
  BY <1>2
<1> QED
  BY <1>2, <1>6, <1>8, <1>10, <1>11, <1>12, <1>13, CaseStatementsMove, ZenonT(60)

\* The rest of move_on_after_task: the new task is on the first of the later steps, or
\* the case is over because there is none; while a template that is deleted no longer changes.
LEMMA MoveOnMoves ==
  ASSUME LifeInvariant, NEW s \in Sessions, MoveOn(s)
  PROVE  LifeInvariant'
<1> DEFINE c == call[s].c
           t == call[s].t
           finished == task[t].step
           after == StepsAfter(finished)
<1>1. WorkflowInvariant /\ CallIsSound(s) /\ TypeOK /\ TaskMoves
  BY DEF LifeInvariant, WorkflowInvariant, CallsAreSound
<1>2. /\ call[s].pc = "move_on" /\ call[s].op = "end_task" /\ UNCHANGED committed
      /\ template.deleted \/ CanLock(s, Template)
  BY DEF MoveOn, GetTemplate, At
<1>3. c \in Cases /\ t \in TasksOf(c) /\ t \in Tasks
  BY <1>1, <1>2, RowsAreApart DEF CallIsSound, CaseOps, EndingIsSound
<1>4. /\ lock[t] = s /\ IsOpen(task[t]) /\ taskTip[t].status = "ended"
      /\ lock[c] = s /\ case[c] = "in_progress" /\ caseTip[c] = "in_progress"
  BY <1>1, <1>2 DEF CallIsSound, EndingIsSound
<1>5. \A row \in Rows : lock[row] = s => row \in {t, c}
  BY <1>1, <1>2, WhatMayBeHeld DEF CallIsSound
<1>6. CASE finished \notin Live(step) \/ (after # {} /\ template.deleted)
  BY <1>2, <1>6, RollbackMoves DEF MoveOn
<1>7. ASSUME NEW rows, Take(s, rows), Goto(s, "commit"), \A row \in rows : CanLock(s, row),
             templateTip' = templateTip, stepTip' = stepTip,
             Template \in rows <=> ~template.deleted,
             \A d \in Cases : d # c => caseTip'[d] = caseTip[d],
             \A u \in Tasks : u \in rows \/ taskTip'[u] = taskTip[u],
             \A u \in Tasks : u \in rows =>
               u # t /\ task[u].status = "absent" /\ IsOpen(taskTip'[u]) /\ taskTip'[u].step = First(after),
             \/ caseTip'[c] = "completed" /\ after = {}
             \/ caseTip'[c] = "in_progress" /\ after # {}
      PROVE  LifeInvariant'
  <2>1. PICK k \in Call :
          /\ call' = [call EXCEPT ![s] = k] /\ call'[s] = k
          /\ k.pc = "commit" /\ k.op = call[s].op /\ k.c = call[s].c /\ k.t = call[s].t /\ k.st = call[s].st
    BY <1>1, <1>7, GotoIsACall DEF Points
  <2>2. k.c = c /\ k.t = t /\ k.op = "end_task"
    BY <1>2, <2>1
  <2>3. template' = template /\ step' = step /\ case' = case /\ task' = task
    BY <1>2 DEF committed
  <2>4. PICK later : later = after
    OBVIOUS
  <2>5. StepsAfter(task[call[s].t].step)' = later /\ First(later)' = First(later)
    <3>1. call'[s].t = call[s].t
      BY <2>1
    <3>2. StepsAfter(task[call[s].t].step)' = StepsAfter(task[call[s].t].step)
      BY <2>3, <3>1 DEF StepsAfter, Live
    <3>3. First(later)' = First(later)
      BY <2>3 DEF First
    <3> QED
      BY <2>4, <3>2, <3>3
  <2> HIDE DEF c, t, finished, after
  <2>6. \A row \in Rows : lock'[row] = IF row \in rows THEN s ELSE lock[row]
    BY <1>7 DEF Take
  <2>7. /\ lock'[c] = s /\ lock'[t] = s
        /\ lock'[Template] = s <=> ~template.deleted
    BY <1>3, <1>4, <1>5, <1>7, <2>6, RowsAreApart
  <2>8. taskTip'[t] = taskTip[t]
    BY <1>3, <1>7
  <2>9. TaskMoves'
    BY <1>1, <1>7, <2>3 DEF TaskMoves
  <2>10. ASSUME NEW u \in TasksOf(c), lock'[u] = s, IsOpen(taskTip'[u])
        PROVE  taskTip'[u].step = First(after)
    <3>1. u \in Tasks /\ u \in Rows /\ u # c
      BY <1>3, RowsAreApart
    <3>2. u # t
      BY <1>4, <2>8, <2>10 DEF IsOpen
    <3> QED
      BY <1>5, <1>7, <2>6, <2>10, <3>1, <3>2
  <2>11. EndingIsAMove(s)'
    <3>1. call'[s].c = c /\ call'[s].t = t
      BY <2>1, <2>2
    <3>3. /\ case'[c] = "in_progress" /\ lock'[t] = s /\ IsOpen(task'[t]) /\ taskTip'[t].status = "ended"
          /\ lock'[Template] = s \/ template'.deleted
      BY <1>4, <2>3, <2>7, <2>8
    <3> QED
      BY <1>7, <2>4, <2>5, <2>10, <3>1, <3>3 DEF EndingIsAMove, TasksOf
  <2>12. CallMoves(s)'
    <3>1. EditIsAllowed(s)'
      BY <2>1, <2>2, <2>3, <2>7 DEF EditIsAllowed
    <3>2. StartIsAMove(s)' /\ CancelIsAMove(s)'
      BY <2>1, <2>2 DEF StartIsAMove, CancelIsAMove
    <3> QED
      BY <2>11, <3>1, <3>2 DEF CallMoves
  <2>13. WorkflowInvariant'
    BY <1>1, MoveOnKeeps
  <2>14. /\ \A d \in Cases : d \in rows \cup {c} \/ caseTip'[d] = caseTip[d]
         /\ \A u \in Tasks : u \in rows \cup {c} \/ taskTip'[u] = taskTip[u]
    BY <1>7
  <2>15. Take(s, rows \cup {c}) /\ \A row \in rows \cup {c} : CanLock(s, row)
    <3>1. lock' = [row \in Rows |-> IF row \in rows \cup {c} THEN s ELSE lock[row]]
      BY <1>4, <1>7 DEF Take
    <3> QED
      BY <1>4, <1>7, <3>1 DEF Take, CanLock
  <2>16. PICK all : all = rows \cup {c}
    OBVIOUS
  <2>17. /\ Take(s, all) /\ \A row \in all : CanLock(s, row)
         /\ \A d \in Cases : d \in all \/ caseTip'[d] = caseTip[d]
         /\ \A u \in Tasks : u \in all \/ taskTip'[u] = taskTip[u]
    BY <2>14, <2>15, <2>16
  <2> QED
    BY <1>2, <1>7, <2>1, <2>9, <2>12, <2>13, <2>17, CaseStatementsMove, ZenonT(60)
<1>8. CASE ~(finished \notin Live(step) \/ (after # {} /\ template.deleted))
  <2>1. /\ after # {} => ~template.deleted
        /\ Goto(s, "commit") /\ templateTip' = templateTip /\ stepTip' = stepTip
    BY <1>8 DEF MoveOn
  <2>2. /\ \A row \in TemplateLock : CanLock(s, row)
        /\ Template \in TemplateLock <=> ~template.deleted
        /\ \A u \in Tasks : u \notin TemplateLock
    BY <1>2, RowsAreApart DEF TemplateLock
  <2>3. caseTip \in [Cases -> CaseStatus] /\ taskTip \in [Tasks -> TaskRow]
    BY <1>1 DEF TypeOK
  <2>4. ASSUME NEW new \in NextTask(c), after # {},
               taskTip' = [taskTip EXCEPT ![new] = NewTask(First(after))],
               Take(s, TemplateLock \cup {new}), caseTip' = caseTip
        PROVE  LifeInvariant'
    <3>1. new \in TasksOf(c) /\ new \in Tasks /\ taskTip[new].status = "absent"
      BY <1>3, <2>4, RowsAreApart DEF NextTask
    <3>2. lock[new] = Free /\ new # t /\ task[new].status = "absent"
      BY <1>1, <1>4, <3>1, AbsentIsUnlocked
    <3>3. PICK row : row = NewTask(First(after))
      OBVIOUS
    <3> HIDE DEF c, t, finished, after
    <3>4. IsOpen(row) /\ row.step = First(after)
      BY <3>3 DEF NewTask, IsOpen
    <3>5. /\ taskTip'[new] = row
          /\ \A u \in Tasks : u # new => taskTip'[u] = taskTip[u]
      BY <2>3, <2>4, <3>1, <3>3
    <3>6. PICK rows : rows = TemplateLock \cup {new}
      OBVIOUS
    <3>7. /\ Take(s, rows) /\ \A r \in rows : CanLock(s, r)
          /\ Template \in rows <=> ~template.deleted
          /\ \A u \in Tasks : u \in rows <=> u = new
      BY <2>2, <2>4, <3>1, <3>2, <3>6, RowsAreApart DEF CanLock
    <3>8. /\ \A u \in Tasks : u \in rows \/ taskTip'[u] = taskTip[u]
          /\ \A u \in Tasks : u \in rows =>
               u # t /\ task[u].status = "absent" /\ IsOpen(taskTip'[u]) /\ taskTip'[u].step = First(after)
      BY <3>2, <3>4, <3>5, <3>7
    <3>9. caseTip'[c] = "in_progress" /\ \A d \in Cases : d # c => caseTip'[d] = caseTip[d]
      BY <1>4, <2>4
    <3> QED
      BY <1>7, <2>1, <2>4, <3>7, <3>8, <3>9, ZenonT(60)
  <2>5. ASSUME after = {}, caseTip' = [caseTip EXCEPT ![c] = "completed"], Take(s, TemplateLock), taskTip' = taskTip
        PROVE  LifeInvariant'
    <3> HIDE DEF c, t, finished, after
    <3>1. /\ caseTip'[c] = "completed"
          /\ \A d \in Cases : d # c => caseTip'[d] = caseTip[d]
      BY <1>3, <2>3, <2>5
    <3>2. /\ \A u \in Tasks : u \in TemplateLock \/ taskTip'[u] = taskTip[u]
          /\ \A u \in Tasks : u \in TemplateLock =>
               u # t /\ task[u].status = "absent" /\ IsOpen(taskTip'[u]) /\ taskTip'[u].step = First(after)
      BY <2>2, <2>5
    <3>3. PICK rows : rows = TemplateLock
      OBVIOUS
    <3> QED
      BY <1>7, <2>1, <2>2, <2>5, <3>1, <3>2, <3>3, ZenonT(60)
  <2> QED
    BY <1>8, <2>4, <2>5 DEF MoveOn
<1> QED
  BY <1>6, <1>8

\* cancel_instance: it cancels a case that is running as it was committed.
LEMMA CancelInstanceMoves ==
  ASSUME LifeInvariant, NEW s \in Sessions, CancelInstance(s)
  PROVE  LifeInvariant'
<1> DEFINE c == call[s].c
<1>1. WorkflowInvariant /\ CallIsSound(s) /\ TypeOK /\ TaskMoves
  BY DEF LifeInvariant, WorkflowInvariant, CallsAreSound
<1>2. /\ call[s].pc = "lock_case" /\ call[s].op = "cancel_case" /\ UNCHANGED committed
      /\ CanLock(s, c)
  BY DEF CancelInstance, At
<1>3. c \in Cases /\ c \in Rows /\ c # Template
  BY <1>1, <1>2, RowsAreApart DEF CallIsSound, CaseOps
<1>4. CASE caseTip[c] # "in_progress"
  BY <1>2, <1>4, RollbackMoves DEF CancelInstance
<1>5. CASE caseTip[c] = "in_progress"
  <2>1. /\ caseTip' = [caseTip EXCEPT ![c] = "cancelled"]
        /\ Take(s, {c}) /\ Goto(s, "list_tasks")
        /\ templateTip' = templateTip /\ stepTip' = stepTip /\ taskTip' = taskTip
    BY <1>5 DEF CancelInstance
  <2>2. PICK k \in Call :
          /\ call' = [call EXCEPT ![s] = k] /\ call'[s] = k
          /\ k.pc = "list_tasks" /\ k.op = call[s].op /\ k.c = call[s].c /\ k.t = call[s].t /\ k.st = call[s].st
    BY <1>1, <2>1, GotoIsACall DEF Points
  <2>3. \A row \in Rows : lock[row] # s
    BY <1>1, <1>2, WhatMayBeHeld DEF CallIsSound
  <2>4. k.c = c /\ k.op = "cancel_case"
    BY <1>2, <2>2
  <2> HIDE DEF c
  <2>5. case[c] = "in_progress"
    BY <1>1, <1>2, <1>3, <1>5, <2>3 DEF CanLock, WorkflowInvariant, TablesAreSound, UnlockedIsCommitted
  <2>6. PICK rows : rows = {c}
    OBVIOUS
  <2>7. Take(s, rows) /\ \A row \in rows : CanLock(s, row)
    BY <1>2, <2>1, <2>6
  <2>8. lock'[Template] # s
    BY <1>3, <2>1, <2>3, RowsAreApart DEF Take
  <2>9. caseTip'[c] = "cancelled" /\ \A d \in Cases : d # c => caseTip'[d] = caseTip[d]
    BY <1>1, <1>3, <2>1 DEF TypeOK
  <2>10. CallMoves(s)'
    <3>1. case'[c] = "in_progress"
      BY <1>2, <2>5 DEF committed
    <3>2. CancelIsAMove(s)'
      BY <2>2, <2>4, <2>9, <3>1 DEF CancelIsAMove
    <3> QED
      BY <2>2, <2>4, <2>8, <3>2 DEF CallMoves, EditIsAllowed, StartIsAMove, EndingIsAMove
  <2>11. TaskMoves'
    BY <1>1, <1>2, <2>1 DEF TaskMoves, committed
  <2>12. WorkflowInvariant'
    BY <1>1, CancelInstanceKeeps
  <2>13. /\ \A d \in Cases : d \in rows \/ caseTip'[d] = caseTip[d]
         /\ \A u \in Tasks : u \in rows \/ taskTip'[u] = taskTip[u]
    BY <2>1, <2>6, <2>9
  <2> QED
    BY <1>2, <2>1, <2>2, <2>7, <2>10, <2>11, <2>12, <2>13, CaseStatementsMove, ZenonT(60)
<1> QED
  BY <1>4, <1>5

\* The list of a cancelled case's open tasks.
LEMMA ListTasksMoves ==
  ASSUME LifeInvariant, NEW s \in Sessions, ListTasks(s)
  PROVE  LifeInvariant'
<1> DEFINE c == call[s].c
           k == [call[s] EXCEPT !.pc = "cancel_tasks", !.todo = {t \in TasksOf(c) : IsOpen(task[t])}]
<1>1. WorkflowInvariant /\ CallIsSound(s) /\ TypeOK /\ TaskMoves /\ CancelIsAMove(s) /\ call \in [Sessions -> Call] /\ call[s] \in Call
  BY DEF LifeInvariant, WorkflowInvariant, CallsAreSound, CallMoves, TypeOK
<1>2. /\ call[s].pc = "list_tasks" /\ UNCHANGED committed /\ lock' = lock
      /\ templateTip' = templateTip /\ stepTip' = stepTip /\ caseTip' = caseTip /\ taskTip' = taskTip
  BY DEF ListTasks, At, tips
<1>3. call[s].op = "cancel_case"
  BY <1>1, <1>2 DEF CallIsSound, Operations
<1>4. c \in Cases /\ c # Template
  BY <1>1, <1>3, RowsAreApart DEF CallIsSound, CaseOps
<1>5. call' = [call EXCEPT ![s] = k]
  BY <1>1 DEF ListTasks
<1>6. k.op = "cancel_case" /\ k.c = c /\ k.pc = "cancel_tasks"
  BY <1>1, <1>3 DEF Call
<1> HIDE DEF k
<1>7. call'[s] = k
  BY <1>1, <1>5
<1>8. lock[Template] # s
  BY <1>1, <1>2, <1>4, RowsAreApart, WhatMayBeHeld DEF CallIsSound
<1>9. CallMoves(s)'
  <2>1. case'[c] = "in_progress" /\ caseTip'[c] = "cancelled"
    BY <1>1, <1>2, <1>3 DEF CancelIsAMove, committed
  <2> QED
    BY <1>2, <1>6, <1>7, <1>8, <2>1 DEF CallMoves, EditIsAllowed, StartIsAMove, EndingIsAMove, CancelIsAMove
<1>10. PICK rows : rows = {}
  OBVIOUS
<1>11. Take(s, rows) /\ \A row \in rows : CanLock(s, row)
  BY <1>1, <1>2, <1>10 DEF Take, TypeOK
<1>12. TaskMoves'
  BY <1>1, <1>2 DEF TaskMoves, committed
<1>13. WorkflowInvariant'
  BY <1>1, ListTasksKeeps
<1>14. /\ \A d \in Cases : d \in rows \/ caseTip'[d] = caseTip[d]
       /\ \A u \in Tasks : u \in rows \/ taskTip'[u] = taskTip[u]
  BY <1>2
<1> QED
  BY <1>2, <1>5, <1>9, <1>11, <1>12, <1>13, <1>14, CaseStatementsMove, ZenonT(60)

\* Cancelling the listed tasks: they were open as they were committed.
LEMMA CancelOpenTasksMoves ==
  ASSUME LifeInvariant, NEW s \in Sessions, CancelOpenTasks(s)
  PROVE  LifeInvariant'
<1> DEFINE c == call[s].c
           todo == call[s].todo
<1>1. WorkflowInvariant /\ CallIsSound(s) /\ TypeOK /\ TaskMoves /\ CancelIsAMove(s) /\ call \in [Sessions -> Call] /\ call[s] \in Call
  BY DEF LifeInvariant, WorkflowInvariant, CallsAreSound, CallMoves, TypeOK
<1>2. /\ call[s].pc = "cancel_tasks" /\ UNCHANGED committed
      /\ templateTip' = templateTip /\ stepTip' = stepTip /\ caseTip' = caseTip
  BY DEF CancelOpenTasks, At
<1>3. call[s].op = "cancel_case"
  BY <1>1, <1>2 DEF CallIsSound, Operations
<1>4. c \in Cases /\ \A t \in TasksOf(c) : t \in Tasks /\ t \in Rows
  BY <1>1, <1>3, RowsAreApart DEF CallIsSound, CaseOps
<1>5. todo \subseteq TasksOf(c) /\ \A t \in TasksOf(c) : lock[t] = s => ~IsOpen(taskTip[t])
  BY <1>1, <1>2 DEF CallIsSound, CancelIsSound
<1>6. lock[Template] # s
  BY <1>1, <1>2, <1>4, RowsAreApart, WhatMayBeHeld DEF CallIsSound, RowsOf
<1>7. task' = task /\ case'[c] = "in_progress" /\ caseTip'[c] = "cancelled"
  BY <1>1, <1>2, <1>3 DEF CancelIsAMove, committed
<1>8. WorkflowInvariant'
  BY <1>1, CancelOpenTasksKeeps
<1>9. ASSUME NEW k, call' = [call EXCEPT ![s] = k], k.op = call[s].op, k.c = call[s].c,
             k.pc \in {"cancel_tasks", "commit"},
             NEW rows, Take(s, rows), \A row \in rows : CanLock(s, row) /\ row # Template,
             \A u \in Tasks : u \in rows \/ taskTip'[u] = taskTip[u], TaskMoves'
      PROVE  LifeInvariant'
  <2>1. call'[s] = k /\ k.op = "cancel_case" /\ k.c = c
    BY <1>1, <1>3, <1>9
  <2> HIDE DEF c, todo
  <2>2. lock'[Template] # s
    BY <1>6, <1>9, RowsAreApart DEF Take
  <2>3. CallMoves(s)'
    BY <1>7, <2>1, <2>2 DEF CallMoves, EditIsAllowed, StartIsAMove, EndingIsAMove, CancelIsAMove
  <2>4. \A d \in Cases : d \in rows \/ caseTip'[d] = caseTip[d]
    BY <1>2
  <2>5. \A row \in rows : CanLock(s, row)
    BY <1>9
  <2> QED
    BY <1>2, <1>8, <1>9, <2>3, <2>4, <2>5, CaseStatementsMove, ZenonT(60)
<1>10. CASE todo = {} /\ Goto(s, "commit") /\ UNCHANGED <<taskTip, lock>>
  <2>1. PICK k \in Call :
          /\ call' = [call EXCEPT ![s] = k] /\ call'[s] = k
          /\ k.pc = "commit" /\ k.op = call[s].op /\ k.c = call[s].c /\ k.t = call[s].t /\ k.st = call[s].st
    BY <1>1, <1>10, GotoIsACall DEF Points
  <2>2. PICK rows : rows = {}
    OBVIOUS
  <2>3. Take(s, rows) /\ \A row \in rows : CanLock(s, row) /\ row # Template
    BY <1>1, <1>10, <2>2 DEF Take, TypeOK
  <2>4. TaskMoves' /\ \A u \in Tasks : u \in rows \/ taskTip'[u] = taskTip[u]
    BY <1>1, <1>7, <1>10 DEF TaskMoves
  <2> QED
    BY <1>9, <2>1, <2>3, <2>4
<1>11. ASSUME NEW t \in todo, CanLock(s, t), call' = [call EXCEPT ![s].todo = @ \ {t}],
              IF IsOpen(taskTip[t])
              THEN taskTip' = [taskTip EXCEPT ![t].status = "ended"] /\ Take(s, {t})
              ELSE UNCHANGED <<taskTip, lock>>
       PROVE  LifeInvariant'
  <2>1. t \in TasksOf(c) /\ t \in Tasks /\ t # Template /\ taskTip \in [Tasks -> TaskRow] /\ taskTip[t] \in TaskRow
    BY <1>1, <1>4, <1>5, <1>11, RowsAreApart DEF TypeOK
  <2>2. PICK k : k = [call[s] EXCEPT !.todo = todo \ {t}]
    OBVIOUS
  <2>3. call' = [call EXCEPT ![s] = k] /\ k.op = call[s].op /\ k.c = call[s].c /\ k.pc = "cancel_tasks"
    BY <1>1, <1>2, <1>11, <2>2 DEF Call
  <2>4. CASE IsOpen(taskTip[t])
    <3>1. taskTip' = [taskTip EXCEPT ![t].status = "ended"] /\ Take(s, {t})
      BY <1>11, <2>4
    <3>2. PICK row : row = [taskTip[t] EXCEPT !.status = "ended"]
      OBVIOUS
    <3>3. row.status = "ended" /\ row.step = taskTip[t].step
      BY <2>1, <3>2 DEF TaskRow
    <3>4. taskTip'[t] = row /\ \A u \in Tasks : u # t => taskTip'[u] = taskTip[u]
      BY <2>1, <3>1, <3>2
    <3>5. lock[t] = Free
      BY <1>5, <1>11, <2>1, <2>4 DEF CanLock
    <3>6. taskTip[t] = task[t]
      BY <1>1, <2>1, <3>5 DEF WorkflowInvariant, TablesAreSound, UnlockedIsCommitted
    <3>7. TaskMoves'
      BY <1>1, <1>7, <2>4, <3>3, <3>4, <3>6 DEF TaskMoves
    <3>8. PICK rows : rows = {t}
      OBVIOUS
    <3>9. /\ Take(s, rows) /\ \A r \in rows : CanLock(s, r) /\ r # Template
          /\ \A u \in Tasks : u \in rows \/ taskTip'[u] = taskTip[u]
      BY <1>11, <2>1, <3>1, <3>4, <3>8
    <3> HIDE DEF todo, c
    <3> QED
      BY <1>9, <2>3, <3>7, <3>9
  <2>5. CASE ~IsOpen(taskTip[t])
    <3>1. UNCHANGED <<taskTip, lock>>
      BY <1>11, <2>5
    <3>2. PICK rows : rows = {}
      OBVIOUS
    <3>3. Take(s, rows) /\ \A row \in rows : CanLock(s, row) /\ row # Template
      BY <1>1, <3>1, <3>2 DEF Take, TypeOK
    <3>4. TaskMoves' /\ \A u \in Tasks : u \in rows \/ taskTip'[u] = taskTip[u]
      BY <1>1, <1>7, <3>1 DEF TaskMoves
    <3> HIDE DEF todo, c
    <3> QED
      BY <1>9, <2>3, <3>3, <3>4
  <2> QED
    BY <2>4, <2>5
<1> QED
  BY <1>10, <1>11 DEF CancelOpenTasks

\* The steps or the template are written by who has found it not deleted, and changed
\* so that the steps of a running case keep their order.
LEMMA TemplateStatementsMove ==
  ASSUME LifeInvariant, NEW s \in Sessions, UNCHANGED committed,
         call[s].op \in StepOps \cup TemplateOps,
         CanLock(s, Template), Take(s, {Template}), Goto(s, "commit"), caseTip' = caseTip, taskTip' = taskTip,
         call[s].op \notin TemplateOps => ~template.deleted,
         call[s].op = "reorder_steps" => \A c \in Cases : ~Running(c),
         WorkflowInvariant', DeletedForGood', StepsWereMade', PastIsBehind'
  PROVE  LifeInvariant'
<1>1. WorkflowInvariant /\ TypeOK /\ TaskMoves
  BY DEF LifeInvariant, WorkflowInvariant
<1>2. template' = template /\ step' = step /\ case' = case /\ task' = task
  BY DEF committed
<1>3. PICK k \in Call :
        /\ call' = [call EXCEPT ![s] = k] /\ call'[s] = k
        /\ k.pc = "commit" /\ k.op = call[s].op /\ k.c = call[s].c /\ k.t = call[s].t /\ k.st = call[s].st
  BY <1>1, GotoIsACall DEF Points
<1>4. \A r \in Sessions \ {s} : call'[r] = call[r]
  BY <1>1, <1>3 DEF TypeOK
<1>5. PICK rows : rows = {Template}
  OBVIOUS
<1>6. Touches(s, rows)
  BY <1>4, <1>5 DEF Touches
<1>7. TaskMoves'
  BY <1>1, <1>2 DEF TaskMoves
<1>8. EditIsAllowed(s)'
  BY <1>2, <1>3 DEF EditIsAllowed, Running
<1>9. k.op \notin CaseOps
  BY <1>3 DEF StepOps, TemplateOps, CaseOps
<1>10. CallMoves(s)'
  BY <1>3, <1>8, <1>9 DEF CallMoves, StartIsAMove, EndingIsAMove, CancelIsAMove, CaseOps
<1> QED
  BY <1>6, <1>7, <1>10, MovesKeep, ZenonT(60)

\* Edits that make no step of a task live again and keep the order of those that stay.
LEMMA EditsKeepTheOrder ==
  ASSUME LifeInvariant, UNCHANGED committed, WorkflowInvariant',
         NEW new, stepTip' = new,
         \A st \in Live(new) : step[st].state # "absent" => st \in Live(step),
         \A u, v \in Live(step) : u \in Live(new) /\ v \in Live(new) /\ step[u].order < step[v].order =>
           new[u].order < new[v].order
  PROVE  PastIsBehind'
<1>1. step' = step /\ task' = task
  BY DEF committed
<1>2. SUFFICES ASSUME NEW c \in Cases, NEW t \in OpenTasks(c), NEW u \in EndedTasks(c)
               PROVE  Behind(step, task[u].step, task[t].step) /\ Behind(new, task[u].step, task[t].step)
  BY <1>1 DEF PastIsBehind, OpenTasks, EndedTasks, Behind, Live
<1>3. Behind(step, task[u].step, task[t].step)
  BY DEF LifeInvariant, PastIsBehind
<1>4. t \in Tasks /\ u \in Tasks /\ IsOpen(task[t]) /\ task[u].status # "absent"
  BY RowsAreApart DEF OpenTasks, EndedTasks
<1>5. task[t].step \in Live(step) /\ task[t].step \in Live(new)
  BY <1>1, <1>4 DEF LifeInvariant, WorkflowInvariant, TablesAreSound, Live
<1>6. task[u].step \in Live(new) => task[u].step \in Live(step)
  BY <1>4 DEF LifeInvariant, StepsWereMade
<1> QED
  BY <1>3, <1>5, <1>6 DEF Behind

\* Positions are numbers, and steps have positions of their own.
LEMMA PositionsDiffer ==
  ASSUME LifeInvariant
  PROVE  /\ \A u \in Live(step) : step[u].order \in Nat
         /\ \A u, v \in Live(step) : step[u].order = step[v].order => u = v
<1>1. step \in [Steps -> StepRow] /\ Numbered(step)
  BY DEF LifeInvariant, WorkflowInvariant, TypeOK, TablesAreSound
<1>2. \A u \in Live(step) : u \in Steps
  BY DEF Live
<1> QED
  BY <1>1, <1>2 DEF Numbered, StepRow

\* add_step: the steps from the position on move together.
LEMMA AddStepMoves ==
  ASSUME LifeInvariant, NEW s \in Sessions, AddStep(s)
  PROVE  LifeInvariant'
<1> DEFINE st == call[s].st
<1>1. /\ call[s].pc = "lock_template" /\ call[s].op = "add_step" /\ UNCHANGED committed
      /\ template.deleted \/ CanLock(s, Template)
  BY DEF AddStep, GetTemplate, At
<1>2. CASE template.deleted
  BY <1>1, <1>2, RollbackMoves DEF AddStep
<1>3. CASE ~template.deleted
  <2>1. PICK position \in 1 .. Cardinality(Live(step)) + 1 :
          WriteSteps(s, [Moved(step, position, 1) EXCEPT ![st] = [state |-> "live", order |-> position]])
    BY <1>3 DEF AddStep
  <2>2. WorkflowInvariant
    BY DEF LifeInvariant
  <2>3. st \in Steps /\ step[st].state = "absent"
    BY <1>1, <2>2 DEF WorkflowInvariant, CallsAreSound, CallIsSound, FreshIsFresh
  <2>4. step \in [Steps -> StepRow] /\ Numbered(step)
    BY <2>2 DEF WorkflowInvariant, TypeOK, TablesAreSound
  <2>5. stepTip' = With(st, position, step)
    BY <2>1 DEF WriteSteps, With
  <2> HIDE DEF st
  <2>6. PICK new : new = stepTip'
    OBVIOUS
  <2>7. Live(new) = Live(step) \cup {st} /\ PutIn(st, position, step, new)
    BY <2>3, <2>4, <2>5, <2>6, AddKeepsNumbers
  <2>8. WorkflowInvariant'
    BY <2>2, AddStepKeeps
  <2>9. position \in Nat
    BY LiveIsFinite
  <2>10. PastIsBehind'
    <3>1. \A u \in Live(new) : step[u].state # "absent" => u \in Live(step)
      BY <2>3, <2>7
    <3>2. ASSUME NEW u \in Live(step), NEW v \in Live(step), step[u].order < step[v].order
          PROVE  new[u].order < new[v].order
      BY <2>7, <2>9, <3>2, PositionsDiffer DEF PutIn
    <3> QED
      BY <1>1, <2>6, <2>8, <3>1, <3>2, EditsKeepTheOrder
  <2>11. Take(s, {Template}) /\ Goto(s, "commit") /\ templateTip' = templateTip /\ caseTip' = caseTip /\ taskTip' = taskTip
    BY <2>1 DEF WriteSteps
  <2>12. DeletedForGood' /\ StepsWereMade'
    <3>1. template' = template /\ step' = step /\ task' = task
      BY <1>1 DEF committed
    <3>2. stepTip = step
      BY <1>1, <1>3, <2>2, NothingHeldAtFirst
    <3>3. \A u \in Steps : stepTip'[u].state = "absent" => step[u].state = "absent"
      BY <2>3, <2>6, <2>7 DEF PutIn
    <3> QED
      BY <2>11, <3>1, <3>3 DEF LifeInvariant, DeletedForGood, StepsWereMade
  <2>13. call[s].op \in StepOps /\ call[s].op # "reorder_steps"
    BY <1>1 DEF StepOps
  <2> QED
    BY <1>1, <1>3, <2>8, <2>10, <2>11, <2>12, <2>13, TemplateStatementsMove
<1> QED
  BY <1>2, <1>3

\* reorder_steps: no case runs that could come back to a step.
LEMMA ReorderStepsMoves ==
  ASSUME LifeInvariant, NEW s \in Sessions, ReorderSteps(s)
  PROVE  LifeInvariant'
<1>1. /\ call[s].pc = "lock_template" /\ call[s].op = "reorder_steps" /\ UNCHANGED committed
      /\ template.deleted \/ CanLock(s, Template)
  BY DEF ReorderSteps, GetTemplate, At
<1>2. CASE template.deleted \/ \E c \in Cases : Running(c)
  BY <1>1, <1>2, RollbackMoves DEF ReorderSteps
<1>3. CASE ~(template.deleted \/ \E c \in Cases : Running(c))
  <2>1. PICK position \in Bijection(Live(step), 1 .. Cardinality(Live(step))) :
          WriteSteps(s, [st \in Steps |-> IF st \in Live(step) THEN [step[st] EXCEPT !.order = position[st]]
                                          ELSE step[st]])
    BY <1>3 DEF ReorderSteps, Reordered
  <2>2. WorkflowInvariant /\ step \in [Steps -> StepRow]
    BY DEF LifeInvariant, WorkflowInvariant, TypeOK
  <2>3. stepTip' = [st \in Steps |-> IF st \in Live(step) THEN [step[st] EXCEPT !.order = position[st]]
                                     ELSE step[st]]
    BY <2>1 DEF WriteSteps
  <2>4. \A u \in Steps : stepTip'[u].state = step[u].state
    BY <2>2, <2>3, ReorderKeepsNumbers
  <2>5. WorkflowInvariant'
    BY <2>2, ReorderStepsKeeps
  <2>6. template' = template /\ step' = step /\ task' = task
    BY <1>1 DEF committed
  <2>7. PastIsBehind'
    <3>1. \A c \in Cases : OpenTasks(c) = {}
      BY <1>3, <2>2 DEF WorkflowInvariant, TablesAreSound, Sits, Running
    <3>2. \A c \in Cases : OpenTasks(c)' = {}
      BY <2>6, <3>1 DEF OpenTasks
    <3> QED
      BY <3>2 DEF PastIsBehind
  <2>8. Take(s, {Template}) /\ Goto(s, "commit") /\ templateTip' = templateTip /\ caseTip' = caseTip /\ taskTip' = taskTip
    BY <2>1 DEF WriteSteps
  <2>9. DeletedForGood' /\ StepsWereMade'
    BY <2>4, <2>6, <2>8 DEF LifeInvariant, DeletedForGood, StepsWereMade
  <2>10. call[s].op \in StepOps
    BY <1>1 DEF StepOps
  <2> QED
    BY <1>1, <1>3, <2>5, <2>7, <2>8, <2>9, <2>10, TemplateStatementsMove
<1> QED
  BY <1>2, <1>3

\* delete_step: the later steps move together.
LEMMA DeleteStepMoves ==
  ASSUME LifeInvariant, NEW s \in Sessions, DeleteStep(s)
  PROVE  LifeInvariant'
<1> DEFINE st == call[s].st
<1>1. /\ call[s].pc = "lock_template" /\ call[s].op = "delete_step" /\ UNCHANGED committed
      /\ template.deleted \/ CanLock(s, Template)
  BY DEF DeleteStep, GetTemplate, At
<1>2. CASE template.deleted \/ step[st].state # "live" \/ InUse(st)
  BY <1>1, <1>2, RollbackMoves DEF DeleteStep
<1>3. CASE ~(template.deleted \/ step[st].state # "live" \/ InUse(st))
  <2>1. WriteSteps(s, Without(st))
    BY <1>3 DEF DeleteStep
  <2>2. WorkflowInvariant
    BY DEF LifeInvariant
  <2>3. st \in Steps
    BY <1>1, <2>2 DEF WorkflowInvariant, CallsAreSound, CallIsSound
  <2>4. step \in [Steps -> StepRow] /\ Numbered(step)
    BY <2>2 DEF WorkflowInvariant, TypeOK, TablesAreSound
  <2>5. st \in Live(step)
    BY <1>3, <2>3 DEF Live
  <2>6. stepTip' = Without(st)
    BY <2>1 DEF WriteSteps
  <2> HIDE DEF st
  <2>7. PICK new : new = stepTip'
    OBVIOUS
  <2>8. Live(new) = Live(step) \ {st} /\ TakenOut(st, step[st].order, step, new)
    BY <2>4, <2>5, <2>6, <2>7, DeleteKeepsNumbers
  <2>9. WorkflowInvariant'
    BY <2>2, DeleteStepKeeps
  <2>10. PastIsBehind'
    <3>1. \A u \in Live(new) : step[u].state # "absent" => u \in Live(step)
      BY <2>8
    <3>2. ASSUME NEW u \in Live(step), NEW v \in Live(step), u \in Live(new), v \in Live(new),
                 step[u].order < step[v].order
          PROVE  new[u].order < new[v].order
      <4>1. PICK p \in Nat : p = step[st].order
        BY <2>5, PositionsDiffer
      <4>2. u # st /\ v # st /\ step[u].order # p /\ step[v].order # p
        BY <2>5, <2>8, <3>2, <4>1, PositionsDiffer
      <4>3. step[u].order \in Nat /\ step[v].order \in Nat
        BY PositionsDiffer
      <4> QED
        BY <2>8, <3>2, <4>1, <4>2, <4>3 DEF TakenOut
    <3> QED
      BY <1>1, <2>7, <2>9, <3>1, <3>2, EditsKeepTheOrder
  <2>11. Take(s, {Template}) /\ Goto(s, "commit") /\ templateTip' = templateTip /\ caseTip' = caseTip /\ taskTip' = taskTip
    BY <2>1 DEF WriteSteps
  <2>12. DeletedForGood' /\ StepsWereMade'
    <3>1. template' = template /\ step' = step /\ task' = task
      BY <1>1 DEF committed
    <3>2. \A u \in Steps : stepTip'[u].state = "absent" => step[u].state = "absent"
      BY <2>7, <2>8 DEF TakenOut
    <3> QED
      BY <2>11, <3>1, <3>2 DEF LifeInvariant, DeletedForGood, StepsWereMade
  <2>13. call[s].op \in StepOps /\ call[s].op # "reorder_steps"
    BY <1>1 DEF StepOps
  <2> QED
    BY <1>1, <1>3, <2>9, <2>10, <2>11, <2>12, <2>13, TemplateStatementsMove
<1> QED
  BY <1>2, <1>3

\* delete_template, archive_template and unarchive_template: what is deleted stays so.
LEMMA WriteTemplateMoves ==
  ASSUME LifeInvariant, NEW s \in Sessions, WriteTemplate(s)
  PROVE  LifeInvariant'
<1>1. WorkflowInvariant
  BY DEF LifeInvariant
<1>2. /\ call[s].pc = "write_template" /\ UNCHANGED committed /\ CanLock(s, Template)
      /\ Take(s, {Template}) /\ Goto(s, "commit") /\ stepTip' = stepTip /\ caseTip' = caseTip /\ taskTip' = taskTip
      /\ templateTip'.deleted = (templateTip.deleted \/ call[s].op = "delete_template")
  BY DEF WriteTemplate, At
<1>3. call[s].op \in TemplateOps
  BY <1>1, <1>2 DEF WorkflowInvariant, CallsAreSound, CallIsSound, Operations
<1>4. template' = template /\ step' = step /\ task' = task
  BY <1>2 DEF committed
<1>5. DeletedForGood' /\ StepsWereMade'
  BY <1>2, <1>4 DEF LifeInvariant, DeletedForGood, StepsWereMade
<1>6. PastIsBehind'
  BY <1>2, <1>4 DEF LifeInvariant, PastIsBehind, OpenTasks, EndedTasks, Behind, Live
<1>7. WorkflowInvariant'
  BY <1>1, WriteTemplateKeeps
<1>8. call[s].op # "reorder_steps"
  BY <1>3 DEF TemplateOps
<1> QED
  BY <1>2, <1>3, <1>5, <1>6, <1>7, <1>8, TemplateStatementsMove

(***************************************************************************)
(* What a commit publishes                                                 *)
(***************************************************************************)
\* The steps behind case c are now those that were and the one task t was on.
LeavesBehind(c, t) ==
  /\ OpenTasks(c) = {t}
  /\ EndedTasks(c)' = EndedTasks(c) \cup {t}
  /\ \A u \in EndedTasks(c)' : task'[u].step = task[u].step

Begins(c) ==
  /\ case[c] = "absent" /\ case'[c] = "in_progress"
  /\ OpenTasks(c) = {} /\ EndedTasks(c) = {} /\ EndedTasks(c)' = {}
  /\ \E u \in TasksOf(c) : OpenTasks(c)' = {u} /\ task'[u].step \in Live(step)

GoesOn(c) ==
  /\ case[c] = "in_progress" /\ case'[c] = "in_progress"
  /\ \E t, u \in TasksOf(c) :
       /\ LeavesBehind(c, t) /\ OpenTasks(c)' = {u}
       /\ StepsAfter(task[t].step) # {} /\ task'[u].step = First(StepsAfter(task[t].step))
       /\ stepTip = step

IsOver(c) ==
  /\ case[c] = "in_progress" /\ case'[c] \in {"completed", "cancelled"}
  /\ OpenTasks(c)' = {}
  /\ \E t \in TasksOf(c) :
       /\ LeavesBehind(c, t)
       /\ case'[c] = "completed" => StepsAfter(task[t].step) = {}

StaysAsItIs(c) == case'[c] = case[c] /\ \A t \in TasksOf(c) : task'[t] = task[t]

\* A task of c that is open no longer is the step it leaves behind.
LEMMA TheOpenTaskIsLeftBehind ==
  ASSUME LifeInvariant, NEW c \in Cases, NEW t, OpenTasks(c) = {t}, ~IsOpen(task'[t]),
         \A u \in TasksOf(c) :
           \/ task'[u] = task[u]
           \/ task[u].status = "absent" /\ IsOpen(task'[u])
           \/ IsOpen(task[u]) /\ task'[u].status = "ended" /\ task'[u].step = task[u].step
  PROVE  t \in TasksOf(c) /\ LeavesBehind(c, t)
<1>1. t \in TasksOf(c) /\ IsOpen(task[t])
  BY DEF OpenTasks
<1>2. task'[t].status = "ended" /\ task'[t].step = task[t].step
  BY <1>1 DEF IsOpen
<1>3. ASSUME NEW u \in TasksOf(c)
      PROVE  /\ task'[u].status = "ended" <=> task[u].status = "ended" \/ u = t
             /\ task'[u].status = "ended" => task'[u].step = task[u].step
  <2>1. CASE u = t
    BY <1>2, <2>1
  <2>2. CASE u # t
    <3>1. ~IsOpen(task[u])
      BY <2>2 DEF OpenTasks
    <3> QED
      BY <2>2, <3>1 DEF IsOpen
  <2> QED
    BY <2>1, <2>2
<1>4. EndedTasks(c)' = EndedTasks(c) \cup {t}
  BY <1>1, <1>3 DEF EndedTasks
<1>5. \A u \in EndedTasks(c)' : task'[u].step = task[u].step
  BY <1>3 DEF EndedTasks
<1> QED
  BY <1>1, <1>4, <1>5 DEF LeavesBehind

\* The commit of a case's transaction: one move of that case, and nothing else.
LEMMA CaseCommits ==
  ASSUME LifeInvariant, NEW s \in Sessions, Commit(s), call[s].op \in CaseOps
  PROVE  /\ step' = step
         /\ \E c \in Cases :
              /\ \A d \in Cases \ {c} : StaysAsItIs(d)
              /\ (Begins(c) /\ lock[Template] = s) \/ GoesOn(c) \/ IsOver(c)
<1>1. WorkflowInvariant /\ CallIsSound(s) /\ TypeOK /\ TaskMoves /\ CallMoves(s) /\ call[s].pc = "commit"
  BY DEF LifeInvariant, WorkflowInvariant, CallsAreSound, Commit
<1>2. PICK c \in Cases : c = call[s].c
  BY <1>1 DEF CallIsSound
<1>3. /\ lock[c] = s /\ caseTip[c] # "absent"
      /\ Sits(caseTip[c], {t \in TasksOf(c) : IsOpen(Becomes(s, t))})
  BY <1>1, <1>2 DEF CallIsSound, CommitIsSound
<1>4. /\ \A d \in Cases : case'[d] = IF lock[d] = s THEN caseTip[d] ELSE case[d]
      /\ \A t \in Tasks : task'[t] = Becomes(s, t)
      /\ step' = IF lock[Template] = s THEN stepTip ELSE step
  BY DEF Commit, Newest, Becomes
<1>5. call[s].op \notin StepOps
  BY DEF CaseOps, StepOps
<1>6. lock[Template] = s => stepTip = step
  BY <1>1, <1>5 DEF CallIsSound, TemplateIsSound
<1>7. step' = step
  BY <1>4, <1>6
<1>8. ASSUME NEW d \in Cases \ {c} PROVE StaysAsItIs(d)
  <2>1. lock[d] # s /\ \A t \in TasksOf(d) : lock[t] # s /\ t \in Tasks
    BY <1>1, <1>2, HoldersKnowTheCase, RowsAreApart
  <2> QED
    BY <1>4, <2>1 DEF StaysAsItIs, Becomes
<1>9. case'[c] = caseTip[c] /\ Sits(case'[c], OpenTasks(c)')
  <2>1. OpenTasks(c)' = {t \in TasksOf(c) : IsOpen(Becomes(s, t))}
    BY <1>3, <1>4, RowsAreApart DEF OpenTasks
  <2>2. case'[c] = caseTip[c]
    BY <1>3, <1>4
  <2> QED
    BY <1>3, <2>1, <2>2
<1>10. \A u \in TasksOf(c) :
        \/ task'[u] = task[u]
        \/ task[u].status = "absent" /\ IsOpen(task'[u])
        \/ IsOpen(task[u]) /\ task'[u].status = "ended" /\ task'[u].step = task[u].step
  BY <1>1, <1>3, <1>4, RowsAreApart DEF TaskMoves, Becomes
<1>11. \A u \in TasksOf(c) : IsOpen(task'[u]) /\ ~IsOpen(task[u]) =>
         lock[u] = s /\ IsOpen(taskTip[u]) /\ taskTip[u] = task'[u] /\ lock[Template] = s /\ task'[u].step \in Live(step)
  <2> SUFFICES ASSUME NEW u \in TasksOf(c), IsOpen(task'[u]), ~IsOpen(task[u])
               PROVE  lock[u] = s /\ IsOpen(taskTip[u]) /\ taskTip[u] = task'[u] /\ lock[Template] = s /\ task'[u].step \in Live(step)
    OBVIOUS
  <2>1. u \in Tasks /\ lock[u] = s /\ taskTip[u] = task'[u]
    BY <1>3, <1>4, RowsAreApart DEF Becomes
  <2>2. lock[u] # Free
    BY <2>1, WorkflowAssumption
  <2> QED
    BY <1>1, <2>1, <2>2 DEF WorkflowInvariant, TablesAreSound, HeldTasksAreSound
<1>12. Sits(case[c], OpenTasks(c)) /\ (case[c] = "absent" => \A t \in TasksOf(c) : task[t].status = "absent")
  BY <1>1, <1>3 DEF WorkflowInvariant, TablesAreSound
<1>13. CASE call[s].op = "start"
  <2>1. lock[Template] = s /\ case[c] = "absent" /\ case'[c] = "in_progress"
    BY <1>1, <1>2, <1>9, <1>13 DEF CallMoves, StartIsAMove
  <2>2. \A t \in TasksOf(c) : task[t].status = "absent"
    BY <1>12, <2>1
  <2>3. OpenTasks(c) = {} /\ EndedTasks(c) = {}
    BY <2>2 DEF OpenTasks, EndedTasks, IsOpen
  <2>4. EndedTasks(c)' = {}
    BY <1>10, <2>2 DEF EndedTasks, IsOpen
  <2>5. PICK u \in TasksOf(c) : OpenTasks(c)' = {u} /\ IsOpen(task'[u])
    <3>1. PICK u : OpenTasks(c)' = {u}
      BY <1>9, <2>1 DEF Sits
    <3> QED
      BY <3>1 DEF OpenTasks
  <2>6. task'[u].step \in Live(step)
    BY <1>11, <2>2, <2>5 DEF IsOpen
  <2> QED
    BY <1>3, <1>7, <1>8, <2>1, <2>3, <2>4, <2>5, <2>6 DEF Begins
<1>14. CASE call[s].op = "end_task"
  <2>1. PICK t : t = call[s].t
    OBVIOUS
  <2>2. PICK after : after = StepsAfter(task[t].step)
    OBVIOUS
  <2>3. /\ case[c] = "in_progress" /\ lock[t] = s /\ IsOpen(task[t]) /\ taskTip[t].status = "ended"
        /\ \/ caseTip[c] = "completed" /\ after = {}
           \/ /\ caseTip[c] = "in_progress" /\ after # {}
              /\ \A u \in TasksOf(c) : lock[u] = s /\ IsOpen(taskTip[u]) => taskTip[u].step = First(after)
    BY <1>1, <1>2, <1>14, <2>1, <2>2 DEF CallMoves, EndingIsAMove
  <2>4. t \in TasksOf(c) /\ t \in Tasks
    BY <1>1, <1>2, <1>14, <2>1, RowsAreApart DEF CallIsSound, EndingIsSound
  <2>5. OpenTasks(c) = {t}
    <3>1. t \in OpenTasks(c)
      BY <2>3, <2>4 DEF OpenTasks
    <3> QED
      BY <1>12, <2>3, <3>1 DEF Sits
  <2>6. ~IsOpen(task'[t])
    BY <1>4, <2>3, <2>4 DEF Becomes, IsOpen
  <2>7. LeavesBehind(c, t)
    BY <1>3, <1>10, <2>5, <2>6, TheOpenTaskIsLeftBehind
  <2>8. CASE caseTip[c] = "completed" /\ after = {}
    <3>1. OpenTasks(c)' = {}
      BY <1>9, <2>8 DEF Sits
    <3>2. IsOver(c)
      BY <1>9, <2>3, <2>4, <2>2, <2>7, <2>8, <3>1 DEF IsOver
    <3> QED
      BY <1>3, <1>7, <1>8, <3>2
  <2>9. CASE /\ caseTip[c] = "in_progress" /\ after # {}
             /\ \A u \in TasksOf(c) : lock[u] = s /\ IsOpen(taskTip[u]) => taskTip[u].step = First(after)
    <3>1. PICK u \in TasksOf(c) : OpenTasks(c)' = {u} /\ IsOpen(task'[u])
      <4>1. PICK u : OpenTasks(c)' = {u}
        BY <1>9, <2>9 DEF Sits
      <4> QED
        BY <4>1 DEF OpenTasks
    <3>2. ~IsOpen(task[u])
      BY <2>5, <2>6, <3>1 DEF OpenTasks
    <3>3. task'[u].step = First(after) /\ stepTip = step
      BY <1>6, <1>11, <2>9, <3>1, <3>2
    <3>4. GoesOn(c)
      BY <1>9, <2>3, <2>4, <2>2, <2>7, <2>9, <3>1, <3>3 DEF GoesOn
    <3> QED
      BY <1>3, <1>7, <1>8, <3>4
  <2> QED
    BY <2>3, <2>8, <2>9
<1>15. CASE call[s].op = "cancel_case"
  <2>1. case[c] = "in_progress" /\ case'[c] = "cancelled"
    BY <1>1, <1>2, <1>9, <1>15 DEF CallMoves, CancelIsAMove
  <2>2. OpenTasks(c)' = {}
    BY <1>9, <2>1 DEF Sits
  <2>3. PICK t : OpenTasks(c) = {t}
    BY <1>12, <2>1 DEF Sits
  <2>4. ~IsOpen(task'[t])
    BY <2>2, <2>3 DEF OpenTasks
  <2>5. t \in TasksOf(c) /\ LeavesBehind(c, t)
    BY <1>3, <1>10, <2>3, <2>4, TheOpenTaskIsLeftBehind
  <2>6. IsOver(c)
    BY <2>1, <2>2, <2>5 DEF IsOver
  <2> QED
    BY <1>3, <1>7, <1>8, <2>6
<1> QED
  BY <1>13, <1>14, <1>15 DEF CaseOps

\* The commit of an edit of the template: no case moves.
LEMMA EditCommits ==
  ASSUME LifeInvariant, NEW s \in Sessions, Commit(s), call[s].op \notin CaseOps
  PROVE  \A c \in Cases : StaysAsItIs(c)
<1>1. WorkflowInvariant
  BY DEF LifeInvariant
<1>2. ASSUME NEW c \in Cases PROVE StaysAsItIs(c)
  <2>1. lock[c] # s /\ \A t \in TasksOf(c) : lock[t] # s /\ t \in Tasks
    BY <1>1, HoldersKnowTheCase, RowsAreApart
  <2> QED
    BY <2>1 DEF StaysAsItIs, Commit, Newest
<1> QED
  BY <1>2

\* The step a case goes on with lies ahead of all it has left.
LEMMA WhatComesNextIsAhead ==
  ASSUME LifeInvariant, NEW c \in Cases, NEW t \in TasksOf(c), NEW next,
         LeavesBehind(c, t), StepsAfter(task[t].step) # {}, next = First(StepsAfter(task[t].step))
  PROVE  next \in Live(step) /\ \A v \in EndedTasks(c)' : Behind(step, task[v].step, next)
<1>1. t \in Tasks /\ t \in OpenTasks(c) /\ IsOpen(task[t])
  BY RowsAreApart DEF LeavesBehind, OpenTasks
<1>2. PICK st \in Live(step) : st = task[t].step
  BY <1>1 DEF LifeInvariant, WorkflowInvariant, TablesAreSound
<1>3. next \in Live(step) /\ step[next].order > step[st].order
  <2>1. WorkflowInvariant /\ st \in Steps /\ next = First(StepsAfter(st)) /\ StepsAfter(st) # {}
    BY <1>2, LiveIsFinite DEF LifeInvariant
  <2>2. next \in StepsAfter(st)
    BY <1>2, <2>1, FirstIsThere
  <2> QED
    BY <2>2 DEF StepsAfter
<1>4. ASSUME NEW v \in EndedTasks(c)' PROVE Behind(step, task[v].step, next)
  <2>1. CASE v = t
    BY <1>2, <1>3, <2>1, PositionsDiffer DEF Behind
  <2>2. CASE v # t
    <3>1. v \in EndedTasks(c)
      BY <1>4, <2>2 DEF LeavesBehind
    <3>2. Behind(step, task[v].step, st)
      BY <1>1, <1>2, <3>1 DEF LifeInvariant, PastIsBehind
    <3> QED
      BY <1>2, <1>3, <3>2, PositionsDiffer DEF Behind
  <2> QED
    BY <2>1, <2>2
<1> QED
  BY <1>3, <1>4

\* The order of the steps survives a commit.
LEMMA CommitKeepsTheOrder ==
  ASSUME LifeInvariant, NEW s \in Sessions, Commit(s)
  PROVE  PastIsBehind'
<1>1. stepTip' = stepTip /\ (step' = step \/ step' = stepTip)
  BY DEF Commit, Newest, tips
<1>2. ASSUME NEW d \in Cases, StaysAsItIs(d), NEW t \in OpenTasks(d)', NEW u \in EndedTasks(d)'
      PROVE  Behind(step, task[u].step, task[t].step)' /\ Behind(stepTip, task[u].step, task[t].step)'
  <2>1. t \in OpenTasks(d) /\ u \in EndedTasks(d) /\ task'[t] = task[t] /\ task'[u] = task[u]
    BY <1>2 DEF StaysAsItIs, OpenTasks, EndedTasks
  <2>2. Behind(step, task[u].step, task[t].step) /\ Behind(stepTip, task[u].step, task[t].step)
    BY <2>1 DEF LifeInvariant, PastIsBehind
  <2> QED
    BY <1>1, <2>1, <2>2 DEF Behind, Live
<1>3. CASE call[s].op \notin CaseOps
  BY <1>2, <1>3, EditCommits DEF PastIsBehind
<1>4. CASE call[s].op \in CaseOps
  <2>1. PICK c \in Cases :
          /\ \A d \in Cases \ {c} : StaysAsItIs(d)
          /\ Begins(c) \/ GoesOn(c) \/ IsOver(c)
    BY <1>4, CaseCommits
  <2>2. step' = step
    BY <1>4, CaseCommits
  <2>3. ASSUME NEW x \in OpenTasks(c)', NEW v \in EndedTasks(c)'
        PROVE  Behind(step, task[v].step, task[x].step)' /\ Behind(stepTip, task[v].step, task[x].step)'
    <3>1. GoesOn(c)
      BY <2>1, <2>3 DEF Begins, IsOver
    <3>2. PICK t, u \in TasksOf(c) :
            /\ LeavesBehind(c, t) /\ OpenTasks(c)' = {u}
            /\ StepsAfter(task[t].step) # {} /\ task'[u].step = First(StepsAfter(task[t].step))
            /\ stepTip = step
      BY <3>1 DEF GoesOn
    <3>3. PICK next : next = First(StepsAfter(task[t].step))
      OBVIOUS
    <3>4. Behind(step, task[v].step, next)
      BY <2>3, <3>2, <3>3, WhatComesNextIsAhead
    <3>5. x = u /\ task'[x].step = next /\ task'[v].step = task[v].step
      BY <2>3, <3>2, <3>3 DEF LeavesBehind
    <3> QED
      BY <1>1, <2>2, <3>2, <3>4, <3>5 DEF Behind, Live
  <2> QED
    BY <1>2, <2>1, <2>3 DEF PastIsBehind
<1> QED
  BY <1>3, <1>4

\* No case starts but under the lock of its template's row.
LEMMA CasesStartUnderTheLock ==
  ASSUME LifeInvariant, NEW s \in Sessions, Commit(s), lock[Template] # s, NEW c \in Cases, ~Running(c)
  PROVE  case'[c] # "in_progress"
<1>1. CASE call[s].op \notin CaseOps
  BY <1>1, EditCommits DEF StaysAsItIs, Running
<1>2. CASE call[s].op \in CaseOps
  <2>1. PICK d \in Cases :
          /\ \A e \in Cases \ {d} : StaysAsItIs(e)
          /\ (Begins(d) /\ lock[Template] = s) \/ GoesOn(d) \/ IsOver(d)
    BY <1>2, CaseCommits
  <2>2. GoesOn(d) \/ IsOver(d)
    BY <2>1
  <2>3. case[d] = "in_progress"
    BY <2>2 DEF GoesOn, IsOver
  <2> QED
    BY <2>1, <2>3 DEF StaysAsItIs, Running
<1> QED
  BY <1>1, <1>2

\* What another transaction commits leaves the move of r as it is.
LEMMA CommitLeavesMoves ==
  ASSUME LifeInvariant, NEW s \in Sessions, Commit(s), NEW r \in Sessions \ {s}
  PROVE  CallMoves(r)'
<1>1. WorkflowInvariant /\ CallIsSound(r) /\ CallIsSound(s) /\ TypeOK /\ CallMoves(r) /\ CallMoves(s) /\ DeletedForGood
  BY DEF LifeInvariant, WorkflowInvariant, CallsAreSound
<1>2. \A row \in Rows : lock'[row] = r <=> lock[row] = r
  BY WorkflowAssumption DEF Commit, Release
<1>3. call'[r] = call[r]
  BY <1>1 DEF Commit, TypeOK
<1>4. /\ templateTip' = templateTip /\ stepTip' = stepTip /\ caseTip' = caseTip /\ taskTip' = taskTip
      /\ lock[Template] # s => template' = template /\ step' = step
      /\ lock[Template] = s => template' = templateTip /\ step' = stepTip
      /\ \A c \in Cases : lock[c] = r => case'[c] = case[c]
      /\ \A t \in Tasks : lock[t] = r => task'[t] = task[t]
  BY DEF Commit, Newest, tips
<1>5. template.deleted => template'.deleted
  BY <1>1, <1>4 DEF DeletedForGood
<1>6. lock[Template] = s \/ \A c \in Cases : case'[c] = "in_progress" => case[c] = "in_progress"
  BY CasesStartUnderTheLock DEF Running
<1>7. lock'[Template] = r <=> lock[Template] = r
  BY <1>2, RowsAreApart
<1>8. EditIsAllowed(r)'
  BY <1>1, <1>3, <1>4, <1>6, <1>7 DEF CallMoves, EditIsAllowed, Running
<1>9. call[r].pc = "commit" /\ call[r].op \in CaseOps =>
        call[r].c \in Cases /\ lock[call[r].c] = r /\ call[r].c \in Rows
  BY <1>1, RowsAreApart DEF CallIsSound, CommitIsSound
<1>10. StartIsAMove(r)'
  <2>1. "start" \in CaseOps
    BY DEF CaseOps
  <2> QED
    BY <1>1, <1>3, <1>4, <1>7, <1>9, <2>1 DEF CallMoves, StartIsAMove
<1>11. CancelIsAMove(r)'
  <2>1. call[r].op = "cancel_case" /\ call[r].pc \in {"list_tasks", "cancel_tasks", "commit"} =>
          call[r].c \in Cases /\ lock[call[r].c] = r
    BY <1>1, <1>9 DEF CallIsSound, CancelIsSound, CaseOps
  <2> QED
    BY <1>1, <1>3, <1>4, <2>1 DEF CallMoves, CancelIsAMove
<1>12. EndingIsAMove(r)'
  <2> SUFFICES ASSUME call[r].op = "end_task", call[r].pc = "commit"
               PROVE  EndingIsAMove(r)'
    BY <1>3 DEF EndingIsAMove
  <2>1. PICK c \in Cases : c = call[r].c /\ lock[c] = r
    BY <1>9 DEF CaseOps
  <2>2. PICK t \in Tasks : t = call[r].t
    BY <1>1, <2>1, RowsAreApart DEF CallIsSound, EndingIsSound
  <2>3. PICK after : after = StepsAfter(task[t].step)
    OBVIOUS
  <2>4. /\ case[c] = "in_progress" /\ lock[t] = r /\ IsOpen(task[t]) /\ taskTip[t].status = "ended"
        /\ lock[Template] = r \/ template.deleted
        /\ \/ caseTip[c] = "completed" /\ after = {}
           \/ /\ caseTip[c] = "in_progress" /\ after # {}
              /\ \A u \in TasksOf(c) : lock[u] = r /\ IsOpen(taskTip[u]) => taskTip[u].step = First(after)
    BY <1>1, <2>1, <2>2, <2>3 DEF CallMoves, EndingIsAMove
  <2>5. step' = step
    <3>1. CASE lock[Template] = s
      <4>1. template.deleted
        BY <2>4, <3>1
      <4>2. call[s].op \notin StepOps
        BY <1>1, <3>1, <4>1 DEF CallMoves, EditIsAllowed, StepOps, TemplateOps
      <4> QED
        BY <1>1, <1>4, <3>1, <4>2 DEF CallIsSound, TemplateIsSound
    <3> QED
      BY <1>4, <3>1
  <2>6. case'[c] = case[c] /\ task'[t] = task[t] /\ lock'[t] = r /\ \A u \in TasksOf(c) : lock'[u] = r <=> lock[u] = r
    BY <1>2, <1>4, <2>1, <2>4, RowsAreApart
  <2>7. StepsAfter(task[call[r].t].step)' = after /\ First(after)' = First(after)
    <3>1. call'[r].t = t /\ call[r].t = t
      BY <1>3, <2>2
    <3>2. StepsAfter(task[call[r].t].step)' = StepsAfter(task[t].step)
      BY <2>5, <2>6, <3>1 DEF StepsAfter, Live
    <3>3. First(after)' = First(after)
      BY <2>5 DEF First
    <3> QED
      BY <2>3, <3>2, <3>3
  <2> QED
    BY <1>3, <1>4, <1>5, <1>7, <2>1, <2>2, <2>4, <2>6, <2>7 DEF EndingIsAMove, TasksOf
<1> QED
  BY <1>8, <1>10, <1>11, <1>12 DEF CallMoves

\* A commit keeps the invariant.
LEMMA CommitMoves ==
  ASSUME LifeInvariant, NEW s \in Sessions, Commit(s)
  PROVE  LifeInvariant'
<1>1. WorkflowInvariant /\ CallIsSound(s) /\ TypeOK /\ TaskMoves /\ DeletedForGood /\ StepsWereMade
  BY DEF LifeInvariant, WorkflowInvariant, CallsAreSound
<1>2. /\ templateTip' = templateTip /\ stepTip' = stepTip /\ caseTip' = caseTip /\ taskTip' = taskTip
      /\ template' = (IF lock[Template] = s THEN templateTip ELSE template)
      /\ step' = (IF lock[Template] = s THEN stepTip ELSE step)
      /\ \A t \in Tasks : task'[t] = IF lock[t] = s THEN taskTip[t] ELSE task[t]
  BY DEF Commit, Newest, tips
<1>3. WorkflowInvariant'
  BY <1>1, CommitKeeps
<1>4. TaskMoves'
  BY <1>1, <1>2 DEF TaskMoves
<1>5. DeletedForGood'
  BY <1>1, <1>2 DEF DeletedForGood
<1>6. StepsWereMade'
  <2>1. \A st \in Steps : step[st].state # "absent" => step'[st].state # "absent"
    BY <1>1, <1>2 DEF StepsWereMade
  <2>2. \A st \in Steps : stepTip'[st].state = "absent" => step'[st].state = "absent"
    BY <1>1, <1>2 DEF StepsWereMade
  <2>3. ASSUME NEW t \in Tasks, task'[t].status # "absent"
        PROVE  task'[t].step \in Steps /\ step[task'[t].step].state # "absent"
    <3>1. CASE task'[t] = task[t] \/ (task[t].status # "absent" /\ task'[t].step = task[t].step)
      BY <1>1, <2>3, <3>1 DEF StepsWereMade
    <3>2. CASE lock[t] = s /\ task'[t] = taskTip[t] /\ IsOpen(taskTip[t])
      <4>1. lock[t] # Free
        BY <3>2, WorkflowAssumption
      <4>2. taskTip[t].step \in Live(step)
        BY <1>1, <3>2, <4>1 DEF WorkflowInvariant, TablesAreSound, HeldTasksAreSound
      <4> QED
        BY <3>2, <4>2 DEF Live
    <3> QED
      BY <1>1, <1>2, <3>1, <3>2 DEF TaskMoves, IsOpen
  <2> QED
    BY <2>1, <2>2, <2>3 DEF StepsWereMade
<1>7. PastIsBehind'
  BY CommitKeepsTheOrder
<1>8. CallMoves(s)'
  <2>1. call'[s] = Idle /\ lock'[Template] # s
    BY <1>1, RowsAreApart, WorkflowAssumption DEF Commit, Release, TypeOK
  <2> QED
    BY <2>1 DEF Idle, CallMoves, EditIsAllowed, StartIsAMove, EndingIsAMove, CancelIsAMove
<1>9. ASSUME NEW r \in Sessions, r # s PROVE CallMoves(r)'
  BY <1>9, CommitLeavesMoves
<1> QED
  BY <1>3, <1>4, <1>5, <1>6, <1>7, <1>8, <1>9 DEF LifeInvariant

(***************************************************************************)
(* The specification                                                       *)
(***************************************************************************)
\* No case, no task and nobody at work.
LEMMA InitIsOrdered ==
  ASSUME Init
  PROVE  LifeInvariant
<1>1. \A t \in Tasks : task[t].status = "absent" /\ taskTip[t] = task[t]
  BY DEF Init, NoTask
<1>2. TaskMoves /\ DeletedForGood
  BY <1>1 DEF Init, TaskMoves, DeletedForGood
<1>3. StepsWereMade
  BY <1>1 DEF Init, StepsWereMade
<1>4. \A c \in Cases : OpenTasks(c) = {}
  BY <1>1, RowsAreApart DEF OpenTasks, IsOpen
<1>5. PastIsBehind
  BY <1>4 DEF PastIsBehind
<1>6. ASSUME NEW s \in Sessions PROVE CallMoves(s)
  <2>1. call[s].op = "none" /\ lock[Template] # s
    BY RowsAreApart, WorkflowAssumption DEF Init, Idle
  <2> QED
    BY <2>1 DEF CallMoves, EditIsAllowed, StartIsAMove, EndingIsAMove, CancelIsAMove
<1> QED
  BY <1>2, <1>3, <1>5, <1>6, InitIsSound DEF LifeInvariant

\* Every step keeps the invariant.
LEMMA NextMoves ==
  ASSUME LifeInvariant, [Next]_vars
  PROVE  LifeInvariant'
<1>1. CASE UNCHANGED vars
  <2>1. /\ UNCHANGED committed /\ lock' = lock /\ call' = call /\ task' = task
        /\ templateTip' = templateTip /\ stepTip' = stepTip /\ caseTip' = caseTip /\ taskTip' = taskTip
    BY <1>1 DEF vars, tables, committed, tips
  <2>2. WorkflowInvariant /\ WorkflowInvariant'
    BY <1>1, NextKeeps DEF LifeInvariant
  <2>3. DeletedForGood' /\ StepsWereMade' /\ PastIsBehind' /\ TaskMoves'
    BY <2>1, TemplateStays DEF LifeInvariant, TaskMoves
  <2>4. ASSUME NEW r \in Sessions PROVE CallMoves(r)'
    <3>1. CallMoves(r) /\ call'[r] = call[r]
      BY <2>1 DEF LifeInvariant
    <3> QED
      BY <2>1, <2>2, <3>1, OthersMove
  <2> QED
    BY <2>2, <2>3, <2>4 DEF LifeInvariant
<1>2. ASSUME NEW s \in Sessions, Request(s) \/ Statement(s) \/ Commit(s) \/ Rollback(s)
      PROVE  LifeInvariant'
  <2>1. CASE Request(s)
    BY <2>1, RequestsMove
  <2>2. CASE CreateInstance(s)
    BY <2>2, CreateInstanceMoves
  <2>3. CASE EndTask(s)
    BY <2>3, EndTaskMoves
  <2>4. CASE LockCase(s)
    BY <2>4, LockCaseMoves
  <2>5. CASE MoveOn(s)
    BY <2>5, MoveOnMoves
  <2>6. CASE CancelInstance(s)
    BY <2>6, CancelInstanceMoves
  <2>7. CASE ListTasks(s)
    BY <2>7, ListTasksMoves
  <2>8. CASE CancelOpenTasks(s)
    BY <2>8, CancelOpenTasksMoves
  <2>9. CASE AddStep(s)
    BY <2>9, AddStepMoves
  <2>10. CASE ReorderSteps(s)
    BY <2>10, ReorderStepsMoves
  <2>11. CASE DeleteStep(s)
    BY <2>11, DeleteStepMoves
  <2>12. CASE WriteTemplate(s)
    BY <2>12, WriteTemplateMoves
  <2>13. CASE Commit(s)
    BY <2>13, CommitMoves
  <2>14. CASE Rollback(s)
    BY <2>14, RollbackMoves DEF Rollback
  <2> QED
    BY <1>2, <2>1, <2>2, <2>3, <2>4, <2>5, <2>6, <2>7, <2>8, <2>9, <2>10, <2>11, <2>12, <2>13, <2>14 DEF Statement
<1> QED
  BY <1>1, <1>2 DEF Next

\* Nothing but a commit changes what is committed.
LEMMA OnlyCommitsPublish ==
  ASSUME [Next]_vars
  PROVE  (case' = case /\ task' = task /\ step' = step) \/ \E s \in Sessions : Commit(s)
<1>1. CASE UNCHANGED vars
  BY <1>1 DEF vars, tables, committed
<1>2. ASSUME NEW s \in Sessions, Request(s) \/ Statement(s) \/ Rollback(s)
      PROVE  case' = case /\ task' = task /\ step' = step
  <2>1. CASE Request(s)
    BY <2>1 DEF Request, StartInstance, StartCancelInstance, StartEndTask, StartAddStep, StartDeleteStep,
                StartReorderSteps, StartDeleteTemplate, StartSetArchived, Begin, tables, committed
  <2>2. CASE Statement(s)
    BY <2>2 DEF Statement, CreateInstance, EndTask, LockCase, MoveOn, CancelInstance, ListTasks, CancelOpenTasks,
                AddStep, ReorderSteps, DeleteStep, WriteTemplate, GetTemplate, At, committed
  <2>3. CASE Rollback(s)
    BY <2>3 DEF Rollback, committed
  <2> QED
    BY <1>2, <2>1, <2>2, <2>3
<1> QED
  BY <1>1, <1>2 DEF Next

\* The initial state of the workflow is that of CaseLife.
LEMMA LifeBegins ==
  ASSUME Init
  PROVE  Life!Init
<1>1. \A t \in Tasks : task[t].status = "absent"
  BY DEF Init, NoTask
<1>2. \A c \in Cases : OpenTasks(c) = {} /\ {task[t].step : t \in EndedTasks(c)} = {}
  BY <1>1, RowsAreApart DEF OpenTasks, EndedTasks, IsOpen
<1> QED
  BY <1>2 DEF Life!Init, Init

\* Where a case sits, and what it has left.
AtOf(c)   == IF OpenTasks(c) = {} THEN Null ELSE task[CHOOSE t \in OpenTasks(c) : TRUE].step
PastOf(c) == {task[t].step : t \in EndedTasks(c)}

LEMMA OneOpenTaskIsWhereItSits ==
  ASSUME NEW c, NEW t, OpenTasks(c) = {t}
  PROVE  AtOf(c) = task[t].step
BY DEF AtOf

LEMMA WhatIsLeftBehind ==
  ASSUME NEW c, NEW t, LeavesBehind(c, t)
  PROVE  PastOf(c)' = PastOf(c) \cup {AtOf(c)}
<1>1. AtOf(c) = task[t].step
  BY OneOpenTaskIsWhereItSits DEF LeavesBehind
<1>2. PastOf(c)' = {task'[u].step : u \in EndedTasks(c)'}
  BY DEF PastOf
<1>3. EndedTasks(c)' = EndedTasks(c) \cup {t} /\ \A u \in EndedTasks(c)' : task'[u].step = task[u].step
  BY DEF LeavesBehind
<1> QED
  BY <1>1, <1>2, <1>3 DEF PastOf

\* A case that nobody moves stays where it is.
LEMMA WhatStaysPut ==
  ASSUME NEW c \in Cases, StaysAsItIs(c)
  PROVE  case'[c] = case[c] /\ AtOf(c)' = AtOf(c) /\ PastOf(c)' = PastOf(c)
<1>1. OpenTasks(c)' = OpenTasks(c) /\ EndedTasks(c)' = EndedTasks(c)
  BY DEF StaysAsItIs, OpenTasks, EndedTasks
<1>2. \A t \in OpenTasks(c) \cup EndedTasks(c) : task'[t] = task[t]
  BY DEF StaysAsItIs, OpenTasks, EndedTasks
<1>3. AtOf(c)' = AtOf(c)
  BY <1>1, <1>2 DEF AtOf
<1>4. PastOf(c)' = PastOf(c)
  BY <1>1, <1>2 DEF PastOf
<1> QED
  BY <1>3, <1>4 DEF StaysAsItIs

\* One case moves and the others stay: so do the functions CaseLife speaks of.
LEMMA OneCaseMoves ==
  ASSUME TypeOK, TypeOK', NEW c \in Cases, \A d \in Cases \ {c} : StaysAsItIs(d)
  PROVE  /\ case' = [case EXCEPT ![c] = case'[c]]
         /\ [d \in Cases |-> AtOf(d)]' = [[d \in Cases |-> AtOf(d)] EXCEPT ![c] = AtOf(c)']
         /\ [d \in Cases |-> PastOf(d)]' = [[d \in Cases |-> PastOf(d)] EXCEPT ![c] = PastOf(c)']
<1>1. \A d \in Cases \ {c} : case'[d] = case[d] /\ AtOf(d)' = AtOf(d) /\ PastOf(d)' = PastOf(d)
  BY WhatStaysPut
<1>2. case' = [case EXCEPT ![c] = case'[c]]
  BY <1>1 DEF TypeOK
<1>3. [d \in Cases |-> AtOf(d)]' = [[d \in Cases |-> AtOf(d)] EXCEPT ![c] = AtOf(c)']
  BY <1>1
<1>4. [d \in Cases |-> PastOf(d)]' = [[d \in Cases |-> PastOf(d)] EXCEPT ![c] = PastOf(c)']
  BY <1>1
<1> QED
  BY <1>2, <1>3, <1>4

\* What CaseLife calls the state of the cases.
LEMMA LifeOfACase ==
  /\ \A c \in Cases, st \in Steps :
       /\ case[c] = "absent" /\ case' = [case EXCEPT ![c] = "in_progress"]
       /\ [d \in Cases |-> AtOf(d)]' = [[d \in Cases |-> AtOf(d)] EXCEPT ![c] = st]
       /\ [d \in Cases |-> PastOf(d)]' = [d \in Cases |-> PastOf(d)]
       => Life!Start(c, st)
  /\ \A c \in Cases, st \in Steps :
       /\ case[c] = "in_progress" /\ case' = [case EXCEPT ![c] = "in_progress"]
       /\ [d \in Cases |-> AtOf(d)]' = [[d \in Cases |-> AtOf(d)] EXCEPT ![c] = st]
       /\ [d \in Cases |-> PastOf(d)]' = [[d \in Cases |-> PastOf(d)] EXCEPT ![c] = PastOf(c) \cup {AtOf(c)}]
       /\ st \notin PastOf(c) \cup {AtOf(c)}
       => Life!MoveOn(c, st)
  /\ \A c \in Cases : \A outcome \in {"completed", "cancelled"} :
       /\ case[c] = "in_progress" /\ case' = [case EXCEPT ![c] = outcome]
       /\ [d \in Cases |-> AtOf(d)]' = [[d \in Cases |-> AtOf(d)] EXCEPT ![c] = Null]
       /\ [d \in Cases |-> PastOf(d)]' = [[d \in Cases |-> PastOf(d)] EXCEPT ![c] = PastOf(c) \cup {AtOf(c)}]
       => Life!End(c, outcome)
BY DEF Life!Start, Life!MoveOn, Life!End, Life!LeaveBehind, Life!Become, AtOf, PastOf

\* Every step of the workflow is a move of one case, or none.
LEMMA LifeGoesOn ==
  ASSUME LifeInvariant, [Next]_vars
  PROVE  [Life!Next]_(Life!vars)
<1>1. TypeOK /\ TypeOK'
  BY NextMoves DEF LifeInvariant, WorkflowInvariant
<1>2. ASSUME \A c \in Cases : StaysAsItIs(c) PROVE UNCHANGED Life!vars
  <2>1. \A c \in Cases : case'[c] = case[c] /\ AtOf(c)' = AtOf(c) /\ PastOf(c)' = PastOf(c)
    BY <1>2, WhatStaysPut
  <2>2. case' = case
    BY <1>1, <2>1 DEF TypeOK
  <2>3. [d \in Cases |-> AtOf(d)]' = [d \in Cases |-> AtOf(d)]
    BY <2>1
  <2>4. [d \in Cases |-> PastOf(d)]' = [d \in Cases |-> PastOf(d)]
    BY <2>1
  <2> QED
    BY <2>2, <2>3, <2>4 DEF Life!vars, AtOf, PastOf
<1>3. CASE case' = case /\ task' = task
  BY <1>2, <1>3 DEF StaysAsItIs
<1>4. ASSUME NEW s \in Sessions, Commit(s), call[s].op \notin CaseOps PROVE UNCHANGED Life!vars
  BY <1>2, <1>4, EditCommits
<1>5. ASSUME NEW s \in Sessions, Commit(s), call[s].op \in CaseOps PROVE Life!Next
  <2>1. PICK c \in Cases :
          /\ \A d \in Cases \ {c} : StaysAsItIs(d)
          /\ Begins(c) \/ GoesOn(c) \/ IsOver(c)
    BY <1>5, CaseCommits
  <2>2. /\ case' = [case EXCEPT ![c] = case'[c]]
        /\ [d \in Cases |-> AtOf(d)]' = [[d \in Cases |-> AtOf(d)] EXCEPT ![c] = AtOf(c)']
        /\ [d \in Cases |-> PastOf(d)]' = [[d \in Cases |-> PastOf(d)] EXCEPT ![c] = PastOf(c)']
    BY <1>1, <2>1, OneCaseMoves
  <2>3. \A st \in Live(step) : st \in Steps
    BY DEF Live
  <2>4. CASE Begins(c)
    <3>1. PICK u \in TasksOf(c) : OpenTasks(c)' = {u} /\ task'[u].step \in Live(step)
      BY <2>4 DEF Begins
    <3>2. AtOf(c)' = task'[u].step
      BY <3>1 DEF AtOf
    <3>3. PastOf(c)' = PastOf(c)
      BY <2>4 DEF Begins, PastOf
    <3>4. [d \in Cases |-> PastOf(d)]' = [d \in Cases |-> PastOf(d)]
      BY <2>2, <3>3
    <3>5. PICK st \in Steps : st = task'[u].step
      BY <2>3, <3>1
    <3>6. Life!Start(c, st)
      BY <2>2, <2>4, <3>2, <3>4, <3>5, LifeOfACase DEF Begins
    <3> QED
      BY <3>6 DEF Life!Next
  <2>5. CASE GoesOn(c)
    <3>1. PICK t, u \in TasksOf(c) :
            /\ LeavesBehind(c, t) /\ OpenTasks(c)' = {u}
            /\ StepsAfter(task[t].step) # {} /\ task'[u].step = First(StepsAfter(task[t].step))
      BY <2>5 DEF GoesOn
    <3>2. PICK next : next = First(StepsAfter(task[t].step))
      OBVIOUS
    <3>3. next \in Live(step) /\ \A v \in EndedTasks(c)' : Behind(step, task[v].step, next)
      BY <3>1, <3>2, WhatComesNextIsAhead
    <3>4. AtOf(c)' = next
      BY <3>1, <3>2 DEF AtOf
    <3>5. PastOf(c)' = PastOf(c) \cup {AtOf(c)}
      BY <3>1, WhatIsLeftBehind
    <3>6. next \notin PastOf(c)'
      <4>1. \A v \in EndedTasks(c)' : task[v].step # next /\ task'[v].step = task[v].step
        BY <3>1, <3>3, PositionsDiffer DEF Behind, LeavesBehind
      <4>2. PastOf(c)' = {task'[v].step : v \in EndedTasks(c)'}
        BY DEF PastOf
      <4> QED
        BY <4>1, <4>2
    <3>7. Life!MoveOn(c, next)
      <4>1. next \in Steps /\ next \notin PastOf(c) \cup {AtOf(c)}
        BY <2>3, <3>3, <3>5, <3>6
      <4>2. case[c] = "in_progress" /\ case' = [case EXCEPT ![c] = "in_progress"]
        BY <2>2, <2>5 DEF GoesOn
      <4>3. /\ [d \in Cases |-> AtOf(d)]' = [[d \in Cases |-> AtOf(d)] EXCEPT ![c] = next]
            /\ [d \in Cases |-> PastOf(d)]' = [[d \in Cases |-> PastOf(d)] EXCEPT ![c] = PastOf(c) \cup {AtOf(c)}]
        BY <2>2, <3>4, <3>5
      <4> QED
        BY <4>1, <4>2, <4>3, LifeOfACase
    <3> QED
      BY <2>3, <3>3, <3>7 DEF Life!Next
  <2>6. CASE IsOver(c)
    <3>1. PICK t \in TasksOf(c) : LeavesBehind(c, t)
      BY <2>6 DEF IsOver
    <3>2. AtOf(c)' = Null
      BY <2>6 DEF IsOver, AtOf
    <3>3. PastOf(c)' = PastOf(c) \cup {AtOf(c)}
      BY <3>1, WhatIsLeftBehind
    <3>4. PICK outcome \in {"completed", "cancelled"} : outcome = case'[c]
      BY <2>6 DEF IsOver
    <3>5. Life!End(c, outcome)
      <4>1. case[c] = "in_progress" /\ case' = [case EXCEPT ![c] = outcome]
        BY <2>2, <2>6, <3>4 DEF IsOver
      <4>2. /\ [d \in Cases |-> AtOf(d)]' = [[d \in Cases |-> AtOf(d)] EXCEPT ![c] = Null]
            /\ [d \in Cases |-> PastOf(d)]' = [[d \in Cases |-> PastOf(d)] EXCEPT ![c] = PastOf(c) \cup {AtOf(c)}]
        BY <2>2, <3>2, <3>3
      <4> QED
        BY <4>1, <4>2, LifeOfACase
    <3> QED
      BY <3>5 DEF Life!Next
  <2> QED
    BY <2>1, <2>4, <2>5, <2>6
<1> QED
  BY <1>3, <1>4, <1>5, OnlyCommitsPublish

\* A task that ends is followed by the first of the later steps, or there are none.
LEMMA NothingIsPassedOver ==
  ASSUME LifeInvariant, [Next]_vars, NEW c \in Cases, NEW t \in Tasks,
         t \in OpenTasks(c), ~IsOpen(task'[t]), case'[c] # "cancelled"
  PROVE  NextInLine(c, t)'
<1>1. IsOpen(task[t]) /\ t \in TasksOf(c)
  BY DEF OpenTasks
<1>2. ~StaysAsItIs(c)
  BY <1>1 DEF StaysAsItIs
<1>3. PICK s \in Sessions : Commit(s) /\ call[s].op \in CaseOps
  BY <1>1, <1>2, EditCommits, OnlyCommitsPublish DEF StaysAsItIs
<1>4. step' = step /\ (Begins(c) \/ GoesOn(c) \/ IsOver(c))
  BY <1>2, <1>3, CaseCommits
<1>5. PICK after : after = StepsAfter(task[t].step)
  OBVIOUS
<1>6. ASSUME LeavesBehind(c, t) PROVE StepsAfter(task[t].step)' = after /\ First(after)' = First(after)
  <2>1. task'[t].step = task[t].step
    BY <1>6 DEF LeavesBehind
  <2>2. StepsAfter(task[t].step)' = StepsAfter(task[t].step)
    BY <1>4, <2>1 DEF StepsAfter, Live
  <2>3. First(after)' = First(after)
    BY <1>4 DEF First
  <2> QED
    BY <1>5, <2>2, <2>3
<1>7. CASE GoesOn(c)
  <2>1. PICK u \in TasksOf(c) :
          /\ LeavesBehind(c, t) /\ OpenTasks(c)' = {u}
          /\ after # {} /\ task'[u].step = First(after)
    <3>1. PICK v, u \in TasksOf(c) :
            /\ LeavesBehind(c, v) /\ OpenTasks(c)' = {u}
            /\ StepsAfter(task[v].step) # {} /\ task'[u].step = First(StepsAfter(task[v].step))
      BY <1>7 DEF GoesOn
    <3>2. v = t
      BY <3>1 DEF LeavesBehind
    <3> QED
      BY <1>5, <3>1, <3>2
  <2>2. case'[c] # "completed"
    BY <1>7 DEF GoesOn
  <2> QED
    BY <1>6, <2>1, <2>2 DEF NextInLine
<1>8. CASE IsOver(c)
  <2>1. case'[c] = "completed" /\ LeavesBehind(c, t) /\ after = {}
    <3>1. PICK v \in TasksOf(c) : LeavesBehind(c, v) /\ (case'[c] = "completed" => StepsAfter(task[v].step) = {})
      BY <1>8 DEF IsOver
    <3>2. v = t
      BY <3>1 DEF LeavesBehind
    <3> QED
      BY <1>5, <1>8, <3>1, <3>2 DEF IsOver
  <2> QED
    BY <1>6, <2>1 DEF NextInLine
<1> QED
  BY <1>4, <1>7, <1>8 DEF Begins

\* The invariant holds of every reachable state.
THEOREM OrderHolds == Spec => []LifeInvariant
BY InitIsOrdered, NextMoves, PTL DEF Spec

\* Workflow implements CaseLife: for any number of cases, steps, tasks and requests, however
\* starts, completions, cancels and edits of the template interleave, a case sits on one
\* step at a time, never comes back to a step it has left, and ends once
\* (move_on_after_task, cancel_instance, start_instance).
THEOREM CasesLiveTheirLife == Spec => CasesKeepTheirPromise
<1>1. LifeInvariant /\ [Next]_vars => [Life!Next]_(Life!vars)
  BY LifeGoesOn
<1> QED
  BY <1>1, LifeBegins, OrderHolds, PTL DEF Spec, CasesKeepTheirPromise, Life!Spec

\* When a task of a case ends, the case goes on with the next step that is in the template at that
\* moment, or is over if there is none (move_on_after_task against add_step,
\* delete_step and reorder_steps).
THEOREM StepsAreTakenInOrder == Spec => NoStepIsPassedOver
<1>1. LifeInvariant /\ [Next]_vars =>
        [\A c \in Cases, t \in Tasks :
           t \in OpenTasks(c) /\ ~IsOpen(task'[t]) /\ case'[c] # "cancelled" => NextInLine(c, t)']_vars
  BY NothingIsPassedOver
<1> QED
  BY <1>1, OrderHolds, PTL DEF Spec, NoStepIsPassedOver

=============================================================================
