-------------------------- MODULE TaskBlocksProofs --------------------------
(***************************************************************************)
(* Proofs about TaskBlocks for every number of people, tasks, blocks and   *)
(* transactions.                                                           *)
(***************************************************************************)
EXTENDS TaskBlocks, TLAPS

(* What a transaction that has reached each point is certain to remember.  *)
CallOK(c) ==
  /\ c.pc \in {"insert", "find_block", "close_block", "clear_block", "write",
               "insert_block", "review", "credit"} => c.t \in Tasks
  /\ c.pc \in {"close_block", "clear_block", "review", "credit"} => c.b \in Blocks
  /\ c.op \in {"complete", "cancel", "reassign", "block", "scan"} => c.at \in Nat
  /\ c.pc = "close_block" => c.at \in Nat
  /\ c.pc = "find_block" => c.op \in {"complete", "cancel", "reassign", "unblock", "scan"}
  /\ c.pc = "insert_block" => c.op = "block"
  /\ c.pc = "next_orphan" => c.op = "scan"
  /\ c.op = "block" => c.b \in Blocks /\ c.by \in People /\ c.pc \in {"write", "insert_block", "commit"}

(* What a row would have been paid if it were committed now, and the row   *)
(* with that payment.                                                      *)
PaidInFull(row) == IF Approved(row) /\ row.end # Null THEN 1 ELSE 0
Settled(row)    == [row EXCEPT !.paid = PaidInFull(row)]

(* A committed row of task_blocks.                                         *)
RowOK(row) ==
  /\ row \in BlockRow
  /\ Exists(row) => row.start \in Nat
  /\ ~Exists(row) => row = NoBlock
  /\ row.end # Null => row.end \in Nat /\ row.start \in Nat /\ row.end >= row.start
  /\ row.paid = PaidInFull(row)

(* The transaction has ended or approved the block and still has to credit *)
(* it.                                                                     *)
Owes(c, b) == c.pc \in {"clear_block", "credit"} /\ c.b = b

(* The newest version of a row: once what is owed has been paid, it is the *)
(* committed row or one step of the ledger away from it.                   *)
TipOK(b) ==
  /\ blockTip[b] \in BlockRow
  /\ blockLock[b] = Free => blockTip[b] = block[b]
  /\ Settled(blockTip[b]) = block[b] \/ Ledger!Step(block[b], Settled(blockTip[b]))
  /\ IF \E s \in Sessions : Owes(call[s], b)
     THEN blockTip[b].paid = 0
     ELSE blockTip[b] = Settled(blockTip[b])

(* A transaction that holds a row has written it, and is past the point    *)
(* where it could do so twice.                                             *)
HolderOK(s, b) == blockLock[b] = s =>
  /\ Exists(blockTip[b])
  /\ call[s].pc \notin {"idle", "review"}
  /\ blockTip[b].end = Null => call[s].pc = "commit"
  /\ ~Exists(block[b]) => call[s].pc = "commit" /\ call[s].b = b

(* A transaction about to write a block works on a row that exists; one    *)
(* about to credit it holds the row, and the row is over.                  *)
RefOK(s) == LET c == call[s] IN
  /\ c.pc \in {"close_block", "review"} => Exists(block[c.b])
  /\ c.pc \in {"clear_block", "credit"} =>
       blockLock[c.b] = s /\ blockTip[c.b].end # Null
  /\ c.pc = "credit" => Approved(blockTip[c.b])

(* The id of a block to be inserted belongs to one transaction.            *)
Reserves(c) == c.op = "block" /\ c.pc \in {"write", "insert_block"}

ReservedOK(s) == Reserves(call[s]) =>
  /\ ~Exists(block[call[s].b]) /\ ~Exists(blockTip[call[s].b])
  /\ \A r \in Sessions \ {s} : call[r].b # call[s].b

CallsOK   == \A s \in Sessions : CallOK(call[s]) /\ RefOK(s) /\ ReservedOK(s)
RowsOK    == \A b \in Blocks : RowOK(block[b]) /\ TipOK(b)
HoldersOK == \A s \in Sessions, b \in Blocks : HolderOK(s, b)

(* The inductive invariant.                                                *)
IInv == TypeOK /\ CallsOK /\ RowsOK /\ HoldersOK

-----------------------------------------------------------------------------

(* IInv holds initially.                                                   *)
LEMMA InitIInv == Init => IInv
<1> USE PeopleAssumption, BlocksAssumption
<1> SUFFICES ASSUME Init PROVE IInv
  OBVIOUS
<1>1. NoTask \in TaskRow /\ NoBlock \in BlockRow /\ Idle \in Call
  BY DEF NoTask, TaskRow, Statuses, TimeOrNull, Time, NoBlock, BlockRow, Idle, Call, AllOps, Orphans
<1>2. TypeOK
  BY <1>1 DEF Init, TypeOK
<1>3. CallsOK
  BY DEF Init, Idle, CallsOK, CallOK, RefOK, ReservedOK, Reserves
<1>4. RowOK(NoBlock) /\ Settled(NoBlock) = NoBlock
  BY <1>1 DEF RowOK, NoBlock, PaidInFull, Exists, Approved, Settled
<1>5. RowsOK
  BY <1>1, <1>4 DEF Init, RowsOK, TipOK, Owes, Idle
<1>6. HoldersOK
  BY DEF Init, HoldersOK, HolderOK
<1> QED
  BY <1>2, <1>3, <1>5, <1>6 DEF IInv

(* A step of s that leaves the block tables alone and owes no payment. *)
LEMMA CallStep ==
  ASSUME IInv, NEW s \in Sessions, NEW c \in Call,
         call' = [call EXCEPT ![s] = c],
         UNCHANGED <<block, blockTip, blockLock>>,
         CallOK(c),
         \A b \in Blocks : ~Owes(call[s], b) /\ ~Owes(c, b),
         c.pc \in {"close_block", "review"} => Exists(block[c.b]),
         \A b \in Blocks : blockLock[b] = s =>
           \/ blockTip[b].end # Null /\ Exists(block[b]) /\ c.pc \notin {"idle", "review"}
           \/ c.pc = "commit" /\ c.b = call[s].b,
         Reserves(c) => \/ Reserves(call[s]) /\ c.b = call[s].b
                        \/ NewBlockId(c.b),
         \A r \in Sessions \ {s} : Reserves(call[r]) => c.b # call[r].b
  PROVE  CallsOK' /\ RowsOK' /\ HoldersOK' /\ call' \in [Sessions -> Call]
<1> USE DEF IInv
<1>0. call \in [Sessions -> Call]
  BY DEF TypeOK
<1>1. \A r \in Sessions : call'[r] = IF r = s THEN c ELSE call[r]
  BY <1>0
<1>2. \A b \in Blocks :
        (\E r \in Sessions : Owes(call'[r], b)) <=> (\E r \in Sessions : Owes(call[r], b))
  BY <1>1
<1>3. RowsOK'
  BY <1>2 DEF RowsOK, TipOK
<1>4. HoldersOK'
  BY <1>1 DEF HoldersOK, HolderOK
<1>5. ASSUME NEW r \in Sessions PROVE (CallOK(call[r]) /\ RefOK(r) /\ ReservedOK(r))'
  <2>1. CASE r # s
    <3>1. call'[r] = call[r] /\ CallOK(call[r]) /\ RefOK(r) /\ ReservedOK(r)
      BY <1>1, <2>1 DEF CallsOK
    <3>2. RefOK(r)'
      BY <3>1 DEF RefOK
    <3>3. ReservedOK(r)'
      BY <3>1, <1>1, <2>1 DEF ReservedOK
    <3> QED
      BY <3>1, <3>2, <3>3
  <2>2. CASE r = s
    <3>1. call'[s] = c
      BY <1>1
    <3>2. RefOK(s)'
      BY <3>1 DEF RefOK, Owes, CallOK
    <3>3. ReservedOK(s)'
      <4> SUFFICES ASSUME Reserves(c) PROVE
            /\ ~Exists(block[c.b]) /\ ~Exists(blockTip[c.b])
            /\ \A q \in Sessions \ {s} : call[q].b # c.b
        BY <3>1, <1>1 DEF ReservedOK
      <4>1. CASE Reserves(call[s]) /\ c.b = call[s].b
        BY <4>1 DEF CallsOK, ReservedOK
      <4>2. CASE NewBlockId(c.b)
        <5>1. c.b \in Blocks
          BY DEF Reserves, CallOK
        <5>2. ~Exists(block[c.b]) /\ \A q \in Sessions \ {s} : call[q].b # c.b
          BY <4>2 DEF NewBlockId
        <5>3. \A q \in Sessions : blockLock[c.b] # q
          BY <5>1, <5>2, <4>2 DEF HoldersOK, HolderOK, NewBlockId
        <5>4. blockLock[c.b] = Free
          BY <5>1, <5>3 DEF TypeOK
        <5> QED
          BY <5>1, <5>2, <5>4 DEF RowsOK, TipOK
      <4> QED
        BY <4>1, <4>2
    <3> QED
      BY <3>1, <3>2, <3>3, <2>2
  <2> QED
    BY <2>1, <2>2
<1> QED
  BY <1>0, <1>3, <1>4, <1>5 DEF CallsOK

-----------------------------------------------------------------------------
(* Requests: a transaction that was idle begins. *)

(* Beginning a transaction with a well-formed call.                        *)
LEMMA BeginStep ==
  ASSUME IInv, NEW s \in Sessions, NEW op, NEW c \in Call,
         Begin(s, op, c), CallOK(c),
         c.pc \notin {"close_block", "clear_block", "credit"},
         c.pc = "review" => Exists(block[c.b]),
         Reserves(c) => NewBlockId(c.b),
         \/ c.b = Null
         \/ Exists(block[c.b])
         \/ \A r \in Sessions : call[r].b # c.b
  PROVE  IInv'
<1> USE DEF IInv
<1>1. /\ call[s] = Idle /\ call' = [call EXCEPT ![s] = c]
      /\ UNCHANGED <<tables, active, now>>
  BY DEF Begin
<1>2. \A b \in Blocks : ~Owes(call[s], b) /\ ~Owes(c, b)
  BY <1>1 DEF Owes, Idle
<1>3. \A b \in Blocks : blockLock[b] # s
  BY <1>1 DEF HoldersOK, HolderOK, Idle
<1>4. \A r \in Sessions \ {s} : Reserves(call[r]) => c.b # call[r].b
  <2> SUFFICES ASSUME NEW r \in Sessions \ {s}, Reserves(call[r]) PROVE c.b # call[r].b
    OBVIOUS
  <2>1. call[r].b \in Blocks /\ ~Exists(block[call[r].b])
    BY DEF CallsOK, ReservedOK, Reserves, CallOK
  <2> QED
    BY <2>1, BlocksAssumption
<1>5. CallsOK' /\ RowsOK' /\ HoldersOK' /\ call' \in [Sessions -> Call]
  BY <1>1, <1>2, <1>3, <1>4, CallStep DEF tables
<1> QED
  BY <1>1, <1>5 DEF TypeOK, tables

(* No task is the empty column: ids of tasks are numbers.                  *)
LEMMA TaskIdsAreNumbers == \A t \in Tasks : t # Null
<1>1. Tasks \subseteq Int /\ Null \notin Int
  BY PeopleAssumption
<1> QED
  BY <1>1

(* Idle is a call, so every request made from it by EXCEPT is.             *)
LEMMA IdleIsACall == Idle \in Call
  BY DEF Idle, Call, AllOps, TimeOrNull, Orphans

(* One lemma for each request.                                             *)
LEMMA StartCreateInv ==
  ASSUME IInv, NEW s \in Sessions, NEW t \in Tasks,
         NEW due \in Deadlines, NEW to \in Employees \cup {Nobody},
         \/ \E p \in People : StartCreate(s, p, t, to, due)
         \/ StartCreateWorkflowTask(s, t, to, due)
  PROVE  IInv'
<1>1. PICK who \in Employees \cup {Nobody} :
        Begin(s, "create", [Request("create", "insert", t) EXCEPT !.to = who, !.due = due])
  <2>1. DepartmentHead \in Employees \cup {Nobody}
    BY PeopleAssumption DEF DepartmentHead
  <2> QED
    BY <2>1 DEF StartCreate, StartCreateWorkflowTask
<1> DEFINE c == [Request("create", "insert", t) EXCEPT !.to = who, !.due = due]
<1>2. c \in Call /\ CallOK(c) /\ c.pc = "insert" /\ c.op = "create" /\ c.b = Null
  BY IdleIsACall, BlocksAssumption DEF Request, Idle, Call, CallOK, AllOps
<1> QED
  BY <1>1, <1>2, BeginStep DEF Reserves

LEMMA StartUpdateInv ==
  ASSUME IInv, NEW s \in Sessions, NEW p \in People, NEW t \in Tasks, NEW due \in Deadlines,
         StartUpdate(s, p, t, due)
  PROVE  IInv'
<1> DEFINE c == [Request("update", "write", t) EXCEPT
                   !.due = due, !.old = [due |-> task[t].due, told |-> task[t].told]]
<1>1. Begin(s, "update", c)
  BY DEF StartUpdate
<1>2. task[t].due \in TimeOrNull /\ task[t].told \in TimeOrNull
  BY DEF IInv, TypeOK, TaskRow
<1>3. c \in Call /\ CallOK(c) /\ c.pc = "write" /\ c.op = "update" /\ c.b = Null
  BY <1>2, IdleIsACall, BlocksAssumption DEF Request, Idle, Call, CallOK, AllOps
<1> QED
  BY <1>1, <1>3, BeginStep DEF Reserves

(* Completing, cancelling, unblocking: the open block is looked up next. *)
LEMMA StartEndingInv ==
  ASSUME IInv, NEW s \in Sessions, NEW p \in People, NEW t \in Tasks,
         StartComplete(s, p, t) \/ StartCancel(s, p, t) \/ StartUnblock(s, p, t)
  PROVE  IInv'
<1>1. ASSUME NEW op \in {"complete", "cancel"}, Begin(s, op, Timed(op, "find_block", t))
      PROVE  IInv'
  <2> DEFINE c == Timed(op, "find_block", t)
  <2>1. now \in Nat
    BY DEF IInv, TypeOK
  <2>2. c \in Call /\ CallOK(c) /\ c.pc = "find_block" /\ c.op = op /\ c.b = Null
    BY <2>1, IdleIsACall DEF Timed, Request, Idle, Call, CallOK, AllOps, TimeOrNull, Time
  <2> QED
    BY <1>1, <2>2, BeginStep DEF Reserves
<1>2. ASSUME Begin(s, "unblock", Request("unblock", "find_block", t))
      PROVE  IInv'
  <2> DEFINE c == Request("unblock", "find_block", t)
  <2>1. c \in Call /\ CallOK(c) /\ c.pc = "find_block" /\ c.op = "unblock" /\ c.b = Null
    BY IdleIsACall DEF Request, Idle, Call, CallOK, AllOps
  <2> QED
    BY <1>2, <2>1, BeginStep DEF Reserves
<1> QED
  BY <1>1, <1>2 DEF StartComplete, StartCancel, StartUnblock

LEMMA StartReassignInv ==
  ASSUME IInv, NEW s \in Sessions, NEW p \in People, NEW t \in Tasks,
         NEW to \in Employees, NEW due \in Deadlines, StartReassign(s, p, t, to, due)
  PROVE  IInv'
<1> DEFINE c == [Timed("reassign", "find_block", t)
                   EXCEPT !.from = task[t].assignee, !.to = to, !.due = due]
<1>1. Begin(s, "reassign", c)
  BY DEF StartReassign
<1>2. task[t].assignee \in Employees \cup {Nobody} /\ now \in Nat
  BY DEF IInv, TypeOK, TaskRow
<1>3. c \in Call /\ CallOK(c) /\ c.pc = "find_block" /\ c.op = "reassign" /\ c.b = Null
  BY <1>2, IdleIsACall, BlocksAssumption
  DEF Timed, Request, Idle, Call, CallOK, AllOps, TimeOrNull, Time
<1> QED
  BY <1>1, <1>3, BeginStep DEF Reserves

LEMMA StartBlockInv ==
  ASSUME IInv, NEW s \in Sessions, NEW p \in People, NEW t \in Tasks, NEW b \in Blocks,
         StartBlock(s, p, t, b)
  PROVE  IInv'
<1> DEFINE c == [Timed("block", "write", t) EXCEPT !.by = p, !.b = b]
<1>1. Begin(s, "block", c) /\ NewBlockId(b)
  BY DEF StartBlock
<1>2. now \in Nat
  BY DEF IInv, TypeOK
<1>3. c \in Call /\ CallOK(c) /\ c.pc = "write" /\ c.op = "block" /\ c.b = b
  BY <1>2, IdleIsACall, BlocksAssumption
  DEF Timed, Request, Idle, Call, CallOK, AllOps, TimeOrNull, Time
<1> QED
  BY <1>1, <1>3, BeginStep DEF NewBlockId

LEMMA StartReviewInv ==
  ASSUME IInv, NEW s \in Sessions, NEW p \in People, NEW b \in Blocks,
         NEW decision \in {"approve", "reject"}, StartReview(s, p, b, decision)
  PROVE  IInv'
<1> DEFINE c == [Request(decision, "review", block[b].of) EXCEPT !.b = b]
<1>1. Begin(s, decision, c) /\ Exists(block[b])
  BY DEF StartReview
<1>2. block[b].of \in Tasks
  BY <1>1 DEF IInv, TypeOK, BlockRow, Exists
<1>3. c \in Call /\ CallOK(c) /\ c.pc = "review" /\ c.op = decision /\ c.b = b
  BY <1>2, IdleIsACall, BlocksAssumption DEF Request, Idle, Call, CallOK, AllOps
<1> QED
  BY <1>1, <1>3, BeginStep DEF Reserves

LEMMA StartScanInv ==
  ASSUME IInv, NEW s \in Sessions, StartScan(s)
  PROVE  IInv'
<1> DEFINE orphans == {<<t, task[t].assignee>> : t \in LeaversTasks}
           c       == [Timed("scan", "next_orphan", Null) EXCEPT !.todo = orphans]
<1>1. Begin(s, "scan", c)
  BY Zenon DEF StartScan
<1>2. now \in Nat /\ orphans \in Orphans
  BY DEF LeaversTasks, IInv, TypeOK, Orphans
<1> HIDE DEF orphans
<1>3. c \in Call /\ CallOK(c) /\ c.pc = "next_orphan" /\ c.op = "scan" /\ c.b = Null
  BY <1>2, IdleIsACall DEF Timed, Request, Idle, Call, CallOK, AllOps, TimeOrNull, Time
<1> HIDE DEF c
<1> QED
  BY <1>1, <1>3, BeginStep DEF Reserves

-----------------------------------------------------------------------------
(* Statements that leave the block tables alone. *)

(* Moving on to the next statement without writing.                        *)
LEMMA GotoStep ==
  ASSUME IInv, NEW s \in Sessions, NEW pc \in {"write", "commit", "insert_block", "next_orphan", "claim"},
         Goto(s, pc), UNCHANGED <<block, blockTip, blockLock>>,
         call[s].pc \notin {"idle", "commit", "clear_block", "credit"},
         CallOK([call[s] EXCEPT !.pc = pc]),
         pc \in {"write", "insert_block"} /\ call[s].op = "block" => Reserves(call[s])
  PROVE  CallsOK' /\ RowsOK' /\ HoldersOK' /\ call' \in [Sessions -> Call]
<1> DEFINE c == [call[s] EXCEPT !.pc = pc]
<1>1. call[s] \in Call /\ call' = [call EXCEPT ![s] = c]
  BY DEF IInv, TypeOK, Goto
<1>2. c \in Call /\ c.pc = pc /\ c.b = call[s].b /\ c.op = call[s].op
  BY <1>1 DEF Call
<1>3. \A b \in Blocks : ~Owes(call[s], b) /\ ~Owes(c, b)
  BY <1>2 DEF Owes
<1>4. \A b \in Blocks : blockLock[b] = s => blockTip[b].end # Null /\ Exists(block[b])
  BY DEF IInv, HoldersOK, HolderOK
<1>5. \A r \in Sessions \ {s} : Reserves(call[r]) => c.b # call[r].b
  BY <1>2 DEF IInv, CallsOK, ReservedOK
<1>6. Reserves(c) => Reserves(call[s])
  BY <1>2 DEF Reserves
<1>7. CallOK(c)
  OBVIOUS
<1> HIDE DEF c
<1> QED
  BY <1>1, <1>2, <1>3, <1>4, <1>5, <1>6, <1>7, CallStep

(* Such a statement may write rows of the table tasks. *)
LEMMA TaskWrite ==
  ASSUME IInv, CallsOK', RowsOK', HoldersOK', call' \in [Sessions -> Call],
         UNCHANGED <<task, block, blockTip, blockLock, active, now>>,
         taskTip' \in [Tasks -> TaskRow],
         taskLock' \in [Tasks -> Sessions \cup {Free}]
  PROVE  IInv'
BY DEF IInv, TypeOK

(* A transaction that gives up leaves what was there before it. *)
LEMMA RollbackStep ==
  ASSUME IInv, NEW s \in Sessions, RolledBack(s), UNCHANGED <<active, now>>
  PROVE  IInv'
<1> USE DEF IInv
<1>1. Idle \in Call /\ CallOK(Idle) /\ ~Reserves(Idle) /\ \A b \in Blocks : ~Owes(Idle, b) /\ Idle.b # b
  BY IdleIsACall, BlocksAssumption DEF Idle, CallOK, Reserves, Owes
<1>2. /\ call' \in [Sessions -> Call] /\ call'[s] = Idle
      /\ \A r \in Sessions \ {s} : call'[r] = call[r]
  BY <1>1 DEF RolledBack, TypeOK
<1>3. ASSUME NEW b \in Blocks
      PROVE  /\ block'[b] = block[b]
             /\ blockLock[b] = s => blockTip'[b] = block[b] /\ blockLock'[b] = Free
             /\ blockLock[b] # s => blockTip'[b] = blockTip[b] /\ blockLock'[b] = blockLock[b]
  BY DEF RolledBack
<1>4. TypeOK'
  BY <1>2 DEF TypeOK, RolledBack
<1>5. ASSUME NEW b \in Blocks PROVE (RowOK(block[b]) /\ TipOK(b))'
  <2>1. RowOK(block[b]) /\ TipOK(b) /\ RowOK(block'[b])
    BY <1>3 DEF RowsOK
  <2>2. \A r \in Sessions : Owes(call[r], b) => blockLock[b] = r
    BY DEF CallsOK, RefOK, Owes
  <2>3. CASE blockLock[b] = s
    <3>1. block[b] = Settled(block[b]) /\ block[b] \in BlockRow
      BY <2>1 DEF RowOK, Settled, BlockRow
    <3>2. ~ \E r \in Sessions : Owes(call'[r], b)
      BY <1>1, <1>2, <2>2, <2>3
    <3> QED
      BY <2>1, <2>3, <1>3, <3>1, <3>2 DEF TipOK
  <2>4. CASE blockLock[b] # s
    <3>1. (\E r \in Sessions : Owes(call'[r], b)) <=> (\E r \in Sessions : Owes(call[r], b))
      BY <1>1, <1>2, <2>2, <2>4
    <3> QED
      BY <2>1, <2>4, <1>3, <3>1 DEF TipOK
  <2> QED
    BY <2>3, <2>4
<1>6. ASSUME NEW r \in Sessions PROVE (CallOK(call[r]) /\ RefOK(r) /\ ReservedOK(r))'
  <2>1. CASE r = s
    BY <1>1, <1>2, <2>1 DEF RefOK, ReservedOK, Idle
  <2>2. CASE r # s
    <3>1. call'[r] = call[r] /\ CallOK(call[r]) /\ RefOK(r) /\ ReservedOK(r)
      BY <1>2, <2>2 DEF CallsOK
    <3>2. RefOK(r)'
      BY <3>1, <1>3, <2>2 DEF RefOK, CallOK
    <3>3. ReservedOK(r)'
      BY <3>1, <1>1, <1>2, <1>3, <2>2 DEF ReservedOK, Reserves, CallOK
    <3> QED
      BY <3>1, <3>2, <3>3
  <2> QED
    BY <2>1, <2>2
<1>7. ASSUME NEW r \in Sessions, NEW b \in Blocks PROVE HolderOK(r, b)'
  <2>1. HolderOK(r, b) /\ Free # r
    BY BlocksAssumption DEF HoldersOK
  <2> QED
    BY <2>1, <1>2, <1>3 DEF HolderOK
<1> QED
  BY <1>4, <1>5, <1>6, <1>7 DEF RowsOK, CallsOK, HoldersOK

(* One lemma for each statement that writes tasks.                         *)
LEMMA InsertTaskInv ==
  ASSUME IInv, NEW s \in Sessions, InsertTask(s)
  PROVE  IInv'
<1> DEFINE c   == call[s]
           row == [NoTask EXCEPT !.status = "open", !.assignee = c.to, !.due = c.due]
<1>1. c \in Call /\ c.pc = "insert" /\ c.t \in Tasks /\ CallOK(c)
  BY DEF IInv, TypeOK, CallsOK, CallOK, InsertTask, At
<1>2. row \in TaskRow
  BY <1>1 DEF NoTask, TaskRow, Statuses, TimeOrNull, Call
<1>3. CallOK([c EXCEPT !.pc = "commit"])
  BY <1>1 DEF CallOK, Call
<1>4. CallsOK' /\ RowsOK' /\ HoldersOK' /\ call' \in [Sessions -> Call]
  BY <1>1, <1>3, GotoStep DEF InsertTask, WriteTask
<1> HIDE DEF row
<1>5. taskTip' \in [Tasks -> TaskRow] /\ taskLock' \in [Tasks -> Sessions \cup {Free}]
  BY <1>1, <1>2 DEF InsertTask, WriteTask, IInv, TypeOK, row
<1> QED
  BY <1>4, <1>5, TaskWrite DEF InsertTask, WriteTask, At

LEMMA CompleteTaskInv ==
  ASSUME IInv, NEW s \in Sessions, CompleteTask(s)
  PROVE  IInv'
<1> DEFINE c   == call[s]
           row == [taskTip[c.t] EXCEPT !.status = "completed", !.done = c.at]
<1>1. c \in Call /\ c.pc = "write" /\ c.op = "complete" /\ c.t \in Tasks /\ CallOK(c)
  BY DEF IInv, TypeOK, CallsOK, CallOK, CompleteTask, At
<1>2. CASE ~IsOpen(taskTip[c.t])
  BY <1>2, RollbackStep DEF CompleteTask, At
<1>3. CASE IsOpen(taskTip[c.t])
  <2>0. taskTip[c.t] \in TaskRow /\ c.at \in TimeOrNull
    BY <1>1 DEF IInv, TypeOK, Call
  <2>1. row \in TaskRow
    BY <2>0 DEF TaskRow, Statuses
  <2>2. CallOK([c EXCEPT !.pc = "commit"])
    BY <1>1 DEF CallOK, Call
  <2>3. CallsOK' /\ RowsOK' /\ HoldersOK' /\ call' \in [Sessions -> Call]
    BY <1>1, <1>3, <2>2, GotoStep DEF CompleteTask, WriteTask
  <2> HIDE DEF row
  <2>4. taskTip' \in [Tasks -> TaskRow] /\ taskLock' \in [Tasks -> Sessions \cup {Free}]
    BY <1>1, <1>3, <2>1 DEF CompleteTask, WriteTask, IInv, TypeOK, row
  <2> QED
    BY <1>3, <2>3, <2>4, TaskWrite DEF CompleteTask, WriteTask, At
<1> QED
  BY <1>2, <1>3

LEMMA CancelTaskInv ==
  ASSUME IInv, NEW s \in Sessions, CancelTask(s)
  PROVE  IInv'
<1> DEFINE c   == call[s]
           row == [taskTip[c.t] EXCEPT !.status = "cancelled"]
<1>1. c \in Call /\ c.pc = "write" /\ c.op = "cancel" /\ c.t \in Tasks /\ CallOK(c)
  BY DEF IInv, TypeOK, CallsOK, CallOK, CancelTask, At
<1>2. CASE ~IsOpen(taskTip[c.t])
  BY <1>2, RollbackStep DEF CancelTask, At
<1>3. CASE IsOpen(taskTip[c.t])
  <2>1. row \in TaskRow
    BY <1>1 DEF IInv, TypeOK, TaskRow, Statuses
  <2>2. CallOK([c EXCEPT !.pc = "commit"])
    BY <1>1 DEF CallOK, Call
  <2>3. CallsOK' /\ RowsOK' /\ HoldersOK' /\ call' \in [Sessions -> Call]
    BY <1>1, <1>3, <2>2, GotoStep DEF CancelTask, WriteTask
  <2> HIDE DEF row
  <2>4. taskTip' \in [Tasks -> TaskRow] /\ taskLock' \in [Tasks -> Sessions \cup {Free}]
    BY <1>1, <1>3, <2>1 DEF CancelTask, WriteTask, IInv, TypeOK, row
  <2> QED
    BY <1>3, <2>3, <2>4, TaskWrite DEF CancelTask, WriteTask, At
<1> QED
  BY <1>2, <1>3

LEMMA ReassignTaskInv ==
  ASSUME IInv, NEW s \in Sessions, ReassignTask(s)
  PROVE  IInv'
<1> DEFINE c   == call[s]
           row == [Forgotten(taskTip[c.t]) EXCEPT
                     !.assignee = c.to, !.due = c.due, !.blocked = Null,
                     !.credit = 0, !.moved = TRUE]
           ok  == IsOpen(taskTip[c.t]) /\ taskTip[c.t].assignee = c.from
<1>1. c \in Call /\ c.pc = "write" /\ c.op = "reassign" /\ c.t \in Tasks /\ CallOK(c)
  BY DEF IInv, TypeOK, CallsOK, CallOK, ReassignTask, At
<1>2. CASE ~ok
  BY <1>2, RollbackStep DEF ReassignTask, At
<1>3. CASE ok
  <2>0. /\ taskTip[c.t] \in TaskRow /\ c.due \in TimeOrNull /\ Null \in TimeOrNull
        /\ c.to \in Employees \cup {Nobody}
    BY <1>1 DEF IInv, TypeOK, Call, TimeOrNull
  <2>1. row \in TaskRow
    BY <2>0 DEF TaskRow, Forgotten
  <2>2. CallOK([c EXCEPT !.pc = "commit"])
    BY <1>1 DEF CallOK, Call
  <2>3. CallsOK' /\ RowsOK' /\ HoldersOK' /\ call' \in [Sessions -> Call]
    BY <1>1, <1>3, <2>2, GotoStep DEF ReassignTask, WriteTask
  <2> HIDE DEF row
  <2>4. taskTip' \in [Tasks -> TaskRow] /\ taskLock' \in [Tasks -> Sessions \cup {Free}]
    BY <1>1, <1>3, <2>1 DEF ReassignTask, WriteTask, IInv, TypeOK, row
  <2> QED
    BY <1>3, <2>3, <2>4, TaskWrite DEF ReassignTask, WriteTask, At
<1> QED
  BY <1>2, <1>3

LEMMA UpdateTaskInv ==
  ASSUME IInv, NEW s \in Sessions, UpdateTask(s)
  PROVE  IInv'
<1> DEFINE c    == call[s]
           row  == taskTip[c.t]
           kept == IF c.old.told = Null THEN row ELSE Forgotten(row)
           new  == IF c.due = c.old.due THEN kept ELSE [kept EXCEPT !.due = c.due]
<1>1. c \in Call /\ c.pc = "write" /\ c.op = "update" /\ c.t \in Tasks /\ CallOK(c)
  BY DEF IInv, TypeOK, CallsOK, CallOK, UpdateTask, At
<1>2. CallOK([c EXCEPT !.pc = "commit"])
  BY <1>1 DEF CallOK, Call
<1>3. UNCHANGED <<task, block, blockTip, blockLock, active, now>>
  BY DEF UpdateTask, At, WriteTask, tables
<1>4. CallsOK' /\ RowsOK' /\ HoldersOK' /\ call' \in [Sessions -> Call]
  BY <1>1, <1>2, <1>3, GotoStep DEF UpdateTask
<1>5. row \in TaskRow /\ Null \in TimeOrNull
  BY <1>1 DEF IInv, TypeOK, TimeOrNull
<1>6. kept \in TaskRow /\ c.due \in TimeOrNull
  BY <1>1, <1>5 DEF TaskRow, Forgotten, Call
<1> HIDE DEF kept
<1>7. new \in TaskRow
  BY <1>6 DEF TaskRow
<1> HIDE DEF new
<1>8. taskTip' \in [Tasks -> TaskRow] /\ taskLock' \in [Tasks -> Sessions \cup {Free}]
  BY <1>1, <1>7 DEF UpdateTask, WriteTask, IInv, TypeOK, new, kept, tables
<1> QED
  BY <1>3, <1>4, <1>8, TaskWrite

LEMMA MarkTaskBlockedInv ==
  ASSUME IInv, NEW s \in Sessions, MarkTaskBlocked(s)
  PROVE  IInv'
<1> DEFINE c   == call[s]
           row == [taskTip[c.t] EXCEPT !.blocked = c.at]
           ok  == IsOpen(taskTip[c.t]) /\ taskTip[c.t].blocked = Null
<1>1. c \in Call /\ c.pc = "write" /\ c.op = "block" /\ c.t \in Tasks /\ CallOK(c)
  BY DEF IInv, TypeOK, CallsOK, CallOK, MarkTaskBlocked, At
<1>2. CASE ~ok
  BY <1>2, RollbackStep DEF MarkTaskBlocked, At
<1>3. CASE ok
  <2>1. row \in TaskRow
    BY <1>1 DEF IInv, TypeOK, TaskRow, Call
  <2>2. CallOK([c EXCEPT !.pc = "insert_block"])
    BY <1>1 DEF CallOK, Call
  <2>3. CallsOK' /\ RowsOK' /\ HoldersOK' /\ call' \in [Sessions -> Call]
    BY <1>1, <1>3, <2>2, GotoStep DEF MarkTaskBlocked, WriteTask, Reserves
  <2> HIDE DEF row
  <2>4. taskTip' \in [Tasks -> TaskRow] /\ taskLock' \in [Tasks -> Sessions \cup {Free}]
    BY <1>1, <1>3, <2>1 DEF MarkTaskBlocked, WriteTask, IInv, TypeOK, row
  <2> QED
    BY <1>3, <2>3, <2>4, TaskWrite DEF MarkTaskBlocked, WriteTask, At
<1> QED
  BY <1>2, <1>3

LEMMA UnassignTaskInv ==
  ASSUME IInv, NEW s \in Sessions, UnassignTask(s)
  PROVE  IInv'
<1> DEFINE c   == call[s]
           row == [taskTip[c.t] EXCEPT !.assignee = Nobody]
<1>1. c \in Call /\ c.pc = "write" /\ c.op = "scan" /\ c.t \in Tasks /\ CallOK(c)
  BY DEF IInv, TypeOK, CallsOK, CallOK, UnassignTask, At
<1>2. CallOK([c EXCEPT !.pc = "next_orphan"])
  BY <1>1 DEF CallOK, Call
<1>3. UNCHANGED <<task, block, blockTip, blockLock, active, now>>
  BY DEF UnassignTask, At, WriteTask, tables
<1>4. CallsOK' /\ RowsOK' /\ HoldersOK' /\ call' \in [Sessions -> Call]
  BY <1>1, <1>2, <1>3, GotoStep DEF UnassignTask
<1>5. row \in TaskRow
  BY <1>1 DEF IInv, TypeOK, TaskRow
<1> HIDE DEF row
<1>6. taskTip' \in [Tasks -> TaskRow] /\ taskLock' \in [Tasks -> Sessions \cup {Free}]
  BY <1>1, <1>5 DEF UnassignTask, WriteTask, IInv, TypeOK, row, tables
<1> QED
  BY <1>3, <1>4, <1>6, TaskWrite

LEMMA ClaimOverdueInv ==
  ASSUME IInv, NEW s \in Sessions, ClaimOverdue(s)
  PROVE  IInv'
<1> DEFINE c      == call[s]
           new(t) == [taskTip[t] EXCEPT !.told = c.at, !.alertFor = taskTip[t].due]
<1>1. c \in Call /\ c.pc = "claim" /\ CallOK(c)
  BY DEF IInv, TypeOK, CallsOK, ClaimOverdue, At
<1>2. CallOK([c EXCEPT !.pc = "commit"])
  BY <1>1 DEF CallOK, Call
<1>3. UNCHANGED <<task, block, blockTip, blockLock, active, now>>
  BY DEF ClaimOverdue, At
<1>4. CallsOK' /\ RowsOK' /\ HoldersOK' /\ call' \in [Sessions -> Call]
  BY <1>1, <1>2, <1>3, GotoStep DEF ClaimOverdue
<1>5. \A t \in Tasks : taskTip[t] \in TaskRow /\ new(t) \in TaskRow
  <2>1. c.at \in TimeOrNull /\ \A t \in Tasks : taskTip[t] \in TaskRow
    BY <1>1 DEF IInv, TypeOK, Call
  <2> QED
    BY <2>1 DEF TaskRow
<1> HIDE DEF new
<1>6. taskTip' \in [Tasks -> TaskRow]
  BY <1>5 DEF ClaimOverdue, new
<1>7. taskLock' \in [Tasks -> Sessions \cup {Free}]
  BY DEF ClaimOverdue, IInv, TypeOK
<1> QED
  BY <1>3, <1>4, <1>6, <1>7, TaskWrite

LEMMA NextOrphanInv ==
  ASSUME IInv, NEW s \in Sessions, NextOrphan(s)
  PROVE  IInv'
<1>1. /\ call[s] \in Call /\ call[s].pc = "next_orphan" /\ call[s].op = "scan" /\ CallOK(call[s])
      /\ UNCHANGED <<tables, active, now>>
  BY DEF IInv, TypeOK, CallsOK, CallOK, NextOrphan, At
<1>2. CASE call[s].todo = {}
  <2>1. CallOK([call[s] EXCEPT !.pc = "claim"])
    BY <1>1 DEF CallOK, Call
  <2>2. CallsOK' /\ RowsOK' /\ HoldersOK' /\ call' \in [Sessions -> Call]
    BY <1>1, <1>2, <2>1, GotoStep DEF NextOrphan, tables
  <2> QED
    BY <1>1, <2>2 DEF IInv, TypeOK, tables
<1>3. CASE call[s].todo # {}
  <2>1. PICK o \in call[s].todo :
          call' = [call EXCEPT ![s].pc = "find_block", ![s].t = o[1],
                               ![s].from = o[2], ![s].todo = @ \ {o}]
    BY <1>3 DEF NextOrphan
  <2> DEFINE c == [call[s] EXCEPT !.pc = "find_block", !.t = o[1],
                                  !.from = o[2], !.todo = @ \ {o}]
  <2>2. call' = [call EXCEPT ![s] = c]
    BY <2>1, <1>1 DEF IInv, TypeOK
  <2>3. o[1] \in Tasks /\ o[2] \in Employees /\ call[s].todo \ {o} \in Orphans
    BY <1>1 DEF Call, Orphans
  <2>4. c \in Call /\ c.pc = "find_block" /\ c.op = "scan" /\ c.b = call[s].b /\ CallOK(c)
    BY <1>1, <2>3 DEF Call, CallOK
  <2>5. \A b \in Blocks : ~Owes(call[s], b) /\ ~Owes(c, b)
    BY <1>1, <2>4 DEF Owes
  <2>6. \A b \in Blocks : blockLock[b] = s => blockTip[b].end # Null /\ Exists(block[b])
    BY <1>1 DEF IInv, HoldersOK, HolderOK
  <2>7. ~Reserves(c) /\ \A r \in Sessions \ {s} : Reserves(call[r]) => c.b # call[r].b
    BY <2>4 DEF IInv, CallsOK, ReservedOK, Reserves
  <2> HIDE DEF c
  <2>8. CallsOK' /\ RowsOK' /\ HoldersOK' /\ call' \in [Sessions -> Call]
    BY <1>1, <2>2, <2>4, <2>5, <2>6, <2>7, CallStep DEF tables
  <2> QED
    BY <1>1, <2>8 DEF IInv, TypeOK, tables
<1> QED
  BY <1>2, <1>3

(* Finding an open block: what was found is committed, or the own insert.  *)
LEMMA GetOpenBlockInv ==
  ASSUME IInv, NEW s \in Sessions, GetOpenBlock(s)
  PROVE  IInv'
<1>1. /\ call[s] \in Call /\ call[s].pc = "find_block" /\ CallOK(call[s])
      /\ UNCHANGED <<active, now>> /\ call[s].op # "block"
  BY DEF IInv, TypeOK, CallsOK, CallOK, GetOpenBlock, At
<1>2. CASE RolledBack(s)
  BY <1>1, <1>2, RollbackStep
<1>3. CASE Goto(s, "write") /\ UNCHANGED tables
  <2>1. CallOK([call[s] EXCEPT !.pc = "write"])
    BY <1>1 DEF CallOK, Call
  <2>2. CallsOK' /\ RowsOK' /\ HoldersOK' /\ call' \in [Sessions -> Call]
    BY <1>1, <1>3, <2>1, GotoStep DEF tables
  <2> QED
    BY <1>1, <1>3, <2>2 DEF IInv, TypeOK, tables
<1>4. CASE \E b \in {d \in Blocks : Open(SeenBlock(s, d), call[s].t)} :
             /\ call' = [call EXCEPT ![s].pc = "close_block", ![s].b = b,
                                     ![s].at = IF call[s].op = "unblock" THEN now ELSE call[s].at]
             /\ UNCHANGED tables
  <2>1. PICK b \in Blocks :
          /\ Open(SeenBlock(s, b), call[s].t)
          /\ call' = [call EXCEPT ![s].pc = "close_block", ![s].b = b,
                                  ![s].at = IF call[s].op = "unblock" THEN now ELSE call[s].at]
    BY <1>4
  <2> DEFINE at == IF call[s].op = "unblock" THEN now ELSE call[s].at
             c  == [call[s] EXCEPT !.pc = "close_block", !.b = b, !.at = at]
  <2>2. call' = [call EXCEPT ![s] = c]
    BY <2>1, <1>1 DEF IInv, TypeOK
  <2>3. at \in Nat /\ at \in TimeOrNull /\ call[s].t \in Tasks
    BY <1>1 DEF CallOK, IInv, TypeOK, TimeOrNull, Time
  <2>4. Exists(block[b])
    <3>1. Exists(SeenBlock(s, b))
      BY <2>1, <2>3, PeopleAssumption DEF Open, Exists
    <3> QED
      BY <3>1, <1>1 DEF SeenBlock, IInv, HoldersOK, HolderOK
  <2> HIDE DEF at
  <2>5. c \in Call /\ c.pc = "close_block" /\ c.op = call[s].op /\ c.b = b /\ CallOK(c)
    BY <1>1, <2>3 DEF Call, CallOK
  <2>6. \A d \in Blocks : ~Owes(call[s], d) /\ ~Owes(c, d)
    BY <1>1, <2>5 DEF Owes
  <2>7. \A d \in Blocks : blockLock[d] = s => blockTip[d].end # Null /\ Exists(block[d])
    BY <1>1 DEF IInv, HoldersOK, HolderOK
  <2>8. ~Reserves(c) /\ \A r \in Sessions \ {s} : Reserves(call[r]) => c.b # call[r].b
    BY <2>4, <2>5 DEF IInv, CallsOK, ReservedOK, Reserves
  <2> HIDE DEF c
  <2> UNCHANGED <<block, blockTip, blockLock>>
    BY <1>4 DEF tables
  <2>9. CallsOK' /\ RowsOK' /\ HoldersOK' /\ call' \in [Sessions -> Call]
    BY <2>2, <2>4, <2>5, <2>6, <2>7, <2>8, CallStep
  <2> QED
    BY <1>1, <1>4, <2>9 DEF IInv, TypeOK, tables
<1> QED
  BY <1>2, <1>3, <1>4 DEF GetOpenBlock

-----------------------------------------------------------------------------
(* Statements that write a block. *)

(* The row is free, so its newest version is the committed one, and what   *)
(* is written is one step of the ledger, up to a payment still owed.       *)
LEMMA BlockWrite ==
  ASSUME IInv, NEW s \in Sessions, NEW b \in Blocks, NEW row \in BlockRow,
         NEW pc \in {"clear_block", "credit", "commit"},
         WriteBlock(s, b, row), Goto(s, pc), UNCHANGED <<active, now>>,
         call[s].b = b,
         call[s].pc \notin {"idle", "commit", "clear_block", "credit"},
         CallOK([call[s] EXCEPT !.pc = pc]),
         blockLock[b] = Free,
         Exists(row),
         Ledger!Step(block[b], Settled(row)),
         pc = "commit" => row = Settled(row),
         pc # "commit" => row.paid = 0 /\ row.end # Null /\ Exists(block[b]),
         pc = "credit" => Approved(row)
  PROVE  IInv'
<1> USE DEF IInv
<1> DEFINE c == [call[s] EXCEPT !.pc = pc]
<1>1. /\ call' \in [Sessions -> Call] /\ call'[s] = c /\ c.pc = pc /\ c.b = b
      /\ c.op = call[s].op /\ CallOK(c)
      /\ \A r \in Sessions \ {s} : call'[r] = call[r]
  <2>1. call \in [Sessions -> Call] /\ call[s] \in Call /\ call' = [call EXCEPT ![s] = c]
    BY DEF TypeOK, Goto
  <2>2. c \in Call /\ c.pc = pc /\ c.b = b /\ c.op = call[s].op
    BY <2>1 DEF Call
  <2>3. CallOK(c)
    OBVIOUS
  <2> HIDE DEF c
  <2> QED
    BY <2>1, <2>2, <2>3
<1> HIDE DEF c
<1>2. /\ block' = block
      /\ blockTip'[b] = row /\ blockLock'[b] = s
      /\ \A d \in Blocks \ {b} : blockTip'[d] = blockTip[d] /\ blockLock'[d] = blockLock[d]
  BY DEF TypeOK, WriteBlock
<1>3. \A r \in Sessions : r # Free
  BY BlocksAssumption
<1>4. TypeOK'
  BY <1>1 DEF TypeOK, WriteBlock
<1>5. \A r \in Sessions : ~Owes(call[r], b)
  BY <1>3 DEF CallsOK, RefOK, Owes
<1>6. (\E r \in Sessions : Owes(call'[r], b)) <=> pc # "commit"
  BY <1>1, <1>5 DEF Owes
<1>7. \A d \in Blocks \ {b} :
        (\E r \in Sessions : Owes(call'[r], d)) <=> (\E r \in Sessions : Owes(call[r], d))
  BY <1>1 DEF Owes
<1>8. ASSUME NEW d \in Blocks PROVE (RowOK(block[d]) /\ TipOK(d))'
  <2>1. RowOK(block[d]) /\ TipOK(d)
    BY DEF RowsOK
  <2>2. CASE d = b
    BY <1>2, <1>3, <1>6, <2>1, <2>2 DEF TipOK
  <2>3. CASE d # b
    BY <1>2, <1>7, <2>1, <2>3 DEF TipOK
  <2> QED
    BY <2>2, <2>3
<1>9. ASSUME NEW r \in Sessions PROVE (CallOK(call[r]) /\ RefOK(r) /\ ReservedOK(r))'
  <2>1. CallOK(call[r]) /\ RefOK(r) /\ ReservedOK(r) /\ RefOK(s)
    BY DEF CallsOK
  <2>2. CASE r = s
    BY <1>1, <1>2, <2>2 DEF RefOK, ReservedOK, Reserves
  <2>3. CASE r # s
    <3>1. call'[r] = call[r]
      BY <1>1, <2>3
    <3>2. RefOK(r)'
      BY <3>1, <1>2, <1>3, <2>1 DEF RefOK, CallOK
    <3>3. ReservedOK(r)'
      BY <3>1, <1>1, <1>2, <2>1, <2>3 DEF ReservedOK, Reserves, CallOK
    <3> QED
      BY <2>1, <3>1, <3>2, <3>3
  <2> QED
    BY <2>2, <2>3
<1>10. ASSUME NEW r \in Sessions, NEW d \in Blocks PROVE HolderOK(r, d)'
  <2>1. HolderOK(r, d)
    BY DEF HoldersOK
  <2>2. CASE d = b
    BY <1>1, <1>2, <2>2 DEF HolderOK
  <2>3. CASE d # b
    BY <1>1, <1>2, <2>1, <2>3 DEF HolderOK
  <2> QED
    BY <2>2, <2>3
<1> QED
  BY <1>4, <1>8, <1>9, <1>10 DEF RowsOK, CallsOK, HoldersOK

(* One lemma for each statement that writes blocks.                        *)
LEMMA CloseBlockInv ==
  ASSUME IInv, NEW s \in Sessions, CloseBlock(s)
  PROVE  IInv'
<1> DEFINE c   == call[s]
           b   == c.b
           row == [blockTip[b] EXCEPT !.end = c.at]
           ok  == Closable(blockTip[b], c.at)
<1>1. c \in Call /\ c.pc = "close_block" /\ CallOK(c) /\ b \in Blocks /\ c.at \in Nat
  BY DEF IInv, TypeOK, CallsOK, CallOK, CloseBlock, At
<1>2. CASE ~ok
  BY <1>2, RollbackStep DEF CloseBlock, At
<1>3. CASE ok
  <2>1. Exists(block[b])
    BY <1>1 DEF IInv, CallsOK, RefOK
  <2>2. blockLock[b] = Free /\ blockTip[b] = block[b]
    BY <1>1, <1>3, <2>1 DEF CloseBlock, Closable, CanLockBlock, IInv, HoldersOK, HolderOK, RowsOK, TipOK
  <2>3. /\ RowOK(block[b]) /\ block[b].start \in Nat /\ block[b].end = Null /\ block[b].paid = 0
        /\ c.at >= block[b].start
    BY <1>1, <1>3, <2>1, <2>2 DEF Closable, IInv, RowsOK, RowOK, PaidInFull
  <2>4. row \in BlockRow /\ Exists(row) /\ row.paid = 0 /\ row.end = c.at
    BY <1>1, <2>1, <2>2, <2>3 DEF RowOK, BlockRow, TimeOrNull, Time, Exists
  <2>5. c.at # Null
    BY <1>1, PeopleAssumption
  <2>6. Ledger!Step(block[b], Settled(row))
    BY <1>1, <2>1, <2>2, <2>3, <2>4, <2>5
    DEF Settled, PaidInFull, Approved, Exists, RowOK, BlockRow, Ledger!Step, Ledger!Ended, Ledger!Running, Ledger!Approved
  <2>7. CallOK([c EXCEPT !.pc = "clear_block"])
    BY <1>1 DEF CallOK, Call
  <2>8. WriteBlock(s, b, row) /\ Goto(s, "clear_block") /\ UNCHANGED <<active, now>>
    BY <1>3 DEF CloseBlock, At
  <2> HIDE DEF row
  <2> QED
    BY <1>1, <2>1, <2>2, <2>4, <2>5, <2>6, <2>7, <2>8, BlockWrite
<1> QED
  BY <1>2, <1>3

LEMMA CreateBlockInv ==
  ASSUME IInv, NEW s \in Sessions, CreateBlock(s)
  PROVE  IInv'
<1> DEFINE c      == call[s]
           b      == c.b
           row    == [NoBlock EXCEPT !.of = c.t, !.by = c.by, !.start = c.at]
           rivals == Rivals(c.t)
<1>1. /\ c \in Call /\ c.pc = "insert_block" /\ c.op = "block" /\ CallOK(c)
      /\ b \in Blocks /\ c.at \in Nat /\ c.t \in Tasks
  BY DEF IInv, TypeOK, CallsOK, CallOK, CreateBlock, At
<1>2. CASE rivals # {}
  BY <1>2, RollbackStep DEF CreateBlock, At
<1>3. CASE rivals = {}
  <2>1. ~Exists(block[b]) /\ ~Exists(blockTip[b])
    BY <1>1 DEF IInv, CallsOK, ReservedOK, Reserves
  <2>2. blockLock[b] = Free /\ RowOK(block[b]) /\ block[b] = NoBlock
    BY <1>1, <2>1 DEF IInv, TypeOK, HoldersOK, HolderOK, RowsOK, RowOK
  <2>3. c.t # Null
    BY <1>1, TaskIdsAreNumbers
  <2>4. c.by \in People
    BY <1>1 DEF CallOK
  <2>5. /\ row \in BlockRow /\ Exists(row)
        /\ row.end = Null /\ row.review = "pending" /\ row.paid = 0
    BY <1>1, <2>3, <2>4 DEF NoBlock, BlockRow, TimeOrNull, Time, Exists
  <2>9. row = Settled(row)
    BY <2>5 DEF Settled, PaidInFull, Approved, BlockRow
  <2>6. Ledger!Step(block[b], row)
    BY <1>1, <2>2, <2>3, <2>4
    DEF NoBlock, Ledger!Step, Ledger!Recorded, Ledger!Unwritten, Ledger!Blank
  <2>7. CallOK([c EXCEPT !.pc = "commit"])
    BY <1>1 DEF CallOK, Call
  <2>8. WriteBlock(s, b, row) /\ Goto(s, "commit") /\ UNCHANGED <<active, now>>
    BY <1>3 DEF CreateBlock, At
  <2> HIDE DEF row
  <2> QED
    BY <1>1, <2>2, <2>5, <2>6, <2>7, <2>8, <2>9, BlockWrite
<1> QED
  BY <1>2, <1>3

LEMMA ReviewBlockInv ==
  ASSUME IInv, NEW s \in Sessions, ReviewBlock(s)
  PROVE  IInv'
<1> DEFINE c       == call[s]
           b       == c.b
           verdict == IF c.op = "approve" THEN "approved" ELSE "rejected"
           row     == [blockTip[b] EXCEPT !.review = verdict]
           pc      == IF c.op = "approve" /\ blockTip[b].end # Null THEN "credit" ELSE "commit"
<1>1. c \in Call /\ c.pc = "review" /\ CallOK(c) /\ b \in Blocks
  BY DEF IInv, TypeOK, CallsOK, CallOK, ReviewBlock, At
<1>2. CASE blockTip[b].review # "pending"
  BY <1>2, RollbackStep DEF ReviewBlock, At
<1>3. CASE blockTip[b].review = "pending"
  <2>1. Exists(block[b])
    BY <1>1 DEF IInv, CallsOK, RefOK
  <2>2. blockLock[b] = Free /\ blockTip[b] = block[b]
    BY <1>1 DEF ReviewBlock, CanLockBlock, IInv, HoldersOK, HolderOK, RowsOK, TipOK
  <2>3. RowOK(block[b]) /\ block[b] \in BlockRow /\ block[b].paid = 0
    BY <1>1, <1>3, <2>2 DEF IInv, RowsOK, RowOK, PaidInFull, Approved
  <2>4. /\ row \in BlockRow /\ Exists(row) /\ row.paid = 0 /\ row.end = block[b].end
        /\ row.review = verdict
    BY <2>1, <2>2, <2>3 DEF BlockRow, Exists
  <2>5. Ledger!Step(block[b], Settled(row))
    BY <1>3, <2>1, <2>2, <2>3, <2>4
    DEF Settled, PaidInFull, Approved, Exists, BlockRow, Ledger!Step, Ledger!Reviewed, Ledger!Running, Ledger!Blank
  <2>6. pc = "commit" => row = Settled(row)
    BY <2>2, <2>3, <2>4 DEF Settled, PaidInFull, Approved, BlockRow
  <2>7. pc = "credit" => row.end # Null /\ Approved(row)
    BY <2>2, <2>4 DEF Approved
  <2>8. pc \in {"credit", "commit"} /\ CallOK([c EXCEPT !.pc = pc])
    BY <1>1 DEF CallOK, Call
  <2>9. WriteBlock(s, b, row) /\ Goto(s, pc) /\ UNCHANGED <<active, now>>
    BY <1>3 DEF ReviewBlock, At
  <2> HIDE DEF row, pc
  <2> QED
    BY <1>1, <2>1, <2>2, <2>4, <2>5, <2>6, <2>7, <2>8, <2>9, BlockWrite
<1> QED
  BY <1>2, <1>3

(* Crediting a task settles what was owed. *)
LEMMA Payment ==
  ASSUME IInv, NEW s \in Sessions, NEW pc \in {"commit", "write"},
         call[s].pc \in {"clear_block", "credit"},
         blockTip' = [blockTip EXCEPT ![call[s].b].paid =
                        IF Approved(blockTip[call[s].b]) THEN @ + 1 ELSE @],
         UNCHANGED <<block, blockLock>>,
         Goto(s, pc), CallOK([call[s] EXCEPT !.pc = pc])
  PROVE  CallsOK' /\ RowsOK' /\ HoldersOK' /\ call' \in [Sessions -> Call]
         /\ blockTip' \in [Blocks -> BlockRow]
<1> USE DEF IInv
<1> DEFINE c == [call[s] EXCEPT !.pc = pc]
           b == call[s].b
<1>1. /\ call' \in [Sessions -> Call] /\ call'[s] = c /\ c.pc = pc /\ c.b = b
      /\ c.op = call[s].op /\ CallOK(c) /\ call[s].op # "block"
      /\ \A r \in Sessions \ {s} : call'[r] = call[r]
  <2>1. call \in [Sessions -> Call] /\ call[s] \in Call /\ call' = [call EXCEPT ![s] = c]
    BY DEF TypeOK, Goto
  <2>2. c \in Call /\ c.pc = pc /\ c.b = b /\ c.op = call[s].op /\ call[s].op # "block"
    BY <2>1 DEF Call, CallsOK, CallOK
  <2>3. CallOK(c)
    OBVIOUS
  <2> HIDE DEF c
  <2> QED
    BY <2>1, <2>2, <2>3
<1> HIDE DEF c
<1>2. b \in Blocks /\ blockLock[b] = s /\ blockTip[b].end # Null /\ blockTip[b] \in BlockRow
  BY DEF CallsOK, CallOK, RefOK, TypeOK
<1>3. blockTip[b].paid = 0 /\ (\E r \in Sessions : Owes(call[r], b))
  BY <1>2 DEF RowsOK, TipOK, Owes
<1>4. /\ blockTip' \in [Blocks -> BlockRow]
      /\ blockTip'[b] = Settled(blockTip[b])
      /\ \A d \in Blocks \ {b} : blockTip'[d] = blockTip[d]
  <2> DEFINE old == blockTip[b]
             new == [old EXCEPT !.paid = IF Approved(old) THEN @ + 1 ELSE @]
  <2>1. blockTip \in [Blocks -> BlockRow] /\ blockTip' = [blockTip EXCEPT ![b] = new]
    BY DEF TypeOK
  <2>2. new = Settled(old)
    BY <1>2, <1>3 DEF Settled, PaidInFull, BlockRow
  <2>3. Settled(old) \in BlockRow
    BY <1>2 DEF Settled, PaidInFull, BlockRow
  <2> HIDE DEF new
  <2> QED
    BY <1>2, <2>1, <2>2, <2>3
<1>5. /\ Settled(blockTip'[b]) = blockTip'[b] /\ blockTip'[b].end = blockTip[b].end
      /\ Exists(blockTip'[b]) <=> Exists(blockTip[b])
      /\ Approved(blockTip'[b]) <=> Approved(blockTip[b])
  BY <1>2, <1>4 DEF Settled, PaidInFull, Approved, BlockRow, Exists
<1>6. \A r \in Sessions : ~Owes(call'[r], b)
  BY <1>1, <1>2 DEF Owes, CallsOK, RefOK
<1>7. \A d \in Blocks \ {b} :
        (\E r \in Sessions : Owes(call'[r], d)) <=> (\E r \in Sessions : Owes(call[r], d))
  BY <1>1 DEF Owes
<1>8. ASSUME NEW d \in Blocks PROVE (RowOK(block[d]) /\ TipOK(d))'
  <2>1. RowOK(block[d]) /\ TipOK(d)
    BY DEF RowsOK
  <2>2. CASE d = b
    BY <1>2, <1>4, <1>5, <1>6, <2>1, <2>2, BlocksAssumption DEF TipOK
  <2>3. CASE d # b
    BY <1>4, <1>7, <2>1, <2>3 DEF TipOK
  <2> QED
    BY <2>2, <2>3
<1>9. ASSUME NEW r \in Sessions PROVE (CallOK(call[r]) /\ RefOK(r) /\ ReservedOK(r))'
  <2>1. CallOK(call[r]) /\ RefOK(r) /\ ReservedOK(r) /\ RefOK(s)
    BY DEF CallsOK
  <2>2. CASE r = s
    BY <1>1, <2>2 DEF RefOK, ReservedOK, Reserves
  <2>3. CASE r # s
    <3>1. call'[r] = call[r]
      BY <1>1, <2>3
    <3>2. RefOK(r)'
      BY <3>1, <1>2, <1>4, <2>1, <2>3 DEF RefOK, CallOK
    <3>3. ReservedOK(r)'
      BY <3>1, <1>1, <1>4, <1>5, <2>1, <2>3 DEF ReservedOK, Reserves, CallOK
    <3> QED
      BY <2>1, <3>1, <3>2, <3>3
  <2> QED
    BY <2>2, <2>3
<1>10. ASSUME NEW r \in Sessions, NEW d \in Blocks PROVE HolderOK(r, d)'
  <2>1. HolderOK(r, d)
    BY DEF HoldersOK
  <2> QED
    BY <2>1, <1>1, <1>4, <1>5 DEF HolderOK
<1> QED
  BY <1>1, <1>4, <1>8, <1>9, <1>10 DEF RowsOK, CallsOK, HoldersOK

(* A step of the ledger leads from a good row to a good row. *)
LEMMA StepKeepsRowOK ==
  ASSUME NEW old \in BlockRow, NEW new \in BlockRow, RowOK(old), Ledger!Step(old, new)
  PROVE  RowOK(new) /\ Exists(new)
<1> USE DEF RowOK, PaidInFull, Approved, Exists, BlockRow
<1>1. CASE Ledger!Blank(old) /\ Ledger!Recorded(new)
  <2>1. new.of \in Tasks /\ new.start \in Nat /\ new.end = Null /\ new.paid = 0
    BY <1>1 DEF Ledger!Recorded, Ledger!Unwritten
  <2> QED
    BY <2>1, TaskIdsAreNumbers
<1>2. CASE Ledger!Ended(old, new)
  <2>1. /\ old.of # Null /\ old.start \in Nat
        /\ new.end \in Nat /\ new.end >= old.start
        /\ new.of = old.of /\ new.start = old.start /\ new.review = old.review
        /\ new.paid = IF old.review = "approved" THEN 1 ELSE 0
    BY <1>2 DEF Ledger!Ended, Ledger!Running, Ledger!Approved
  <2>2. new.end # Null
    BY <2>1, PeopleAssumption
  <2> QED
    BY <2>1, <2>2
<1>3. CASE Ledger!Reviewed(old, new)
  BY <1>3 DEF Ledger!Reviewed, Ledger!Running, Ledger!Blank
<1> QED
  BY <1>1, <1>2, <1>3 DEF Ledger!Step

(* Settled, the newest version of a row would be a good committed row.     *)
LEMMA SettledTip ==
  ASSUME IInv, NEW b \in Blocks
  PROVE  /\ RowOK(Settled(blockTip[b]))
         /\ Exists(block[b]) => Exists(blockTip[b])
<1>1. block[b] \in BlockRow /\ blockTip[b] \in BlockRow /\ RowOK(block[b]) /\ TipOK(b)
  BY DEF IInv, TypeOK, RowsOK
<1>2. Settled(blockTip[b]) \in BlockRow /\ Settled(blockTip[b]).of = blockTip[b].of
  BY <1>1 DEF Settled, PaidInFull, BlockRow
<1> QED
  BY <1>1, <1>2, StepKeepsRowOK DEF TipOK, Exists

(* The length of a block that has ended is a number. *)
LEMMA LengthOfEnded ==
  ASSUME IInv, NEW b \in Blocks, blockTip[b].end # Null
  PROVE  Length(blockTip[b]) \in Nat
<1>1. RowOK(Settled(blockTip[b])) /\ blockTip[b] \in BlockRow
  BY SettledTip DEF IInv, TypeOK
<1>2. /\ Settled(blockTip[b]).end = blockTip[b].end
      /\ Settled(blockTip[b]).start = blockTip[b].start
  BY <1>1 DEF Settled, PaidInFull, BlockRow
<1> QED
  BY <1>1, <1>2 DEF RowOK, Length

(* Crediting keeps a task's row a row. *)
LEMMA CreditedRow ==
  ASSUME NEW row \in TaskRow, NEW blk, Length(blk) \in Nat
  PROVE  Credited(row, blk) \in TaskRow
<1> DEFINE n == Length(blk)
           f == Forgotten(row)
<1>1. n \in Nat
  OBVIOUS
<1>2. f \in TaskRow
  BY DEF TaskRow, Forgotten, TimeOrNull
<1>3. Credited(row, blk) = [f EXCEPT !.credit = @ + n]
  BY DEF Credited
<1> HIDE DEF f, n
<1>4. f.credit + n \in Nat
  BY <1>1, <1>2 DEF TaskRow
<1> QED
  BY <1>2, <1>3, <1>4 DEF TaskRow

(* Crediting settles what is owed.                                         *)
LEMMA ClearBlockedStateInv ==
  ASSUME IInv, NEW s \in Sessions, ClearBlockedState(s)
  PROVE  IInv'
<1> DEFINE c   == call[s]
           blk == blockTip[c.b]
           row == [taskTip[c.t] EXCEPT !.blocked = Null]
           new == IF Approved(blk) /\ Length(blk) > 0 THEN Credited(row, blk) ELSE row
           pc  == IF c.op = "unblock" THEN "commit" ELSE "write"
<1>1. /\ c \in Call /\ c.pc = "clear_block" /\ CallOK(c) /\ c.b \in Blocks /\ c.t \in Tasks
      /\ blk.end # Null /\ c.op # "block"
  BY DEF IInv, TypeOK, CallsOK, CallOK, RefOK, ClearBlockedState, At
<1>2. Length(blk) \in Nat
  BY <1>1, LengthOfEnded
<1>3. taskTip[c.t] \in TaskRow /\ Null \in TimeOrNull
  BY <1>1 DEF IInv, TypeOK, TimeOrNull
<1>4. row \in TaskRow
  BY <1>3 DEF TaskRow
<1> HIDE DEF row
<1>5. new \in TaskRow
  BY <1>2, <1>4, CreditedRow
<1>6. taskTip' \in [Tasks -> TaskRow] /\ taskLock' \in [Tasks -> Sessions \cup {Free}]
  <2>1. taskTip' = [taskTip EXCEPT ![c.t] = new] /\ taskLock' = [taskLock EXCEPT ![c.t] = s]
    BY DEF ClearBlockedState, row
  <2> HIDE DEF new
  <2> QED
    BY <1>5, <2>1 DEF IInv, TypeOK
<1>7. CallOK([c EXCEPT !.pc = pc]) /\ pc \in {"commit", "write"}
  BY <1>1 DEF CallOK, Call
<1>8. /\ blockTip' = [blockTip EXCEPT ![c.b].paid = IF Approved(blk) THEN @ + 1 ELSE @]
      /\ Goto(s, pc)
      /\ UNCHANGED <<task, block, blockLock, active, now>>
  BY DEF ClearBlockedState, At
<1> HIDE DEF pc
<1>9. CallsOK' /\ RowsOK' /\ HoldersOK' /\ call' \in [Sessions -> Call]
      /\ blockTip' \in [Blocks -> BlockRow]
  BY <1>1, <1>7, <1>8, Payment
<1> QED
  BY <1>6, <1>8, <1>9 DEF IInv, TypeOK

LEMMA AddApprovedSecondsInv ==
  ASSUME IInv, NEW s \in Sessions, AddApprovedSeconds(s)
  PROVE  IInv'
<1> DEFINE c   == call[s]
           blk == blockTip[c.b]
           new == Credited(taskTip[c.t], blk)
<1>1. /\ c \in Call /\ c.pc = "credit" /\ CallOK(c) /\ c.b \in Blocks /\ c.t \in Tasks
      /\ blk.end # Null /\ Approved(blk) /\ c.op # "block"
  BY DEF IInv, TypeOK, CallsOK, CallOK, RefOK, AddApprovedSeconds, At
<1>2. Length(blk) \in Nat
  BY <1>1, LengthOfEnded
<1>3. taskTip[c.t] \in TaskRow /\ Null \in TimeOrNull
  BY <1>1 DEF IInv, TypeOK, TimeOrNull
<1>4. new \in TaskRow
  BY <1>2, <1>3, CreditedRow
<1>5. taskTip' \in [Tasks -> TaskRow] /\ taskLock' \in [Tasks -> Sessions \cup {Free}]
  <2>1. taskTip' = [taskTip EXCEPT ![c.t] = new] /\ taskLock' = [taskLock EXCEPT ![c.t] = s]
    BY DEF AddApprovedSeconds
  <2> HIDE DEF new
  <2> QED
    BY <1>4, <2>1 DEF IInv, TypeOK
<1>6. CallOK([c EXCEPT !.pc = "commit"])
  BY <1>1 DEF CallOK, Call
<1>7. /\ blockTip' = [blockTip EXCEPT ![c.b].paid = IF Approved(blk) THEN @ + 1 ELSE @]
      /\ Goto(s, "commit")
      /\ UNCHANGED <<task, block, blockLock, active, now>>
  BY <1>1 DEF AddApprovedSeconds, At
<1>8. CallsOK' /\ RowsOK' /\ HoldersOK' /\ call' \in [Sessions -> Call]
      /\ blockTip' \in [Blocks -> BlockRow]
  BY <1>1, <1>6, <1>7, Payment
<1> QED
  BY <1>5, <1>7, <1>8 DEF IInv, TypeOK

-----------------------------------------------------------------------------
(* What a commit publishes is, block by block, one step of the ledger. *)

(* A commit publishes each row unchanged or one ledger step on.            *)
LEMMA Published ==
  ASSUME IInv, NEW s \in Sessions, Commit(s), NEW b \in Blocks
  PROVE  /\ blockTip'[b] = blockTip[b]
         /\ blockLock[b] = s =>
              /\ block'[b] = blockTip[b] /\ blockLock'[b] = Free
              /\ blockTip[b] = Settled(blockTip[b])
              /\ ~ \E r \in Sessions : Owes(call[r], b)
         /\ blockLock[b] # s => block'[b] = block[b] /\ blockLock'[b] = blockLock[b]
         /\ block'[b] = block[b] \/ Ledger!Step(block[b], block'[b])
         /\ RowOK(block'[b])
         /\ Exists(block[b]) => Exists(block'[b])
<1> USE DEF IInv
<1>1. /\ blockTip'[b] = blockTip[b]
      /\ blockLock[b] = s => block'[b] = blockTip[b] /\ blockLock'[b] = Free
      /\ blockLock[b] # s => block'[b] = block[b] /\ blockLock'[b] = blockLock[b]
  BY DEF Commit
<1>2. RowOK(block[b]) /\ TipOK(b) /\ call[s].pc = "commit"
  BY DEF RowsOK, Commit
<1>3. ASSUME blockLock[b] = s PROVE ~ \E r \in Sessions : Owes(call[r], b)
  BY <1>2, <1>3 DEF CallsOK, RefOK, Owes
<1> QED
  BY <1>1, <1>2, <1>3, SettledTip DEF TipOK

(* After a commit nothing is owed on the rows it published.                *)
LEMMA CommitInv ==
  ASSUME IInv, NEW s \in Sessions, Commit(s)
  PROVE  IInv'
<1> USE DEF IInv
<1>1. Idle \in Call /\ CallOK(Idle) /\ ~Reserves(Idle) /\ \A b \in Blocks : ~Owes(Idle, b) /\ Idle.b # b
  BY IdleIsACall, BlocksAssumption DEF Idle, CallOK, Reserves, Owes
<1>2. /\ call' \in [Sessions -> Call] /\ call'[s] = Idle /\ call[s].pc = "commit"
      /\ \A r \in Sessions \ {s} : call'[r] = call[r]
  BY <1>1 DEF Commit, TypeOK
<1>3. TypeOK'
  BY <1>2 DEF TypeOK, Commit
<1>4. ASSUME NEW b \in Blocks PROVE (RowOK(block[b]) /\ TipOK(b))'
  <2>1. TipOK(b) /\ RowOK(block'[b]) /\ Free # s
    BY Published, BlocksAssumption DEF RowsOK
  <2>2. CASE blockLock[b] = s
    <3>1. /\ blockTip'[b] = blockTip[b] /\ block'[b] = blockTip[b]
          /\ blockTip[b] = Settled(blockTip[b])
          /\ ~ \E r \in Sessions : Owes(call[r], b)
      BY <2>2, Published
    <3>2. ~ \E r \in Sessions : Owes(call'[r], b)
      <4> SUFFICES ASSUME NEW r \in Sessions PROVE ~Owes(call'[r], b)
        OBVIOUS
      <4>1. CASE r = s
        BY <4>1, <1>1, <1>2
      <4>2. CASE r # s
        BY <4>2, <1>2, <3>1
      <4> QED
        BY <4>1, <4>2
    <3>3. /\ blockTip'[b] \in BlockRow /\ blockTip'[b] = block'[b]
          /\ blockTip'[b] = Settled(blockTip'[b])
      <4>1. blockTip[b] \in BlockRow
        BY <2>1 DEF TipOK
      <4> QED
        BY <4>1, <3>1
    <3>4. TipOK(b)'
      BY <3>2, <3>3 DEF TipOK
    <3> QED
      BY <2>1, <3>4
  <2>3. CASE blockLock[b] # s
    <3>1. (\E r \in Sessions : Owes(call'[r], b)) <=> (\E r \in Sessions : Owes(call[r], b))
      BY <1>1, <1>2 DEF Owes
    <3> QED
      BY <2>1, <2>3, <3>1, Published DEF TipOK
  <2> QED
    BY <2>2, <2>3
<1>5. ASSUME NEW r \in Sessions PROVE (CallOK(call[r]) /\ RefOK(r) /\ ReservedOK(r))'
  <2>1. CASE r = s
    BY <1>1, <1>2, <2>1 DEF RefOK, ReservedOK, Idle
  <2>2. CASE r # s
    <3>1. call'[r] = call[r] /\ CallOK(call[r]) /\ RefOK(r) /\ ReservedOK(r)
      BY <1>2, <2>2 DEF CallsOK
    <3>2. RefOK(r)'
      BY <3>1, <2>2, Published DEF RefOK, CallOK
    <3>3. ReservedOK(r)'
      BY <3>1, <1>1, <1>2, <2>2, Published DEF ReservedOK, Reserves, CallOK
    <3> QED
      BY <3>1, <3>2, <3>3
  <2> QED
    BY <2>1, <2>2
<1>6. ASSUME NEW r \in Sessions, NEW b \in Blocks PROVE HolderOK(r, b)'
  <2>1. HolderOK(r, b) /\ Free # r
    BY BlocksAssumption DEF HoldersOK
  <2> QED
    BY <2>1, <1>2, Published DEF HolderOK
<1> QED
  BY <1>3, <1>4, <1>5, <1>6 DEF RowsOK, CallsOK, HoldersOK

(* Time, departures and returns touch no table.                            *)
LEMMA SurroundingsInv ==
  ASSUME IInv, Tick \/ \E e \in Employees : Offboard(e) \/ Reinstate(e)
  PROVE  IInv'
<1> USE DEF IInv
<1>1. UNCHANGED <<tables, call>> /\ active' \subseteq Employees /\ now' \in Nat
  BY DEF TypeOK, Tick, Offboard, Reinstate
<1>2. TypeOK'
  BY <1>1 DEF TypeOK, tables
<1>3. CallsOK'
  BY <1>1 DEF CallsOK, RefOK, ReservedOK, tables
<1>4. RowsOK'
  BY <1>1 DEF RowsOK, TipOK, tables
<1>5. HoldersOK'
  BY <1>1 DEF HoldersOK, HolderOK, tables
<1> QED
  BY <1>2, <1>3, <1>4, <1>5

(* IInv is inductive.                                                      *)
LEMMA NextIInv == IInv /\ [Next]_vars => IInv'
<1> SUFFICES ASSUME IInv, [Next]_vars PROVE IInv'
  OBVIOUS
<1>1. ASSUME NEW s \in Sessions, StartUserRequest(s) PROVE IInv'
  BY <1>1, StartCreateInv, StartUpdateInv, StartEndingInv, StartReassignInv, StartBlockInv
  DEF StartUserRequest
<1>2. ASSUME NEW s \in Sessions, StartOther(s) PROVE IInv'
  BY <1>2, StartScanInv, StartReviewInv, StartCreateInv DEF StartOther
<1>3. ASSUME NEW s \in Sessions, Statement(s) PROVE IInv'
  BY <1>3, InsertTaskInv, GetOpenBlockInv, CloseBlockInv, ClearBlockedStateInv,
     CompleteTaskInv, CancelTaskInv, ReassignTaskInv, UpdateTaskInv, MarkTaskBlockedInv,
     CreateBlockInv, ReviewBlockInv, AddApprovedSecondsInv, NextOrphanInv,
     UnassignTaskInv, ClaimOverdueInv
  DEF Statement
<1>4. ASSUME NEW s \in Sessions, Commit(s) \/ Rollback(s) PROVE IInv'
  BY <1>4, CommitInv, RollbackStep DEF Rollback
<1>5. CASE Tick \/ \E e \in Employees : Offboard(e) \/ Reinstate(e)
  BY <1>5, SurroundingsInv
<1>6. CASE UNCHANGED vars
  <2>1. UNCHANGED <<task, taskTip, taskLock, block, blockTip, blockLock, call, active, now>>
    BY <1>6 DEF vars, tables
  <2>2. TypeOK'
    BY <2>1 DEF IInv, TypeOK
  <2>3. CallsOK'
    BY <2>1 DEF IInv, CallsOK, RefOK, ReservedOK
  <2>4. RowsOK'
    BY <2>1 DEF IInv, RowsOK, TipOK
  <2>5. HoldersOK'
    BY <2>1 DEF IInv, HoldersOK, HolderOK
  <2> QED
    BY <2>2, <2>3, <2>4, <2>5 DEF IInv
<1> QED
  BY <1>1, <1>2, <1>3, <1>4, <1>5, <1>6 DEF Next

(* IInv is an invariant of the specification.                              *)
LEMMA SpecIInv == Spec => []IInv
  BY InitIInv, NextIInv, PTL DEF Spec

(* Type correctness, for any number of people, tasks, blocks and           *)
(* concurrent transactions.                                                *)
THEOREM TypeCorrect == Spec => []TypeOK
<1>1. IInv => TypeOK
  BY DEF IInv
<1> QED
  BY <1>1, SpecIInv, PTL

(* However reviews and endings of blocks race, each block's length is      *)
(* credited exactly once, when it is both approved and over.               *)
THEOREM BlocksArePaidExactlyOnce == Spec => []PaidExactlyOnce
<1>1. IInv => PaidExactlyOnce
  BY DEF IInv, RowsOK, RowOK, PaidInFull, PaidExactlyOnce
<1> QED
  BY <1>1, SpecIInv, PTL

(* Only a commit changes what is committed, and it changes each block by   *)
(* at most one step of the ledger: TaskBlocks implements BlockLedger.      *)
LEMMA OnlyCommitPublishes ==
  ASSUME [Next]_vars
  PROVE  (\E s \in Sessions : Commit(s)) \/ UNCHANGED <<task, block>>
<1> USE DEF tables, WriteTask, WriteBlock, RolledBack, Begin
<1>1. ASSUME NEW s \in Sessions, StartUserRequest(s) PROVE UNCHANGED <<task, block>>
  <2>1. PICK p \in People, t \in Tasks :
          \/ StartComplete(s, p, t) \/ StartCancel(s, p, t) \/ StartUnblock(s, p, t)
          \/ \E b \in Blocks : StartBlock(s, p, t, b)
          \/ \E due \in Deadlines : StartUpdate(s, p, t, due)
          \/ \E due \in Deadlines, to \in Employees : StartReassign(s, p, t, to, due)
          \/ \E due \in Deadlines, to \in Employees \cup {Nobody} : StartCreate(s, p, t, to, due)
    BY <1>1 DEF StartUserRequest
  <2>2. CASE StartComplete(s, p, t) \/ StartCancel(s, p, t) \/ StartUnblock(s, p, t)
    BY <2>2 DEF StartComplete, StartCancel, StartUnblock
  <2>3. CASE \E b \in Blocks : StartBlock(s, p, t, b)
    BY <2>3 DEF StartBlock
  <2>4. CASE \E due \in Deadlines : StartUpdate(s, p, t, due)
    BY <2>4 DEF StartUpdate
  <2>5. CASE \E due \in Deadlines, to \in Employees : StartReassign(s, p, t, to, due)
    BY <2>5 DEF StartReassign
  <2>6. CASE \E due \in Deadlines, to \in Employees \cup {Nobody} : StartCreate(s, p, t, to, due)
    BY <2>6 DEF StartCreate
  <2> QED
    BY <2>1, <2>2, <2>3, <2>4, <2>5, <2>6
<1>2. ASSUME NEW s \in Sessions, StartOther(s) PROVE UNCHANGED <<task, block>>
  BY <1>2 DEF StartOther, StartScan, StartReview, StartCreateWorkflowTask
<1>3. ASSUME NEW s \in Sessions, Statement(s) PROVE UNCHANGED <<task, block>>
  <2>1. CASE InsertTask(s) \/ GetOpenBlock(s) \/ CloseBlock(s) \/ ClearBlockedState(s)
    BY <2>1 DEF InsertTask, GetOpenBlock, CloseBlock, ClearBlockedState
  <2>2. CASE CompleteTask(s) \/ CancelTask(s) \/ ReassignTask(s) \/ UpdateTask(s)
    BY <2>2 DEF CompleteTask, CancelTask, ReassignTask, UpdateTask
  <2>3. CASE MarkTaskBlocked(s) \/ CreateBlock(s) \/ ReviewBlock(s) \/ AddApprovedSeconds(s)
    BY <2>3 DEF MarkTaskBlocked, CreateBlock, ReviewBlock, AddApprovedSeconds
  <2>4. CASE NextOrphan(s) \/ UnassignTask(s) \/ ClaimOverdue(s)
    BY <2>4 DEF NextOrphan, UnassignTask, ClaimOverdue
  <2> QED
    BY <1>3, <2>1, <2>2, <2>3, <2>4 DEF Statement
<1>4. ASSUME NEW s \in Sessions, Rollback(s) PROVE UNCHANGED <<task, block>>
  BY <1>4 DEF Rollback
<1>5. CASE Tick \/ \E e \in Employees : Offboard(e) \/ Reinstate(e)
  BY <1>5 DEF Tick, Offboard, Reinstate
<1>6. CASE UNCHANGED vars
  BY <1>6 DEF vars
<1> QED
  BY <1>1, <1>2, <1>3, <1>4, <1>5, <1>6 DEF Next

(* The empty table is an empty ledger.                                     *)
LEMMA LedgerInit == Init => Ledger!Init
  BY DEF Init, NoBlock, Ledger!Init, Ledger!Unwritten

(* Only a commit changes the committed table, and it takes ledger steps.   *)
LEMMA LedgerStep == IInv /\ [Next]_vars => [Ledger!Next]_block
<1> SUFFICES ASSUME IInv, NEW s \in Sessions, Commit(s), NEW b \in Blocks
             PROVE  block'[b] = block[b] \/ Ledger!Step(block[b], block'[b])
  BY OnlyCommitPublishes DEF Ledger!Next
<1> QED
  BY Published

(* The committed rows of task_blocks refine the ledger of BlockLedger: a   *)
(* block is recorded, ended, reviewed and paid in a legal order, each at   *)
(* most once, whatever requests interleave.                                *)
THEOREM ImplementsTheLedger == Spec => BlocksFormALedger
<1>1. Init => Ledger!Init
  BY LedgerInit
<1>2. IInv /\ [Next]_vars => [Ledger!Next]_block
  BY LedgerStep
<1> QED
  BY <1>1, <1>2, SpecIInv, PTL DEF Spec, BlocksFormALedger, Ledger!Spec

-----------------------------------------------------------------------------
(***************************************************************************)
(* A task that has ended stays as it ended: the proof that TaskBlocks      *)
(* satisfies FinalIsFinal, for any number of people, tasks and concurrent  *)
(* transactions.                                                           *)
(*                                                                         *)
(* The newest version of a row that is over in the committed table must    *)
(* agree with it, because the next commit publishes it.  That needs two    *)
(* facts about who can reach a row: an id being inserted is known to one   *)
(* transaction only, and every other task a transaction works on exists.   *)
(***************************************************************************)

(* The task has been committed.                                            *)
Known(t) == task[t].status # "absent"

SameEnding(old, new) ==
  new.status = old.status /\ new.done = old.done /\ new.assignee = old.assignee

(* The newest version of a task respects the committed one. *)
TaskTipOK(t) ==
  /\ Known(t) => taskTip[t].status # "absent"
  /\ IsOver(task[t]) => SameEnding(task[t], taskTip[t])

(* A row somebody holds is committed already, or is their insert.          *)
TaskHolderOK(s, t) == taskLock[t] = s =>
  Known(t) \/ (call[s].t = t /\ call[s].pc = "commit")

(* What a transaction knows of the tasks it works on. *)
TargetOK(s) == LET c == call[s] IN
  /\ c.pc = "insert" =>
       /\ c.t \in Tasks /\ ~Known(c.t) /\ taskLock[c.t] = Free
       /\ \A r \in Sessions \ {s} : call[r].t # c.t
  /\ c.pc \notin {"idle", "insert", "commit"} /\ c.t \in Tasks => Known(c.t)
  /\ \A o \in c.todo : Known(o[1])

(* Blocks are about committed tasks.                                       *)
BlocksOfKnown ==
  \A b \in Blocks :
    /\ Exists(block[b]) => Known(block[b].of)
    /\ Exists(blockTip[b]) => Known(blockTip[b].of)

(* What IInv lacks for FinalIsFinal to be inductive.                       *)
FInv ==
  /\ \A t \in Tasks : TaskTipOK(t)
  /\ \A s \in Sessions, t \in Tasks : TaskHolderOK(s, t)
  /\ \A s \in Sessions : TargetOK(s)
  /\ BlocksOfKnown

(* FInv holds initially.                                                   *)
LEMMA InitFInv == Init => FInv
BY PeopleAssumption, BlocksAssumption
DEF Init, FInv, TaskTipOK, TaskHolderOK, TargetOK, BlocksOfKnown, Known, NoTask, NoBlock, Idle, Exists, IsOver

(* What a step of s that publishes nothing may do to the newest version of *)
(* a task: leave it, restore it, or write it respecting the committed row. *)
Respects(s, t) ==
  \/ taskTip'[t] = taskTip[t] /\ taskLock'[t] = taskLock[t]
  \/ taskTip'[t] = task[t] /\ taskLock'[t] = Free
  \/ /\ taskLock'[t] = s
     /\ taskTip'[t].status # "absent"
     /\ IsOver(task[t]) => SameEnding(task[t], taskTip'[t])
     /\ Known(t) \/ (call[s].pc = "insert" /\ call[s].t = t)

(* A step that publishes nothing and respects every task preserves FInv.   *)
LEMMA QuietStep ==
  ASSUME FInv, NEW s \in Sessions, NEW c,
         call \in [Sessions -> Call], call' = [call EXCEPT ![s] = c],
         UNCHANGED <<task, block>>,
         c.pc = "insert" => c.t \in Tasks /\ NewId(c.t) /\ UNCHANGED taskLock
                            /\ taskLock \in [Tasks -> Sessions \cup {Free}],
         c.pc \notin {"idle", "insert", "commit"} /\ c.t \in Tasks => Known(c.t),
         c.pc = "insert" \/ c.t = call[s].t \/ c.t = Null \/ Known(c.t),
         \A o \in c.todo : Known(o[1]),
         \A t \in Tasks : Respects(s, t),
         \A t \in Tasks : taskLock'[t] = s => Known(t) \/ (c.t = t /\ c.pc = "commit"),
         \A b \in Blocks : Exists(blockTip'[b]) => Known(blockTip'[b].of)
  PROVE  FInv'
<1> USE DEF FInv
<1>1. call'[s] = c /\ \A r \in Sessions \ {s} : call'[r] = call[r]
  OBVIOUS
<1>2. \A t \in Tasks : Known(t)' <=> Known(t)
  BY DEF Known
<1>3. ASSUME NEW t \in Tasks PROVE TaskTipOK(t)'
  BY <1>2 DEF TaskTipOK, Respects, SameEnding, Known
<1>4. ASSUME NEW r \in Sessions, NEW t \in Tasks PROVE TaskHolderOK(r, t)'
  <2>1. CASE r = s
    BY <1>1, <1>2, <2>1 DEF TaskHolderOK
  <2>2. CASE r # s
    <3>1. taskLock'[t] = r => taskLock[t] = r
      BY <2>2, BlocksAssumption DEF Respects
    <3> QED
      BY <1>1, <1>2, <2>2, <3>1 DEF TaskHolderOK
  <2> QED
    BY <2>1, <2>2
<1>5. ASSUME NEW r \in Sessions PROVE TargetOK(r)'
  <2>1. CASE r = s
    <3>1. ASSUME c.pc = "insert"
          PROVE  ~Known(c.t) /\ taskLock'[c.t] = Free /\ \A q \in Sessions \ {s} : call'[q].t # c.t
      <4>1. c.t \in Tasks /\ ~Known(c.t) /\ \A q \in Sessions : call[q].t # c.t
        BY <3>1 DEF NewId, Known
      <4>2. \A q \in Sessions : taskLock[c.t] # q
        BY <4>1 DEF TaskHolderOK
      <4> QED
        BY <1>1, <3>1, <4>1, <4>2
    <3>2. \A o \in c.todo : Known(o[1])'
      BY DEF Known
    <3>3. c.t \in Tasks => (Known(c.t)' <=> Known(c.t))
      BY <1>2
    <3> QED
      BY <1>1, <2>1, <3>1, <3>2, <3>3 DEF TargetOK, Known
  <2>2. CASE r # s
    <3>1. call'[r] = call[r] /\ TargetOK(r)
      BY <1>1, <2>2
    <3>2. ASSUME call[r].pc = "insert"
          PROVE  taskLock'[call[r].t] = Free /\ c.t # call[r].t
      <4> DEFINE t == call[r].t
      <4>1. t \in Tasks /\ ~Known(t) /\ taskLock[t] = Free /\ call[s].t # t
        BY <3>1, <3>2, <2>2 DEF TargetOK
      <4>2. taskLock'[t] = Free
        BY <4>1 DEF Respects
      <4>3. c.t # t
        BY <4>1, TaskIdsAreNumbers DEF NewId
      <4> QED
        BY <4>2, <4>3
    <3>3. \A o \in call[r].todo : Known(o[1])'
      BY <3>1 DEF Known, TargetOK
    <3> QED
      BY <1>1, <1>2, <2>2, <3>1, <3>2, <3>3 DEF TargetOK, Known
  <2> QED
    BY <2>1, <2>2
<1>6. BlocksOfKnown'
  BY DEF BlocksOfKnown, Known
<1> QED
  BY <1>3, <1>4, <1>5, <1>6

-----------------------------------------------------------------------------
(* Requests. *)

(* Beginning a transaction.                                                *)
LEMMA BeginFStep ==
  ASSUME IInv, FInv, NEW s \in Sessions, NEW op, NEW c,
         Begin(s, op, c),
         c.pc = "insert" => c.t \in Tasks /\ NewId(c.t),
         c.pc # "insert" => c.t = Null \/ Known(c.t),
         \A o \in c.todo : Known(o[1])
  PROVE  FInv'
<1>1. /\ call \in [Sessions -> Call] /\ call' = [call EXCEPT ![s] = c]
      /\ taskLock \in [Tasks -> Sessions \cup {Free}]
      /\ UNCHANGED <<task, taskTip, taskLock, block, blockTip>>
  BY DEF IInv, TypeOK, Begin, tables
<1>2. \A t \in Tasks : taskLock[t] = s => Known(t)
  BY DEF FInv, TaskHolderOK, Begin, Idle
<1>3. \A t \in Tasks : Respects(s, t)
  BY <1>1 DEF Respects
<1>4. \A b \in Blocks : Exists(blockTip'[b]) => Known(blockTip'[b].of)
  BY <1>1 DEF FInv, BlocksOfKnown
<1>5. c.t \in Tasks => c.t # Null
  BY TaskIdsAreNumbers
<1> QED
  BY <1>1, <1>2, <1>3, <1>4, <1>5, QuietStep

(* Every request begins with a task that is known, or a fresh id.          *)
LEMMA RequestFInv ==
  ASSUME IInv, FInv, NEW s \in Sessions, StartUserRequest(s) \/ StartOther(s)
  PROVE  FInv'
<1>1. ASSUME NEW op, NEW pc, NEW t
      PROVE  /\ Request(op, pc, t).pc = pc /\ Timed(op, pc, t).pc = pc
             /\ Request(op, pc, t).t = t /\ Timed(op, pc, t).t = t
             /\ Request(op, pc, t).todo = {} /\ Timed(op, pc, t).todo = {}
  BY DEF Request, Timed, Idle
<1>2. ASSUME NEW p \in People, NEW t \in Tasks,
             StartComplete(s, p, t) \/ StartCancel(s, p, t) \/ StartUnblock(s, p, t)
      PROVE  FInv'
  BY <1>2, <1>1, BeginFStep DEF StartComplete, StartCancel, StartUnblock, Visible, Known
<1>3. ASSUME NEW p \in People, NEW t \in Tasks, NEW b \in Blocks, StartBlock(s, p, t, b)
      PROVE  FInv'
  <2> DEFINE c == [Timed("block", "write", t) EXCEPT !.by = p, !.b = b]
  <2>1. c.pc = "write" /\ c.t = t /\ c.todo = {}
    BY DEF Timed, Request, Idle
  <2>2. Begin(s, "block", c) /\ Known(t)
    BY <1>3 DEF StartBlock, Visible, Known
  <2> HIDE DEF c
  <2> QED
    BY <2>1, <2>2, BeginFStep
<1>4. ASSUME NEW p \in People, NEW t \in Tasks, NEW due \in Deadlines, StartUpdate(s, p, t, due)
      PROVE  FInv'
  <2> DEFINE c == [Request("update", "write", t) EXCEPT !.due = due,
                     !.old = [due |-> task[t].due, told |-> task[t].told]]
  <2>1. c.pc = "write" /\ c.t = t /\ c.todo = {}
    BY DEF Timed, Request, Idle
  <2>2. Begin(s, "update", c) /\ Known(t)
    BY <1>4 DEF StartUpdate, Visible, Known
  <2> HIDE DEF c
  <2> QED
    BY <2>1, <2>2, BeginFStep
<1>5. ASSUME NEW p \in People, NEW t \in Tasks, NEW due \in Deadlines, NEW to \in Employees,
             StartReassign(s, p, t, to, due)
      PROVE  FInv'
  <2> DEFINE c == [Timed("reassign", "find_block", t)
                     EXCEPT !.from = task[t].assignee, !.to = to, !.due = due]
  <2>1. c.pc = "find_block" /\ c.t = t /\ c.todo = {}
    BY DEF Timed, Request, Idle
  <2>2. Begin(s, "reassign", c) /\ Known(t)
    BY <1>5 DEF StartReassign, Visible, Known
  <2> HIDE DEF c
  <2> QED
    BY <2>1, <2>2, BeginFStep
<1>6. ASSUME NEW t \in Tasks, NEW due \in Deadlines, NEW to \in Employees \cup {Nobody},
             \/ \E p \in People : StartCreate(s, p, t, to, due)
             \/ StartCreateWorkflowTask(s, t, to, due)
      PROVE  FInv'
  <2>1. NewId(t) /\ \E who :
          Begin(s, "create", [Request("create", "insert", t) EXCEPT !.to = who, !.due = due])
    BY <1>6 DEF StartCreate, StartCreateWorkflowTask
  <2>2. PICK who :
          Begin(s, "create", [Request("create", "insert", t) EXCEPT !.to = who, !.due = due])
    BY <2>1
  <2> DEFINE c == [Request("create", "insert", t) EXCEPT !.to = who, !.due = due]
  <2>3. c.pc = "insert" /\ c.t = t /\ c.todo = {}
    BY DEF Timed, Request, Idle
  <2>4. Begin(s, "create", c)
    BY <2>2
  <2> HIDE DEF c
  <2> QED
    BY <2>1, <2>3, <2>4, BeginFStep
<1>7. ASSUME NEW p \in People, NEW b \in Blocks, NEW decision \in {"approve", "reject"},
             StartReview(s, p, b, decision)
      PROVE  FInv'
  <2> DEFINE c == [Request(decision, "review", block[b].of) EXCEPT !.b = b]
  <2>1. c.pc = "review" /\ c.t = block[b].of /\ c.todo = {}
    BY DEF Timed, Request, Idle
  <2>2. Begin(s, decision, c) /\ Known(block[b].of)
    BY <1>7 DEF StartReview, FInv, BlocksOfKnown
  <2> HIDE DEF c
  <2> QED
    BY <2>1, <2>2, BeginFStep
<1>8. ASSUME StartScan(s)
      PROVE  FInv'
  <2> DEFINE orphans == {<<t, task[t].assignee>> : t \in LeaversTasks}
             c       == [Timed("scan", "next_orphan", Null) EXCEPT !.todo = orphans]
  <2>1. Begin(s, "scan", c)
    BY <1>8, Zenon DEF StartScan
  <2>2. \A o \in orphans : Known(o[1])
    BY DEF LeaversTasks, Known, IsOpen
  <2> HIDE DEF orphans
  <2>3. c.pc = "next_orphan" /\ c.t = Null /\ c.todo = orphans
    BY DEF Timed, Request, Idle
  <2> HIDE DEF c
  <2> QED
    BY <2>1, <2>2, <2>3, BeginFStep
<1> QED
  BY <1>2, <1>3, <1>4, <1>5, <1>6, <1>7, <1>8 DEF StartUserRequest, StartOther

-----------------------------------------------------------------------------
(* Statements. *)

SameOwners == \A b \in Blocks : blockTip'[b].of = blockTip[b].of

(* Moving on to the next statement, with the same task.                    *)
LEMMA StatementFStep ==
  ASSUME IInv, FInv, NEW s \in Sessions, NEW c,
         call' = [call EXCEPT ![s] = c], UNCHANGED <<task, block>>,
         c.t = call[s].t, c.todo \subseteq call[s].todo,
         c.pc # "insert",
         call[s].pc \notin {"idle", "commit"},
         call[s].pc = "insert" => c.pc = "commit",
         \A t \in Tasks : Respects(s, t),
         \A t \in Tasks : taskLock'[t] = s => Known(t) \/ (c.t = t /\ c.pc = "commit"),
         \A b \in Blocks : Exists(blockTip'[b]) => Known(blockTip'[b].of)
  PROVE  FInv'
<1>1. call \in [Sessions -> Call] /\ TargetOK(s)
  BY DEF IInv, TypeOK, FInv
<1>2. c.pc \notin {"idle", "insert", "commit"} /\ c.t \in Tasks => Known(c.t)
  BY <1>1 DEF TargetOK
<1>3. \A o \in c.todo : Known(o[1])
  BY <1>1 DEF TargetOK
<1> QED
  BY <1>1, <1>2, <1>3, QuietStep

(* Moving on without touching the task tables. *)
LEMMA GotoFStep ==
  ASSUME IInv, FInv, NEW s \in Sessions, NEW pc, Goto(s, pc),
         UNCHANGED <<task, taskTip, taskLock, block>>, SameOwners,
         pc # "insert", call[s].pc \notin {"idle", "insert", "commit"}
  PROVE  FInv'
<1> DEFINE c == [call[s] EXCEPT !.pc = pc]
<1>1. call' = [call EXCEPT ![s] = c] /\ c.pc = pc /\ c.t = call[s].t /\ c.todo = call[s].todo
  BY DEF Goto, IInv, TypeOK, Call
<1>2. \A t \in Tasks : Respects(s, t) /\ (taskLock'[t] = s => Known(t))
  BY DEF Respects, FInv, TaskHolderOK
<1>3. \A b \in Blocks : Exists(blockTip'[b]) => Known(blockTip'[b].of)
  BY DEF FInv, BlocksOfKnown, SameOwners, Exists
<1> HIDE DEF c
<1> QED
  BY <1>1, <1>2, <1>3, StatementFStep

(* Moving on after a write of the task the transaction works on. *)
LEMMA WriteFStep ==
  ASSUME IInv, FInv, NEW s \in Sessions, NEW pc, NEW row, Goto(s, pc),
         call[s].t \in Tasks,
         taskTip' = [taskTip EXCEPT ![call[s].t] = row],
         taskLock' = [taskLock EXCEPT ![call[s].t] = s],
         UNCHANGED <<task, block>>, SameOwners,
         pc # "insert", call[s].pc \notin {"idle", "commit"},
         call[s].pc = "insert" => pc = "commit",
         row.status # "absent",
         IsOver(task[call[s].t]) => SameEnding(task[call[s].t], row)
  PROVE  FInv'
<1> DEFINE c == [call[s] EXCEPT !.pc = pc]
<1>1. call' = [call EXCEPT ![s] = c] /\ c.pc = pc /\ c.t = call[s].t /\ c.todo = call[s].todo
  BY DEF Goto, IInv, TypeOK, Call
<1>2. Known(call[s].t) \/ call[s].pc = "insert"
  BY DEF FInv, TargetOK
<1>3. taskTip \in [Tasks -> TaskRow] /\ taskLock \in [Tasks -> Sessions \cup {Free}]
  BY DEF IInv, TypeOK
<1>4. ASSUME NEW t \in Tasks
      PROVE  Respects(s, t) /\ (taskLock'[t] = s => Known(t) \/ (c.t = t /\ c.pc = "commit"))
  <2>1. CASE t = call[s].t
    BY <1>1, <1>2, <1>3, <2>1 DEF Respects
  <2>2. CASE t # call[s].t
    BY <1>3, <2>2 DEF Respects, FInv, TaskHolderOK
  <2> QED
    BY <2>1, <2>2
<1>5. \A b \in Blocks : Exists(blockTip'[b]) => Known(blockTip'[b].of)
  BY DEF FInv, BlocksOfKnown, SameOwners, Exists
<1> HIDE DEF c
<1> QED
  BY <1>1, <1>4, <1>5, StatementFStep

(* Giving up restores the committed rows.                                  *)
LEMMA RollbackFStep ==
  ASSUME IInv, FInv, NEW s \in Sessions, RolledBack(s)
  PROVE  FInv'
<1>1. call \in [Sessions -> Call] /\ call' = [call EXCEPT ![s] = Idle]
  BY DEF IInv, TypeOK, RolledBack
<1>2. Idle.pc = "idle" /\ Idle.t = Null /\ Idle.todo = {}
  BY DEF Idle
<1>3. \A t \in Tasks : Respects(s, t) /\ taskLock'[t] # s
  BY BlocksAssumption DEF RolledBack, Respects, IInv, TypeOK
<1>4. \A b \in Blocks : Exists(blockTip'[b]) => Known(blockTip'[b].of)
  BY DEF FInv, BlocksOfKnown, RolledBack
<1>5. UNCHANGED <<task, block>>
  BY DEF RolledBack
<1> QED
  BY <1>1, <1>2, <1>3, <1>4, <1>5, QuietStep

(* A guard on the newest version that only an open row passes. *)
LEMMA OpenTip ==
  ASSUME FInv, NEW t \in Tasks, IsOpen(taskTip[t])
  PROVE  ~IsOver(task[t])
BY DEF FInv, TaskTipOK, SameEnding, IsOpen, IsOver

(* The statements that end or reassign a task ask for an open row, so a    *)
(* row that is over is never theirs to write; the others leave status,     *)
(* completion time and assignee as they find them.                         *)
LEMMA EndingWritesFInv ==
  ASSUME IInv, FInv, NEW s \in Sessions, CompleteTask(s) \/ CancelTask(s)
  PROVE  FInv'
<1> DEFINE t == call[s].t
           row == IF call[s].op = "complete"
                  THEN [taskTip[t] EXCEPT !.status = "completed", !.done = call[s].at]
                  ELSE [taskTip[t] EXCEPT !.status = "cancelled"]
<1>1. t \in Tasks /\ taskTip[t] \in TaskRow /\ call[s].pc = "write"
  BY DEF IInv, TypeOK, CallsOK, CallOK, CompleteTask, CancelTask, At
<1>2. CASE RolledBack(s)
  BY <1>2, RollbackFStep
<1>3. CASE IsOpen(taskTip[t]) /\ WriteTask(s, t, row) /\ Goto(s, "commit")
  <2>1. row.status # "absent" /\ ~IsOver(task[t])
    BY <1>1, <1>3, OpenTip DEF TaskRow
  <2> HIDE DEF row
  <2> QED
    BY <1>1, <1>3, <2>1, WriteFStep DEF WriteTask, SameOwners
<1> QED
  BY <1>2, <1>3 DEF CompleteTask, CancelTask

LEMMA ReassignTaskFInv ==
  ASSUME IInv, FInv, NEW s \in Sessions, ReassignTask(s)
  PROVE  FInv'
<1> DEFINE t   == call[s].t
           row == [Forgotten(taskTip[t]) EXCEPT
                     !.assignee = call[s].to, !.due = call[s].due, !.blocked = Null,
                     !.credit = 0, !.moved = TRUE]
<1>1. t \in Tasks /\ taskTip[t] \in TaskRow /\ call[s].pc = "write"
  BY DEF IInv, TypeOK, CallsOK, CallOK, ReassignTask, At
<1>2. CASE RolledBack(s)
  BY <1>2, RollbackFStep
<1>3. CASE IsOpen(taskTip[t]) /\ WriteTask(s, t, row) /\ Goto(s, "commit")
  <2>1. row.status = taskTip[t].status
    BY <1>1 DEF TaskRow, Forgotten
  <2>2. row.status # "absent" /\ ~IsOver(task[t])
    BY <1>1, <1>3, <2>1, OpenTip DEF IsOpen
  <2> HIDE DEF row
  <2> QED
    BY <1>1, <1>3, <2>2, WriteFStep DEF WriteTask, SameOwners
<1> QED
  BY <1>2, <1>3 DEF ReassignTask

(* Writes that keep how the task ended and to whom it belongs. *)
LEMMA KeepingWrite ==
  ASSUME IInv, FInv, NEW s \in Sessions, NEW pc, NEW row, Goto(s, pc),
         call[s].t \in Tasks, SameEnding(taskTip[call[s].t], row),
         taskTip' = [taskTip EXCEPT ![call[s].t] = row],
         taskLock' = [taskLock EXCEPT ![call[s].t] = s],
         UNCHANGED <<task, block>>, SameOwners,
         pc # "insert", call[s].pc \notin {"idle", "commit", "insert"}
  PROVE  FInv'
<1>1. Known(call[s].t) /\ TaskTipOK(call[s].t)
  BY DEF FInv, TargetOK
<1>2. row.status # "absent" /\ (IsOver(task[call[s].t]) => SameEnding(task[call[s].t], row))
  BY <1>1 DEF TaskTipOK, SameEnding
<1> QED
  BY <1>2, WriteFStep

LEMMA UpdateTaskFInv ==
  ASSUME IInv, FInv, NEW s \in Sessions, UpdateTask(s)
  PROVE  FInv'
<1> DEFINE c    == call[s]
           row  == taskTip[c.t]
           kept == IF c.old.told = Null THEN row ELSE Forgotten(row)
           new  == IF c.due = c.old.due THEN kept ELSE [kept EXCEPT !.due = c.due]
<1>1. c.t \in Tasks /\ row \in TaskRow /\ c.pc = "write" /\ Goto(s, "commit")
  BY DEF IInv, TypeOK, CallsOK, CallOK, UpdateTask, At
<1>2. SameEnding(row, kept)
  BY <1>1 DEF TaskRow, Forgotten, SameEnding
<1>3. SameEnding(row, new)
  BY <1>1, <1>2 DEF TaskRow, Forgotten, SameEnding
<1>4. CASE UNCHANGED tables
  BY <1>1, <1>4, GotoFStep DEF tables, SameOwners
<1>5. CASE WriteTask(s, c.t, new)
  <2> HIDE DEF new
  <2> QED
    BY <1>1, <1>3, <1>5, KeepingWrite DEF WriteTask, SameOwners
<1> QED
  BY <1>4, <1>5 DEF UpdateTask

LEMMA MarkTaskBlockedFInv ==
  ASSUME IInv, FInv, NEW s \in Sessions, MarkTaskBlocked(s)
  PROVE  FInv'
<1> DEFINE c   == call[s]
           row == [taskTip[c.t] EXCEPT !.blocked = c.at]
<1>1. c.t \in Tasks /\ taskTip[c.t] \in TaskRow /\ c.pc = "write"
  BY DEF IInv, TypeOK, CallsOK, CallOK, MarkTaskBlocked, At
<1>2. CASE RolledBack(s)
  BY <1>2, RollbackFStep
<1>3. CASE WriteTask(s, c.t, row) /\ Goto(s, "insert_block")
  <2>1. SameEnding(taskTip[c.t], row)
    BY <1>1 DEF TaskRow, SameEnding
  <2> HIDE DEF row
  <2> QED
    BY <1>1, <1>3, <2>1, KeepingWrite DEF WriteTask, SameOwners
<1> QED
  BY <1>2, <1>3 DEF MarkTaskBlocked

LEMMA UnassignTaskFInv ==
  ASSUME IInv, FInv, NEW s \in Sessions, UnassignTask(s)
  PROVE  FInv'
<1> DEFINE t   == call[s].t
           row == [taskTip[t] EXCEPT !.assignee = Nobody]
<1>1. t \in Tasks /\ taskTip[t] \in TaskRow /\ call[s].pc = "write" /\ Goto(s, "next_orphan")
  BY DEF IInv, TypeOK, CallsOK, CallOK, UnassignTask, At
<1>2. CASE UNCHANGED tables
  BY <1>1, <1>2, GotoFStep DEF tables, SameOwners
<1>3. CASE IsOpen(taskTip[t]) /\ WriteTask(s, t, row)
  <2>1. row.status = taskTip[t].status
    BY <1>1 DEF TaskRow
  <2>2. row.status # "absent" /\ ~IsOver(task[t])
    BY <1>1, <1>3, <2>1, OpenTip DEF IsOpen
  <2> HIDE DEF row
  <2> QED
    BY <1>1, <1>3, <2>2, WriteFStep DEF WriteTask, SameOwners
<1> QED
  BY <1>2, <1>3 DEF UnassignTask

LEMMA InsertTaskFInv ==
  ASSUME IInv, FInv, NEW s \in Sessions, InsertTask(s)
  PROVE  FInv'
<1> DEFINE c   == call[s]
           row == [NoTask EXCEPT !.status = "open", !.assignee = c.to, !.due = c.due]
<1>1. c.t \in Tasks /\ c.pc = "insert" /\ ~Known(c.t)
  BY DEF FInv, TargetOK, InsertTask, At
<1>2. row.status = "open" /\ ~IsOver(task[c.t])
  BY <1>1 DEF NoTask, Known, IsOver
<1> HIDE DEF row
<1> QED
  BY <1>1, <1>2, WriteFStep DEF InsertTask, WriteTask, SameOwners, row

LEMMA ClaimOverdueFInv ==
  ASSUME IInv, FInv, NEW s \in Sessions, ClaimOverdue(s)
  PROVE  FInv'
<1> DEFINE c      == call[s]
           new(t) == [taskTip[t] EXCEPT !.told = c.at, !.alertFor = taskTip[t].due]
           found  == {t \in Tasks : Claimable(s, t)}
           next   == [c EXCEPT !.pc = "commit"]
<1>1. /\ call' = [call EXCEPT ![s] = next] /\ c.pc = "claim"
      /\ next.pc = "commit" /\ next.t = c.t /\ next.todo = c.todo
  BY DEF ClaimOverdue, At, Goto, IInv, TypeOK, Call
<1>2. ASSUME NEW t \in Tasks PROVE Respects(s, t) /\ (taskLock'[t] = s => Known(t))
  <2>1. taskTip[t] \in TaskRow /\ TaskTipOK(t) /\ TaskHolderOK(s, t)
    BY DEF IInv, TypeOK, FInv
  <2>2. SameEnding(taskTip[t], new(t))
    BY <2>1 DEF TaskRow, SameEnding
  <2>3. CASE t \notin found
    <3>1. taskTip'[t] = taskTip[t] /\ taskLock'[t] = taskLock[t]
      BY <2>3 DEF ClaimOverdue
    <3> QED
      BY <1>1, <2>1, <3>1 DEF Respects, TaskHolderOK
  <2>4. CASE t \in found
    <3>1. taskTip'[t] = new(t) /\ taskLock'[t] = s
      BY <2>4 DEF ClaimOverdue
    <3>2. IsOpen(SeenTask(s, t))
      BY <2>4 DEF Claimable, IsOverdue
    <3>3. Known(t)
      BY <1>1, <2>1, <3>2 DEF SeenTask, Known, IsOpen, TaskHolderOK
    <3> HIDE DEF new, found
    <3> QED
      BY <2>1, <2>2, <3>1, <3>3 DEF Respects, SameEnding, TaskTipOK
  <2> QED
    BY <2>3, <2>4
<1>3. UNCHANGED <<task, block>> /\ \A b \in Blocks : Exists(blockTip'[b]) => Known(blockTip'[b].of)
  BY DEF ClaimOverdue, FInv, BlocksOfKnown
<1> HIDE DEF next
<1> QED
  BY <1>1, <1>2, <1>3, StatementFStep

LEMMA GetOpenBlockFInv ==
  ASSUME IInv, FInv, NEW s \in Sessions, GetOpenBlock(s)
  PROVE  FInv'
<1>1. call[s] \in Call /\ call[s].pc = "find_block"
  BY DEF IInv, TypeOK, GetOpenBlock, At
<1>2. CASE RolledBack(s)
  BY <1>2, RollbackFStep
<1>3. CASE Goto(s, "write") /\ UNCHANGED tables
  BY <1>1, <1>3, GotoFStep DEF tables, SameOwners
<1>4. ASSUME NEW b, NEW at, UNCHANGED tables,
             call' = [call EXCEPT ![s].pc = "close_block", ![s].b = b, ![s].at = at]
      PROVE  FInv'
  <2> DEFINE c == [call[s] EXCEPT !.pc = "close_block", !.b = b, !.at = at]
  <2>1. /\ call' = [call EXCEPT ![s] = c]
        /\ c.pc = "close_block" /\ c.t = call[s].t /\ c.todo = call[s].todo
    BY <1>1, <1>4 DEF IInv, TypeOK, Call
  <2>2. \A t \in Tasks : Respects(s, t) /\ (taskLock'[t] = s => Known(t))
    BY <1>1, <1>4 DEF Respects, FInv, TaskHolderOK, tables
  <2>3. \A d \in Blocks : Exists(blockTip'[d]) => Known(blockTip'[d].of)
    BY <1>4 DEF FInv, BlocksOfKnown, tables
  <2>4. UNCHANGED <<task, block>>
    BY <1>4 DEF tables
  <2> HIDE DEF c
  <2> QED
    BY <1>1, <2>1, <2>2, <2>3, <2>4, StatementFStep
<1> QED
  BY <1>2, <1>3, <1>4 DEF GetOpenBlock

LEMMA CloseAndReviewFInv ==
  ASSUME IInv, FInv, NEW s \in Sessions, CloseBlock(s) \/ ReviewBlock(s)
  PROVE  FInv'
<1> DEFINE c == call[s]
<1>1. c.b \in Blocks /\ c.pc \in {"close_block", "review"} /\ blockTip[c.b] \in BlockRow
  BY DEF IInv, TypeOK, CallsOK, CallOK, CloseBlock, ReviewBlock, At
<1>2. CASE RolledBack(s)
  BY <1>2, RollbackFStep
<1>3. ASSUME NEW row, NEW pc \in {"clear_block", "credit", "commit"},
             WriteBlock(s, c.b, row), Goto(s, pc), row.of = blockTip[c.b].of
      PROVE  FInv'
  <2>1. SameOwners
    BY <1>1, <1>3 DEF WriteBlock, SameOwners, IInv, TypeOK
  <2> QED
    BY <1>1, <1>3, <2>1, GotoFStep DEF WriteBlock
<1>4. CASE CloseBlock(s)
  <2>1. [blockTip[c.b] EXCEPT !.end = c.at].of = blockTip[c.b].of
    BY <1>1 DEF BlockRow
  <2> QED
    BY <1>2, <1>3, <1>4, <2>1 DEF CloseBlock, Closable
<1>5. CASE ReviewBlock(s)
  <2>1. \A v : [blockTip[c.b] EXCEPT !.review = v].of = blockTip[c.b].of
    BY <1>1 DEF BlockRow
  <2> QED
    BY <1>2, <1>3, <1>5, <2>1 DEF ReviewBlock
<1> QED
  BY <1>4, <1>5

LEMMA CreateBlockFInv ==
  ASSUME IInv, FInv, NEW s \in Sessions, CreateBlock(s)
  PROVE  FInv'
<1> DEFINE c    == call[s]
           row  == [NoBlock EXCEPT !.of = c.t, !.by = c.by, !.start = c.at]
           next == [c EXCEPT !.pc = "commit"]
<1>1. /\ c.b \in Blocks /\ c.pc = "insert_block" /\ c.t \in Tasks
      /\ Known(c.t)
  BY DEF IInv, TypeOK, CallsOK, CallOK, CreateBlock, At, FInv, TargetOK
<1>2. CASE RolledBack(s)
  BY <1>2, RollbackFStep
<1>3. CASE WriteBlock(s, c.b, row) /\ Goto(s, "commit")
  <2>1. /\ call' = [call EXCEPT ![s] = next] /\ next.pc = "commit"
        /\ next.t = c.t /\ next.todo = c.todo
    BY <1>3 DEF Goto, IInv, TypeOK, Call
  <2>2. \A t \in Tasks : Respects(s, t) /\ (taskLock'[t] = s => Known(t))
    BY <1>1, <1>3 DEF Respects, FInv, TaskHolderOK, WriteBlock
  <2>3. row.of = c.t
    BY DEF NoBlock
  <2> HIDE DEF row, next
  <2>4. \A b \in Blocks : Exists(blockTip'[b]) => Known(blockTip'[b].of)
    BY <1>1, <1>3, <2>3 DEF FInv, BlocksOfKnown, WriteBlock, IInv, TypeOK
  <2> QED
    BY <1>1, <1>3, <2>1, <2>2, <2>4, StatementFStep DEF WriteBlock
<1> QED
  BY <1>2, <1>3 DEF CreateBlock

LEMMA CreditingFInv ==
  ASSUME IInv, FInv, NEW s \in Sessions, ClearBlockedState(s) \/ AddApprovedSeconds(s)
  PROVE  FInv'
<1> DEFINE c   == call[s]
           blk == blockTip[c.b]
           row == [taskTip[c.t] EXCEPT !.blocked = Null]
           new == IF ~ClearBlockedState(s) THEN Credited(taskTip[c.t], blk)
                  ELSE IF Approved(blk) /\ Length(blk) > 0 THEN Credited(row, blk) ELSE row
<1>1. /\ c.t \in Tasks /\ taskTip[c.t] \in TaskRow /\ c.pc \in {"clear_block", "credit"}
      /\ c.b \in Blocks
  BY DEF IInv, TypeOK, CallsOK, CallOK, ClearBlockedState, AddApprovedSeconds, At
<1>2. /\ taskTip' = [taskTip EXCEPT ![c.t] = new]
      /\ taskLock' = [taskLock EXCEPT ![c.t] = s]
      /\ UNCHANGED <<task, block>>
  BY DEF ClearBlockedState, AddApprovedSeconds
<1>3. SameEnding(taskTip[c.t], row)
  BY <1>1 DEF TaskRow, SameEnding
<1>4. \A r \in TaskRow : SameEnding(r, Credited(r, blk))
  <2> SUFFICES ASSUME NEW r \in TaskRow PROVE SameEnding(r, Credited(r, blk))
    OBVIOUS
  <2>1. Forgotten(r) \in TaskRow /\ SameEnding(r, Forgotten(r))
    BY DEF TaskRow, Forgotten, SameEnding, TimeOrNull
  <2> QED
    BY <2>1 DEF Credited, TaskRow, SameEnding
<1>5. row \in TaskRow
  BY <1>1 DEF TaskRow, TimeOrNull
<1> HIDE DEF row
<1>6. SameEnding(taskTip[c.t], new)
  BY <1>1, <1>3, <1>4, <1>5 DEF SameEnding
<1>7. SameOwners
  <2>1. \A r \in BlockRow : \A n : [r EXCEPT !.paid = n].of = r.of
    BY DEF BlockRow
  <2>2. PICK n : blockTip' = [blockTip EXCEPT ![c.b] = [@ EXCEPT !.paid = n]]
    BY DEF ClearBlockedState, AddApprovedSeconds
  <2> QED
    BY <1>1, <2>1, <2>2 DEF SameOwners, IInv, TypeOK
<1>8. \E pc \in {"commit", "write"} : Goto(s, pc)
  BY DEF ClearBlockedState, AddApprovedSeconds
<1> HIDE DEF new
<1> QED
  BY <1>1, <1>2, <1>6, <1>7, <1>8, KeepingWrite

LEMMA NextOrphanFInv ==
  ASSUME IInv, FInv, NEW s \in Sessions, NextOrphan(s)
  PROVE  FInv'
<1>1. call[s] \in Call /\ call[s].pc = "next_orphan" /\ UNCHANGED tables /\ TargetOK(s)
  BY DEF IInv, TypeOK, NextOrphan, At, FInv
<1>2. CASE Goto(s, "claim")
  BY <1>1, <1>2, GotoFStep DEF tables, SameOwners
<1>3. ASSUME NEW o \in call[s].todo,
             call' = [call EXCEPT ![s].pc = "find_block", ![s].t = o[1],
                                  ![s].from = o[2], ![s].todo = @ \ {o}]
      PROVE  FInv'
  <2> DEFINE c == [call[s] EXCEPT !.pc = "find_block", !.t = o[1],
                                  !.from = o[2], !.todo = @ \ {o}]
  <2>1. /\ call \in [Sessions -> Call] /\ call' = [call EXCEPT ![s] = c]
        /\ c.pc = "find_block" /\ c.t = o[1] /\ c.todo \subseteq call[s].todo
    BY <1>1, <1>3 DEF IInv, TypeOK, Call
  <2>2. Known(o[1]) /\ \A p \in c.todo : Known(p[1])
    BY <1>1, <2>1 DEF TargetOK
  <2>3. \A t \in Tasks : Respects(s, t) /\ (taskLock'[t] = s => Known(t))
    BY <1>1 DEF Respects, FInv, TaskHolderOK, tables
  <2>4. \A d \in Blocks : Exists(blockTip'[d]) => Known(blockTip'[d].of)
    BY <1>1 DEF FInv, BlocksOfKnown, tables
  <2>5. UNCHANGED <<task, block>>
    BY <1>1 DEF tables
  <2> HIDE DEF c
  <2> QED
    BY <2>1, <2>2, <2>3, <2>4, <2>5, QuietStep
<1> QED
  BY <1>2, <1>3 DEF NextOrphan

-----------------------------------------------------------------------------
(* Commits, and the rest of the system. *)

(* A commit publishes only rows that respect what was committed.           *)
LEMMA CommitFInv ==
  ASSUME IInv, FInv, NEW s \in Sessions, Commit(s)
  PROVE  /\ FInv'
         /\ \A t \in Tasks : IsOver(task[t]) => SameEnding(task[t], task'[t])
<1> USE DEF FInv
<1>1. /\ call'[s] = Idle /\ \A r \in Sessions \ {s} : call'[r] = call[r]
      /\ \A r \in Sessions : r # Free
  BY BlocksAssumption DEF Commit, IInv, TypeOK
<1>2. ASSUME NEW t \in Tasks
      PROVE  /\ taskTip'[t] = taskTip[t] /\ TaskTipOK(t)
             /\ taskLock[t] = s => task'[t] = taskTip[t] /\ taskLock'[t] = Free
             /\ taskLock[t] # s => task'[t] = task[t] /\ taskLock'[t] = taskLock[t]
  BY DEF Commit
<1>3. ASSUME NEW t \in Tasks
      PROVE  /\ TaskTipOK(t)' /\ (Known(t) => Known(t)')
             /\ IsOver(task[t]) => SameEnding(task[t], task'[t])
  BY <1>2 DEF TaskTipOK, SameEnding, Known, IsOver
<1>4. ASSUME NEW r \in Sessions, NEW t \in Tasks PROVE TaskHolderOK(r, t)'
  BY <1>1, <1>2, <1>3 DEF TaskHolderOK
<1>5. ASSUME NEW r \in Sessions PROVE TargetOK(r)'
  <2>1. CASE r = s
    BY <1>1, <2>1 DEF TargetOK, Idle
  <2>2. CASE r # s
    <3>1. call'[r] = call[r] /\ TargetOK(r) /\ call[r].todo \subseteq Tasks \X Employees
      BY <1>1, <2>2 DEF IInv, TypeOK, Call, Orphans
    <3>2. ASSUME call[r].pc = "insert"
          PROVE  /\ ~Known(call[r].t)' /\ taskLock'[call[r].t] = Free
                 /\ \A q \in Sessions \ {r} : call'[q].t # call[r].t
      <4> DEFINE t == call[r].t
      <4>1. /\ t \in Tasks /\ ~Known(t) /\ taskLock[t] = Free
            /\ \A q \in Sessions \ {r} : call[q].t # t
        BY <3>1, <3>2 DEF TargetOK
      <4>2. ~Known(t)' /\ taskLock'[t] = Free
        BY <1>1, <1>2, <3>1, <4>1 DEF Known
      <4>3. call'[s].t # t
        BY <1>1, <4>1, TaskIdsAreNumbers DEF Idle
      <4> QED
        BY <1>1, <3>1, <4>1, <4>2, <4>3
    <3>3. \A o \in call[r].todo : Known(o[1])'
      BY <1>3, <3>1 DEF TargetOK
    <3>4. call[r].pc \notin {"idle", "insert", "commit"} /\ call[r].t \in Tasks => Known(call[r].t)'
      BY <1>3, <3>1 DEF TargetOK
    <3>5. call[r].pc = "insert" => call[r].t \in Tasks
      BY <3>1 DEF TargetOK
    <3> HIDE DEF FInv
    <3> QED
      BY <3>1, <3>2, <3>3, <3>4, <3>5 DEF TargetOK, Known
  <2> QED
    BY <2>1, <2>2
<1>6. BlocksOfKnown'
  <2>1. ASSUME NEW b \in Blocks
        PROVE  /\ blockTip'[b] = blockTip[b]
               /\ block'[b] = block[b] \/ block'[b] = blockTip[b]
               /\ block[b] \in BlockRow /\ blockTip[b] \in BlockRow
    BY DEF Commit, IInv, TypeOK
  <2>2. \A row \in BlockRow : Exists(row) => row.of \in Tasks
    BY DEF BlockRow, Exists
  <2> QED
    BY <1>3, <2>1, <2>2 DEF BlocksOfKnown
<1> QED
  BY <1>3, <1>4, <1>5, <1>6

(* Time, departures, returns and stuttering.                               *)
LEMMA OthersFInv ==
  ASSUME FInv, UNCHANGED <<tables, call>>
  PROVE  FInv'
<1> USE DEF FInv, tables
<1>1. \A t \in Tasks : TaskTipOK(t)'
  BY DEF TaskTipOK, Known
<1>2. \A s \in Sessions, t \in Tasks : TaskHolderOK(s, t)'
  BY DEF TaskHolderOK, Known
<1>3. \A s \in Sessions : TargetOK(s)'
  BY DEF TargetOK, Known
<1>4. BlocksOfKnown'
  BY DEF BlocksOfKnown, Known
<1> QED
  BY <1>1, <1>2, <1>3, <1>4

(* FInv is inductive, relative to IInv.                                    *)
LEMMA NextFInv == IInv /\ FInv /\ [Next]_vars => FInv'
<1> SUFFICES ASSUME IInv, FInv, [Next]_vars PROVE FInv'
  OBVIOUS
<1>1. ASSUME NEW s \in Sessions, StartUserRequest(s) \/ StartOther(s) PROVE FInv'
  BY <1>1, RequestFInv
<1>2. ASSUME NEW s \in Sessions, Statement(s) PROVE FInv'
  BY <1>2, InsertTaskFInv, GetOpenBlockFInv, CloseAndReviewFInv, CreditingFInv,
     EndingWritesFInv, ReassignTaskFInv, UpdateTaskFInv, MarkTaskBlockedFInv,
     CreateBlockFInv, NextOrphanFInv, UnassignTaskFInv, ClaimOverdueFInv
  DEF Statement
<1>3. ASSUME NEW s \in Sessions, Commit(s) \/ Rollback(s) PROVE FInv'
  BY <1>3, CommitFInv, RollbackFStep DEF Rollback
<1>4. CASE Tick \/ \E e \in Employees : Offboard(e) \/ Reinstate(e)
  BY <1>4, OthersFInv DEF Tick, Offboard, Reinstate
<1>5. CASE UNCHANGED vars
  BY <1>5, OthersFInv DEF vars
<1> QED
  BY <1>1, <1>2, <1>3, <1>4, <1>5 DEF Next

(* "COMPLETED and CANCELLED are final": once a task is over, its status,   *)
(* the time it was completed and its assignee never change again, however  *)
(* requests that started earlier finish.                                   *)
THEOREM EndingsAreFinal == Spec => FinalIsFinal
<1> DEFINE Kept == \A t \in Tasks : IsOver(task[t]) =>
                     /\ task'[t].status = task[t].status
                     /\ task'[t].done = task[t].done
                     /\ task'[t].assignee = task[t].assignee
<1>1. IInv /\ FInv /\ [Next]_vars => [Kept]_vars
  <2> SUFFICES ASSUME IInv, FInv, [Next]_vars PROVE Kept
    OBVIOUS
  <2>1. CASE \E s \in Sessions : Commit(s)
    BY <2>1, CommitFInv DEF SameEnding
  <2>2. CASE UNCHANGED <<task, block>>
    BY <2>2
  <2> QED
    BY <2>1, <2>2, OnlyCommitPublishes
<1>2. Spec => []FInv
  BY InitFInv, NextFInv, SpecIInv, PTL DEF Spec
<1> QED
  BY <1>1, <1>2, SpecIInv, PTL DEF Spec, FinalIsFinal

=============================================================================
