# Workforce-OS: a TLA+ model of its backend

This directory specifies, model-checks and proves properties of the backend of
Elevare Workforce-OS (`backend/app`).  It is written for somebody who knows the
repository and some TLA+.

- [The system](#the-system)
- [What is hard](#what-is-hard-in-this-code)
- [The modules](#the-modules)
- [How the code is modelled](#how-the-code-is-modelled)
- [The runs](#the-runs), [their bounds](#bounds) and [fairness](#fairness)
- [What the runs found](#what-the-runs-found)
- [What is proved](#what-is-proved)
- [What is not covered](#what-is-not-covered) and [the plan](#the-plan)

## The system

A modular monolith: FastAPI over PostgreSQL (READ COMMITTED, row-level
security), one SQLAlchemy session per request.  Services flush but never commit;
the router commits after the service returns, and `get_db`
(`core/dependencies.py`) rolls back on any exception.  Celery workers run
scheduled jobs, each in a transaction of its own; Celery Beat starts the task
scan every ten minutes, the attendance auto-close every hour, scoring every
night, and other jobs more rarely, and a failed job is retried up to three times.
Modules call each other's services within one transaction.  The task module
never calls the workflow module: it publishes an event (`core/events.py`), and
the listener runs in the publisher's transaction.

| Component | State | Operations that change it | Correct when |
|---|---|---|---|
| Tasks and blocks (`modules/tasks`) | `tasks`, `task_blocks` | create, update, complete, cancel, reassign, block, unblock, approve, reject | endings are final; a block is recorded, ended, reviewed and credited once; "blocked" means one open block |
| Task scan (`tasks/tasks.py`) | the same tables | release leavers' tasks, claim and announce overdue tasks | every late task is announced once and only when late; departures are handed over |
| Workflow | templates, steps, cases; tasks through the task module | edit a template, start, move on, cancel | a case sits on one step at a time, skips none, repeats none, ends once |
| Business-hours deadlines (`workflow/deadlines.py`) | none, a calculation | | the deadline is the given number of working hours later |
| Attendance | `attendance_records` | clock in, clock out, hourly auto-close | one open record per employee; closed once, at a midnight that has passed if by the system, and in the end |
| Organization, invites | departments, positions, employees, memberships, invites | hierarchy edits, hire, invite, accept, link, offboard, reinstate, blocked deletes | no reporting loops, nothing points at a deleted row, a login is one employee's, leavers are locked out |
| Lists (locations and the like) | soft-deleted rows | create, edit, delete; read in pages | a row that stays is read once |
| Scoring | three score tables, summaries | nightly refresh, quarter close and freeze | a frozen figure never changes and does not depend on when the job ran; a task counts once |
| Performance pages (`scoring/reads.py`) | none, worked out on reading | | pages agree with each other; a closed quarter reads as it was published |
| AI suggestions | suggestions | generate, approve, edit, reject | one review takes effect, once; what was rejected does not come back that quarter |
| Blueprint | batches, items | generate, approve, reject, accept all | an answer becomes a batch that hangs together; an approval makes one real row; the capital stays allocated |
| KPIs, OKRs, Business DNA | their tables | create, update, delete, record a figure | a weight given to a KPI leaves its group within 100 %; figures of the past stand; no KPI measures what is gone; an accepted save shows |
| Auth | users, tokens | register, verify, log in, refresh, reset | not modelled, except for accounts and invites |
| Audit and notifications | append-only rows | written by every other module | follow their transaction |

Interactions that matter for the models: completing or cancelling a task of a
case moves the case on (event, same transaction); cancelling a case cancels its
tasks; offboarding an employee leaves their tasks to the scan and switches off the
login found through their record; who may see a task depends on attendance ("never
shown before clock-in"); an approved block moves the deadline that the scan compares
with and the moment that decides the quarter a task counts in; the scores of a
quarter are rows written at night, and the pages mix them with what is true
today; an approved suggestion or blueprint item creates departments and positions by
the same services people use, and a pending suggestion keeps its department from being
deleted.

## What is hard in this code

Nearly everything that can go wrong here happens *between* the statements of a
handler.  Handlers read a row, check it, and write; between the read and the write
any other request or a scan may commit.  The code defends itself with conditional
updates (`UPDATE ... WHERE status IN open ... RETURNING`), partial unique indexes,
CHECK constraints and `SELECT ... FOR UPDATE`, and where it does not, the
unguarded statement is where the interesting behaviour is.  `PROJECT.json` lists
each such place under `hazards`, with the properties that watch over it, or
with a note saying why none does.

Two kinds of code are hard in other ways.  The calculations (business hours, the
plan made of a language model's answer, marks, roll-ups, the pages) have boundaries
that unit tests visit one at a time.  And the rules about the organization's own
records (weights, references, reporting lines) are check-then-write with no lock and
no constraint behind them: they hold for requests one after the other, and the
models say both what holds then and what holds whatever overlaps.

## The modules

| Module | What it is |
|---|---|
| `TaskRules` | Who may do what to a task, when a task is overdue: the guards of `TaskService`, as operators |
| `TaskBlocks` | Tasks, blocks and the scan: one action per request, per SQL statement, per commit and rollback |
| `BlockLedger` | Abstract specification: what the record of blocks promises |
| `Workflow` | A template, its steps, its cases and their tasks |
| `CaseLife` | Abstract specification: what a case promises |
| `Deadlines` | `add_business_hours`, one step per turn of its loop, against counting working hours one at a time |
| `Attendance` | Clock-in, clock-out, auto-close, departures |
| `Requests` | Shared by the check-then-write models: a request that has checked, a commit that overtakes the others |
| `Staff` | Accounts, memberships, invites, employee records, heads of departments |
| `Hierarchy` | Departments, positions, reporting lines, blocked deletes |
| `Suggestions` | Extends `Hierarchy` by the AI suggestions about it |
| `Plan` | From a language model's answer to the rows of a blueprint batch |
| `Blueprint` | The review of a batch: claims, parents first, the split of the capital |
| `Kpis`, `Objectives`, `BusinessDna` | KPIs and figures; objectives and what measures them; the one-row Business DNA |
| `Scoring` | Marks, roll-up, nightly runs, the freeze of a quarter, its summary |
| `Standings` | The performance pages and who may see them |
| `Lists` | Paged reads while rows come and go |
| `MCTaskBlocks`, `MCWorkflow`, `MCBlueprint` | Small instances of one module |
| `MCDuties`, `MCLateness`, `MCRules`, `MCStructure` | Small instances of several modules side by side |
| `TaskBlocksProofs` | The inductive invariants of `TaskBlocks`; types, single payment, refinement of `BlockLedger`; endings are final |
| `TaskRowsProofs` | What the rows of a task and its blocks say of each other: alerts, marks, credits |
| `WorkflowProofs` | The inductive invariant of `Workflow`: types, numbered steps, one task per running case; that of `Deadlines` |
| `CaseLifeProofs` | The order of the steps; `Workflow` refines `CaseLife`; no step is passed over |
| `MeasuresProofs` | The inductive invariants of `Attendance`, `Scoring`, `Kpis`, `Objectives`, `BusinessDna`, `Lists` and `Standings` |
| `OrganizationProofs` | Those of `Staff`, of the reviews in `Suggestions`, of `Blueprint` and of `Plan` |
| `ChartProofs` | That of `Hierarchy` with `Suggestions`: what is in use stays, the queue does not repeat, no loops |
| `FoldTheorems` | What is defined by recursion over a finite set: sums, folds over a list, functions on a graph |

`PROJECT.json` ("map") gives the source lines of every definition.  Some
definitions are marked *Mutant* in a comment: they are a definition as a plausible
bug would have it (a dropped WHERE clause, a missing lock), they appear in no
specification, and each stands beside the definition it would replace.  They
are there to show that the property they are paired with in `PROJECT.json`
would notice that bug.

## How the code is modelled

**A transaction is a sequence of statements.** `call[s]` says what transaction
`s` is doing: the operation, the point it has reached (`pc`), and the local
variables that the handler carries from one statement to the next (the assignee
it read, the moment it took as `now`, ...).  A `Start...` action is a handler up to
its first write: it loads, checks permissions and state, and raises (no step) or
goes on.  Every later UPDATE, INSERT or deciding SELECT is an action of its own,
named after the repository method or the service helper.  `Commit` is the
router's `await db.commit()`.  `Rollback` may happen at any point: an exception,
a lost connection, a killed worker.

**A table is two functions and a lock.** `task` is what is committed and what a
SELECT of another transaction reads; `taskTip` is the newest version of each row;
`taskLock` names the transaction that wrote it and has not ended yet.  An UPDATE
needs the lock free or its own, evaluates its WHERE clause on the newest
version (READ COMMITTED re-evaluates after waiting), writes the newest version and
keeps the lock until the end.  A conditional update that matches no row leads to
an exception and a rollback, except in the scan's `unassign_task`, which goes on.
`UpdateTask` is deliberately different: `update_task` assigns attributes of a
loaded object, so only columns that differ from what was *loaded* are sent, with
no condition on the row.  In `Workflow` the statements that run under one held
lock are joined into one action; the lock table is keyed by row.

**Constraints of the schema.** The CHECK `unblocked_at >= blocked_at` is part of
`Closable`; the partial unique index on open blocks is the guard of `CreateBlock`
(it waits for a rival's transaction, then refuses).

**Requests that check and write.**  Outside of tasks and cases a handler reads, checks,
and writes and commits at its end.  Such a request is two steps: the check, which
remembers what will be written (`todo`), and the write with its commit.  The reads
of one check are one step, because another commit that falls between two of them
also falls between the first one and the write, where the model has it.  A commit marks every
request whose check it has overtaken, and when an overtaken request commits,
that is remembered (`chartRaced`, `staffRaced`, ...).  A property that
begins with `~chartRaced =>` says what the code guarantees for requests that do not
overlap; one that does not, says what holds whatever overlaps, because a
constraint, a conditional update or a savepoint stands behind it.  Where a
constraint stands behind a check, it is tested again in the write.  What overlapping requests
do to the properties of the first kind is listed under [what the runs found](#what-the-runs-found).

**Background jobs.**  A run of the auto-close is what it read (a cutoff) and one UPDATE.  A nightly
run is its moment, a list of stages, and the rows it has written and not committed;
each stage reads what is committed by then, and waits for another run that has
changed the same rows.  The runs may overlap, fail and be started again.

**Calculations.**  `Deadlines` takes one step per turn of the loop, `Plan` one per
proposal it reads and one for each pass over what it has read; their results are
compared with a definition that says what is wanted (`HoursWorked`,
`BatchHangsTogether`).  `Standings` keeps the formulas of the pages as operators over
the saved rows; a list that the code sorts is put in order by counting who comes before
(`BestFirst`), and `MostImproved` is the set of whoever may be listed, because people alike in
gain and tasks stand in the order an unordered query found them.  Percentages are counted in
hundredths, with the code's rounding.

**What is abstracted.**  Tasks belong to one department.  `Heads`, `Managers`,
`Hr`, `BossOf` fix who is who for a run, so changes of role while requests are
running are outside.  Whether somebody is clocked in is chosen freely at every
read.  Status `in_progress` is never written by the code and is folded into
`open`.  Times are small numbers; a length in seconds is a difference of moments.
The scan takes one moment for both halves, where the code takes two a statement
apart.  Titles, KPIs, priorities, audit and notification rows are left out.  In
`Workflow` completed and hand-cancelled tasks are both "ended", because nothing
there depends on the difference, and blocks are left to `TaskBlocks`.  Reading
the case again under its lock in `cancel_instance` is modelled as a fresh read.
The history variables `alertFor`, `moved` and `paid` are read by properties only.

In the other modules: an answer of the language model is any answer of a certain shape;
texts and names matter only where they are compared; who may call an endpoint is a
guard only where the answer depends on it (`Standings`), elsewhere the caller
is whoever may.  `Standings` takes a nightly run as one step, which `Scoring` takes apart; `Scoring`
merges the rows of people and of the department into one stage.  Each module's
head says what it leaves out.

**Refinement.**  The ledger's `block` is the committed table as it is.  For
`CaseLife`, `at` is the step of the case's open task and `past` the steps of its
ended ones; so a step of `Workflow` other than a commit is a stutter, and the
commit of `complete_task` must be exactly one move.

## The runs

Modules that share no variables are explored in one run, side by side: the variable
`part` is chosen at the start and says which of them moves, so the state spaces add
up and each module keeps its own properties.  The run names say what the parts
have in common.

| Run | Instance | Checks | Shows |
|---|---|---|---|
| `blocks` | `MCTaskBlocks`: 1 task, 2 blocks, 2 transactions, 3 people | `TypeOK`, `BlockedMeansOpenBlock`, `PaidExactlyOnce`, `CreditMatchesBlocks`, `FinalIsFinal`, `BlocksFormALedger` | endings, reviews and reassignments may interleave as they like without paying a block twice or never, or breaking the pair mark/open block |
| `handover` | `MCTaskBlocks`: 1 workflow task, 1 block, 2 employees who leave and return, 2 workers, requests that change the task | `OrphansAreHandedOver` | a scan that finds its task changed and gives up is made good by a later one, whatever people do meanwhile |
| `scan` | `MCDuties`: 2 tasks, 1 employee, 2 workers; 1 employee with 2 records, 2 requests over 2 days | `OverdueIsAnnounced`, `OneOpenRecord`, `SystemEndsAtMidnight`, `EndedRecordsStand`, `ForgottenRecordsEnd` | the jobs do what they owe in the end, also for the second of two tasks, when two scans wait for each other, and for a record forgotten for a day; and however taps and auto-closes race, records end once |
| `alerts` | `MCLateness`: the alert of a task between 2 transactions; every deadline from 192 starts; 1 task, 2 people, 2 nightly runs, 3 quarters; a list of 3 rows in pages of 2 | `AlertOnlyWhenLate`, `DeadlineCountsWorkingHours`, `LateRunsAgree`, `TasksCountOnce`, `FrozenFiguresStand`, `EveryItemOnce` | what "late" means is the same in the alert, the deadline and the mark, and the mark does not depend on when the night's job runs |
| `cases` | `MCRules`: a case with a template of 2 steps and one to add; 2 KPIs; 2 objectives; the Business DNA; 2 people on 3 KPIs | `OneTaskWhileRunning`, `StepsAreNumbered`, `OpenTaskKeepsItsStep`, `NoStepIsPassedOver`, `CasesKeepTheirPromise`, `WeightsFit`, `PastFiguresStand`, `KpisMeasureSomething`, `AcceptedSavesShow`, `PagesAgree`, `RulesTypeOK` | a case keeps its promise while its template is edited under it; the rules about KPIs, objectives and the DNA, with two requests at a time; the pages agree |
| `structure` | `MCStructure`: 2 people, 2 records, 2 invites; the chart with 2 departments, 3 positions, which may move between the departments, 2 suggestions; two blueprint batches; five shapes of an answer | `LoginsAreExclusive`, `LeaversAreLockedOut`, `NoReportingLoops`, `NothingDangles`, `ReviewsTakeEffectOnce`, `SuggestionsDoNotRepeat`, `ItemsBecomeRealOnce`, `CapitalStaysAllocated`, `BatchHangsTogether`, `StructureTypeOK` | what the organization's own records promise, with two requests at a time, among them the AI's proposals from the answer to the row they become |
| `outlives`, `cleanslate`, `newdeadline` | as `blocks`, only the operations involved | one property each | expected violations, see below |
| `taketurns`, `deletedtemplate` | `MCWorkflow`, only the operations involved | one property each | expected violations, see below |
| `approvedforreal` | `MCBlueprint` | `ApprovedItemsAreReal` | expected violation, see below |

Run one with `tlc -workers 2 -config blocks.cfg MCTaskBlocks`.  Deadlock checking is
on except in `structure`, where requests come to an end when every id is used up; in
`cases` and `alerts` the parts other than the first may stutter for the same reason.  In the models with
`Rollback` it shows only that there is always something left to do; that two
transactions can wait for each other is shown by `taketurns` and used in `scan`.

### Bounds

- *Two transactions.*  Every hazard listed is a race of two; the conditional
  updates make a third one either wait or fail like the second.  The proofs
  hold for any number.
- *One task (two in `scan`), one or two blocks.*  Tasks interact only through the
  scan, which is what `scan` has two of.  Two blocks let a second one start after the
  first has ended, so that credits add up and the unique index is exercised.
- *Clock.*  Time stands still in `handover` (`MaxNow = 0`): a release does not look
  at it, and lateness is the business of `scan`.  `blocks` needs lengths 0 and 1
  (`MaxNow = 1`); `alerts` needs a deadline that moves past the scan's moment by a
  credit and is then passed again (`MaxNow = 2`).  `MaxNow` is a guard of `Tick` only.
- *`MaxTasks = 3`* tasks of a case: one for each step of the largest template, so
  the bound is not reached by a case that keeps its promise.
- *One case.*  Cases share only the template row; a second one adds a `Running`
  for `count_running_instances` and doubles the state space fifty times over.
- *Attendance:* days of two ticks, two midnights: a record may be forgotten over
  one or two of them, and be begun exactly at one.
- *Deadlines:* every full hour of eight days, so that a start before, in and after
  working hours, on a weekend and just before one occurs, and 1 to 20 hours, up
  to three working days.
- *Scores:* quarters of two ticks and a clock up to the third quarter, so that a
  run can close a quarter, come a whole quarter late, and look back at one that is frozen; 2 changes of
  the task and 3 runs are what an overtaken close followed by another needs.
- *Lists:* three rows, pages of two: one row moves over the edge of a page.
- *Staff:* one invite is accepted while a second is sent; two records, so that
  a login can be wanted twice.
- *The chart* starts in three states which it reaches by itself (`ChartPartInit`):
  one for loops and dangling references among three positions, one request at a
  time, since those properties are about requests that do not overlap; one for
  reviews; one for names and missing departments.  `WithinPart` is the constraint
  that keeps each to its bounds; in the first, the second department appears while at most two
  positions are there, enough for one to move into it.  `MaxHierarchyDepth = 3` (100 in the code) is the length of the
  longest chain of three positions.
- *Plan:* at most three proposals of a kind, in five combinations; weights 0, 1, 31
  hundredths are what it takes for rounding to leave something over, or too much.
  `MaxReportingDepth = 3` (15 in the code), `MaxGroup = 3`.
- *Blueprint:* one batch with two departments that share the capital, an objective of one of them
  with two key results, and a KPI of the other that measures one of these; and another
  batch, an objective, that may be generated meanwhile.  A name and a weight may clash when
  the row is made.  `BlueprintBounds`: only the KPI, which reaches all the others, is edited,
  the other batch is not rejected, and one of the two departments may be deleted.
- *KPIs and figures:* a client sends weights of any precision and sign, the column keeps two
  decimals.  `Grain = 2`: two submitted units make one that is kept.  The weights submitted
  are -1, 1 and 3, out of a whole of 4: 1 and 3 fill it exactly, and are kept as 1 and 2, more than the
  whole of 2.  A KPI named twice in a list had a weight of 1 before (`Repeats`).
- *Pages:* two people, two departments, three KPIs, two quarters, and two
  changes (`MaxEdits`) of anything a page depends on.  The first KPI is there and weighs something;
  the people's tasks of the first quarter are one of three tables.
- *`UntilFirstRace`*, a constraint of `structure`, `cases` and `alerts`: a state in
  which an overtaken request has committed is checked but nothing after it.  Most properties that
  are affected by it say nothing after that point (`~...Raced =>`); for those which do,
  it is a bound: they are checked up to and including the first such commit.  Of
  `LoginsAreExclusive`, `ReviewsTakeEffectOnce`, `ItemsBecomeRealOnce`, `FrozenFiguresStand` and
  `WeightsFit` the proofs show that they hold beyond.
- `Blocks`, `Tasks`, `Cases`, `Steps`, `Records`, `Invites`, `Seats` and the like
  are the pools ids are drawn from.
- Symmetry over ids and requests that are plain identities, in the runs without
  liveness; none in `scan` and `handover`.

### Fairness

Only `scan` and `handover` use it (`FairSpec`, `AttendanceFairness`).  It assumes that

- a transaction that can take its next statement eventually does (`WF` of
  `Proceed`): handlers run to their end;
- a scan whose statement is enabled again and again gets its turn (`SF`):
  PostgreSQL queues lock requests, so others cannot overtake it forever;
- a deadlock is broken (`WF` of `Deadlocked(s) /\ Rollback(s)`): PostgreSQL's
  detector aborts a victim.  This is needed: two scans of one organization can
  really wait for each other, since the release goes through tasks in order of
  creation and holds them while the claim takes all at once;
- the scan is started again and again (`SF` of `StartScan`): Beat, every ten
  minutes, for every organization that has something to do;
- from some time on scans are not killed for other reasons (the `<>[]` conjunct):
  a failed job is retried and outages end.  A scan that has nothing to commit, or
  that gives up because a task changed under it, also ends like a rollback; that is a
  step of its own (`Proceed`) and is not excluded.

For attendance it assumes that a request or run which has read the clock goes on (`WF`), that
the hourly job is started again and again (`SF`), and that from some time on nothing is
killed half way.  Nothing is assumed of the clock: a record is due once midnight has passed.

Nothing is assumed of people: requests, departures and returns may or may
not happen.  That is why the hand-over is promised per leaver: with two people
who keep leaving and returning, a task can be reassigned from one to the other for
ever and be on a leaver's name at every moment, though never on the same one for good.

## What the runs found

Six statements of the repository are not what the code does.  Each is the subject
of a run that TLC ends with a counterexample of a few steps, quoted with its
source in `PROJECT.json` under `findings`.

1. **A block can outlive its task** (`outlives`).  `_end_open_block` looks for an
   open block before the task is locked; a `block_task` that commits between
   the two leaves a completed task with an open block.
2. **The clean slate is not kept** (`cleanslate`).  Approving a block of the
   previous assignee after the reassignment credits the new assignee's task.
3. **A new deadline may have no alert** (`newdeadline`).  `update_task` clears the
   alert mark only if it was set when the task was loaded; a scan that marks it
   in between wins.
4. **Completing and cancelling a case do not take turns** (`taketurns`).  They lock
   the task and the case in opposite orders, so one of the two requests fails with a
   database deadlock.
5. **A template can be deleted under a case that has just started**
   (`deletedtemplate`).  `delete_template` counts running cases before it holds
   the row; the case then cannot move to its next step.
6. **An item can be approved and not become real** (`approvedforreal`).  Approving a KPI
   approves the key result it measures, which claims the key result and its objective first; if the
   objective's department was rejected, the exception is swallowed after the claims
   (`blueprint/service.py:115`, and `:103` for the boss of a position), and the request commits
   with the key result and the objective approved and no rows behind them.  Other key results of
   that objective can then not be approved: `create_key_result` finds no objective.

Other things came up while the models were written.  No run is spent on them: they are
outside of a property, or its exception.  Where a comment or document of the repository says
otherwise it is named.

- *Pages.*  `_people_lines` counts only rows on the department's own KPIs, the card every row
  of a live KPI: they differ for whoever did tasks for another department's KPI or moved
  (`Strays` in `Standings`).  A closed quarter keeps its weights, but reads differently when
  a KPI is deleted or a person moves.
- *Scores.*  Overlapping nightly runs insert two rows of a counted KPI, for which there is no
  unique key; every later run of that quarter then fails.  A task not done in a frozen quarter
  that is blocked and reviewed later counts again.  Only the quarter just before is
  closed, so one that no run follows for a whole quarter stays open.
- *Races of requests that check and write.*  Nothing stands behind these checks, so two requests
  at once get past them, and the properties about them except it: two moves of positions make a
  loop; a position joins a department, or a KPI a key result, that is being deleted; two KPIs find room in a
  group for one; somebody offboarded while they are granted a login keeps it; an
  approval and a rejection of two departments each split the capital as if the other
  had not happened, and a share is lost; a suggestion rejected between the check for
  rejections and the insert is back at once, since the unique index knows only pending rows (the
  comment at `ai/models.py:76` counts on it).
- *KPI weights.*  `reconcile_kpis` adds up the decimals as they were sent, the column rounds each to
  two decimals: 33.335 + 33.335 + 33.33 is exactly 100, as `docs/05_API_DESIGN.md` asks, and is kept as
  100.01.  A list may also name a KPI twice, in which case both weights count and
  the last is kept, and weights may be negative.  `WeightsFit` says what is left: half a
  hundredth a KPI in a list that names each once, and no excess from `create_kpi` and `update_kpi`.
- *Rounding.*  `normalize_weights` leaves the rest on the first weight, which may
  fall below 0 by a hundredth or two; `BatchHangsTogether` bounds it.
- *Invites.*  Two invites for one person at the same moment leave two unused ones, which
  `get_pending_invite` takes for an error.  `link_user` accepts an employee who has left
  (`lateLinks` in `Staff`).
- *Chart.*  `create_position` and `update_position` take the id of a department that is deleted
  already, with no other request about, and employees are put on a deleted position in
  the same way (`late` in `Hierarchy` remembers who); loops and chains longer than 100
  escape the check.
- *Blueprint.*  Deleting a department that came from a batch and shares the capital makes
  every later review of that batch fail.  Two departments of one new name in an answer are both kept.
  The comment at `blueprint/models.py:131` says that shares may add up to more than 100; it
  is older than the decision to keep them at exactly 100 (`docs/08_DECISIONS.md`, 2026-11-05,
  second entry), which the service carries out and `CapitalStaysAllocated` states.

All other properties hold, among them some that look doubtful at first reading: the
credit is exact although `_close_block` and `_review_block` each
look only at their own half; deleting and reordering steps under running cases
never makes one skip or repeat a step.

## What is proved

With TLAPS, for every value of the constants allowed by the named assumptions beside them (any
number of people, tasks, rows, concurrent requests, runs and quarters). The assumptions say only
that the sets of people are nested as expected, that ids of tasks are numbers, that a day has a
length, that a template has finitely many steps and a task finitely many blocks, that there are
finitely many KPIs, the weights asked for are integers in units as fine as one likes and a kept
unit is at least one of these, that the items of a blueprint are
finitely many and none hangs on itself, that a form of the Business DNA has fields of its two
tables and text in them, that the search up the chart and the queue of missing departments have a
limit, that work opens and closes on the same day at full hours, that a page has rows and a fiscal
quarter a length, that rows of different tables differ, and that the special values are neither ids nor rows.

| Theorem | Says |
|---|---|
| `TaskBlocksProofs!TypeCorrect` | `Spec => []TypeOK`: no credit becomes negative, since an ended block's length is a natural number because of the CHECK constraint |
| `BlocksArePaidExactlyOnce` | `Spec => []PaidExactlyOnce` |
| `ImplementsTheLedger` | `Spec => BlocksFormALedger`, the refinement |
| `EndingsAreFinal` | `Spec => FinalIsFinal` |
| `WorkflowTypes`, `StepsStayNumbered`, `RunningCasesHaveOneTask`, `OpenTasksKeepTheirSteps` | `Spec => []` of `TypeOK`, `StepsAreNumbered`, `OneTaskWhileRunning`, `OpenTaskKeepsItsStep` |
| `CasesLiveTheirLife` | `Spec => CasesKeepTheirPromise`, the refinement of `CaseLife` |
| `StepsAreTakenInOrder` | `Spec => NoStepIsPassedOver` |
| `AlertsAreForLateTasks` | `Spec => AlertOnlyWhenLate` |
| `BlockedTasksHaveTheirBlock` | `Spec => []BlockedMeansOpenBlock` |
| `CreditIsEarned` | `Spec => []CreditMatchesBlocks` |
| `MeasuresProofs!TypeCorrect`, `NobodyIsClockedInTwice`, `TheFirstEndStands`, `MidnightEnds` | types; `OneOpenRecord`; `EndedRecordsStand`; `SystemEndsAtMidnight` |
| `LoginsStayExclusive`, `LeaversStayLockedOut`, `StaffTypes` | `StaffSpec => []` of `LoginsAreExclusive`, `LeaversAreLockedOut`, `StaffTypeOK` |
| `ReviewsHaveOneEffect`, `UsedRowsStay`, `QueueDoesNotRepeat`, `ChartTypes` | `ChartSpec => []` of `ReviewsTakeEffectOnce`, `NothingDangles`, `SuggestionsDoNotRepeat`, `ChartTypeOK` |
| `ChartHasNoLoops` | `ChartSpec /\ []ChartIsShallow => []NoReportingLoops`: a chart no deeper than the search gets no loop |
| `SmallChartsHaveNoLoops` | the same without that hypothesis, for at most `MaxHierarchyDepth` positions |
| `ItemsBecomeReal`, `CapitalIsAllocated` | `BlueprintSpec => []ItemsBecomeRealOnce`, `[]CapitalStaysAllocated` |
| `DeadlinesHoldTheHoursAsked` | `DeadlinesSpec => []DeadlineCountsWorkingHours` |
| `ListsAreReadWhole`, `ListsTypes` | `ListsSpec => []` of `EveryItemOnce`, `ListsTypeOK` |
| `ClosedQuartersStand` | `ScoringSpec => FrozenFiguresStand` |
| `LateRunsJudgeAlike`, `ATaskCountsOnce` | `ScoringSpec => []` of `LateRunsAgree`, `TasksCountOnce` |
| `KpiWeightsFit`, `PastFigures` | `KpiSpec =>` `WeightsFit`, `PastFiguresStand` |
| `KpisAlwaysMeasureSomething` | `OkrSpec => []KpisMeasureSomething` |
| `SavesShow` | `DnaSpec => AcceptedSavesShow` |
| `ThePagesAgree` | `StandingsSpec => []PagesAgree` |
| `BatchesHangTogether` | `PlanSpec => []BatchHangsTogether` |

**Blocks.**  `PaidExactlyOnce` speaks of committed rows, which a
commit replaces by the newest versions.  So the invariant must say what those look
like while a transaction is under way.  `IInv` (`TaskBlocksProofs`) has four
parts: types; `CallsOK`, what a transaction knows at each point (its
block exists, it holds the row it is about to credit, an id it is about to insert
is its own); `RowsOK`, whose core is `TipOK`: a newest version, *once what is still
owed has been paid*, equals the committed row or is one step of the ledger away
from it; and `HoldersOK`, that a transaction holding a block row is past the point
where it could write it a second time.  Between ending an approved block and
crediting it the row is not one the ledger allows; `Settled` and `Owes` describe
exactly that gap.  The refinement then is the observation that only `Commit` changes
the committed tables (`OnlyCommitPublishes`) and that it publishes ledger steps
(`Published`).

**Endings.**  `FInv` adds that the newest version of a task
that is over agrees with it in status, time and assignee.  Unconditional writes
(`update_task`, `add_approved_seconds`, `clear_blocked_state`) must not disturb
that, and an INSERT must not hit a task that exists: hence `TargetOK` and
`BlocksOfKnown`, that every transaction works on tasks that are committed, or
on a fresh id nobody else has.

**Rows that belong together** (`TaskRowsProofs`).  A task's mark, its total and its
alert are in its own row, the blocks in others, and a transaction writes them one
after the other.  Each of three invariants says what may be out of step and who then holds both rows.

- *Alerts* (`AlertsOK`): a transaction sets an alert mark as the last thing it does, on
  a version of the row that is late; what it wrote before that either left the mark alone
  or added to the approved time.  The proof did not go through for the property as it
  stood, that whoever is announced had no mark: a scan that takes over a leaver's blocked task ends
  the block, pays for it, clears the mark and announces the task again in one
  transaction.  A run confirmed the counterexample.  The property now says what the code
  does: a task that was announced is announced again only if its approved time has grown.
- *Marks* (`MarksOK`): the newest version of a marked task has an open block of the same
  moment, but for two gaps: before the block is inserted, when the task is held, and after
  it has ended, when the transaction is about to clear the mark (`TipMarkOK`,
  `KeeperOK`).  A task has one open block at most (`OneRival`).
- *Credits* (`CreditsOK`): both versions of a task agree with the sum over the blocks paid in the same
  version of the table, because whoever has paid for a block holds the task (`PayerOK`).
  What is paid in the committed table is exactly what is approved and ended, from `IInv`.

**Cases.**  The three properties of `Workflow` are about committed rows and need one
invariant, `WorkflowInvariant`, because each leans on the others: a case that moves on
finds a next step only if the step behind it is still there, and a step may be deleted
only if no task under way will need it.  `TablesAreSound` says what the
tables are like whoever is at work: a row nobody holds is as it was committed; both
the template as it is and as it is about to be are numbered 1..n; and an open task somebody
has made but not committed is made by a holder of the template's row, on a step
that is live.  `CallsAreSound` says what a transaction may hold at each point
(`MayHold`) and, once it holds its case, what its commit will make of the tasks
(`CommitIsSound`): exactly one open one if the case goes on, none if it ends.  The
crucial step is the commit of a deleted step: it holds the template's row, so no new task on that step is
under way, and it has counted the committed ones.

That no case comes back to a step needs order as well (`LifeInvariant`, in
`CaseLifeProofs`): the steps a case has left come before the one it waits on, in the
template as it is *and* as it is about to be (`PastIsBehind`).  Adds and deletes move
later steps together and so keep it; a reorder would not, and is refused while a
case runs, a check that stays true until its commit because a case starts only under the lock
of the template's row (`EditIsAllowed`, `CasesStartUnderTheLock`).  What a transaction is about to
commit is then one move of its case (`StartIsAMove`, `EndingIsAMove`, `CancelIsAMove`).
One detail the proof brought up: a task completing on a template that was deleted
does not get the lock of the template's row; it may finish its case only because nobody
edits the steps of a deleted template.

**Deadlines.**  What has been worked from the start to the present hour and what remains add up to
what was asked for (`DeadlinesInvariant`); every hour the calculation passes over between two days
is none that is worked (`NextMoment`), and the hour it comes to is.  The hours are counted by
`Cardinality`, so that a day adds its own (`WorkingAdds`).

**Attendance.**  The types and `OneOpenRecord` are inductive together, because the
insert and its check are one statement.  That a record the system ends, ends at a
midnight not before its start needs `CutoffsArePast` as well: an auto-close under way has
taken a midnight, and one that has passed.

**Logins.**  What a request has checked may be stale when it commits.
`StaffInvariant` says what of it cannot be: rows do not vanish and memberships do not cease to exist
(`DesksAreSound`); the rest is in the unique indexes (`LinksAreExclusive`) and in the
account that accepting an invite makes (`OneAcceptedEach`).  That there is one unused invite at most
unless requests overlapped needs `OneUnusedEach`: a request nobody has overtaken knows
every unused invite of its address, and will spend it.

**Leavers.**  A login that becomes active must not be that of somebody who has left, which takes
three facts besides `LeaversAreLockedOut`: whoever is a member has an account
(`MembersHaveAccounts`), so an invite that is accepted for the first time makes nobody active whose
login a leaver could have; what a request knows that nobody can undo (`KnownTodo`); and what it
has found out, that whoever it reactivates, links, adds or puts at the head of a department has not left,
which is so until somebody else commits (`ForeseenTodo`, in `DesksForesee`).

**Reviews.**  `ReviewsTakeEffectOnce` is inductive with the types it rests on
(`QueueTypeOK`) and `ClerksAreSound`: a review under way brings one of the outcomes that take effect.

**The chart.**  The endpoints read the chart, check, and write later without a lock.  `ChartInvariant`
says of each request that the rows it is about to change exist (`RowsAreThere`, rows are deleted softly)
and that what it has found out (`Foreseen`: nobody works there, nobody reports to it, no suggestion
waits on it, the queue has room) is so until somebody else commits.  What a request attaches to a deleted
row, because nobody looks (creating a position, moving one to a department, putting an employee on a
position), is excepted in `NothingDangles` by name (`late`).  With this `NothingDangles` and
`SuggestionsDoNotRepeat` are inductive: the queue needs in addition that the pending suggestions of missing
departments are finitely many.  *Loops* are another matter: `update_position` goes up from the new boss for
100 steps (`MaxHierarchyDepth`) and then takes it that there is no loop ("Real org charts are a handful of
levels deep", `organization/service.py:397`), so in a chart deeper than that it would let one through.
`ChartIsShallow` says that a walk as long as the search meets a position twice; then either the search
met the position being moved, or it went round in a loop that was there before (`WalkLoops`).
By the pigeonhole principle every chart of at most 100 positions is shallow (`FewSeatsAreShallow`).

**Frozen quarters.**  A run works out its rows long before it commits them.  They are
still right at the commit because of `NobodyShares`, two runs never hold rows of the same quarter
(one waits for the other's lock), and `FrozenIsKept`, what a run holds leaves every frozen row
as it is.

What these rows say is `LateInvariant`.  A run of any later moment marks a task as one at the quarter's
end would (`LateIsAtTheEnd`), and a task that nobody tampered with has the mark it had then
(`TaskStaysPut`): a completion comes too late for it, and a review only concerns a task that
counted nowhere while it was held.  So frozen rows, and those a run is about to freeze, agree with
the tasks at the quarter's end and with the tasks now (`RowAgrees`, `CardAgrees`), the latter because a task counts once: where
it counts now.  `NightsKnow` says what a run that nobody has overtaken still knows: the quarters it is to write are
not frozen, so it freezes the rows of people and of the department together (`Closed`), and rows it adds
are missing.  Overtaken runs know nothing of the kind, hence `nightRaced` in both properties.

**Lists.**  Each page is cut out of a list that the database puts in order anew, rows of one
moment in any order.  A row that shares its moment with none is in the same place in each of these
lists, namely after the rows of earlier moments (`PlaceInList`), and keeps it unless one of those comes
or goes (`PlaceStays`).  So a job has such a row once if its place is on a page already read, and not
yet otherwise (`JobOK`); the last page ends after all rows the count has counted (`Pages`).

**KPIs, objectives, Business DNA.**  These handlers check first and write later, and no
lock is held between.  `KpiInvariant` and `OkrInvariant` say of every request what it has found out
and that it is still so unless somebody has overtaken it (`StillHolds`, `StillMeasured`); the
commit then keeps the property, and marks the others as overtaken.  `WeightsFit` is about the request
that commits, so it needs no history without races: what is asked for fits what the others keep, and a
number that is at most a whole one stays so when it is rounded (`StoredFits`); in a list each
weight is off by half a unit at most (`StoredIsClose`), and so is the sum by half a unit a KPI
(`GroupReplaced`, with `SumsCompare` of `FoldTheorems`).  For the Business DNA, `SaveOK` says of
a save at each point which columns it has sent: all of a row it inserts, else those
that differ from the row it loaded; and `OneInserts`, that two saves do not both hold
the uncommitted row.

**Pages.**  `PagesAgree` is about what pages read, and needs two kinds of facts.

- *What the nights leave in the tables* (`PagesInvariant`).  A row is of a KPI that was made at some
  time (`RowsHaveGoals`), so a card that shows it counts it while the KPI is there.  A night saves all
  departments with the rows of people (`NightsSaveAll`); what belongs to the first quarter becomes final
  together, and nothing of the second does (`FinalTogether`), and only when it is over
  (`ClosedIsPast`).  Final rows are not written again, so what was published stands
  (`PublishedStands`).  That part had to say more than the property: the line of a person who has moved
  is no longer the published one, but is again after they move back, so the invariant speaks of the line
  in the department they were in at the close.
- *What the formulas come to.*  A weighted average lies between two of its scores
  (`SumsInProportion` of `FoldTheorems`, with the rounding: `RoundedStaysWithin`), and so does the headline.
  Counting who comes before puts people in an order in which everybody is once
  (`BestComeFirst`), and the recursion of race ranks counts the better ones (`RanksCountTheBetter`).
  A card and a line are the same average if the rows are the same (`CardsWithoutStrays`).

The assumption on the constants (`StandingsAssumption`) is that people, departments and KPIs are finitely many, KPIs
belong to departments, weights are between 0 and 100, and the first person is one: who heads the first department.

**Blueprint.**  What approving an item claims and makes are recursive functions on the
items, which `RecursiveFunction` of `FoldTheorems` shows to exist because nothing hangs on itself
(`BlueprintAssumption`); what they come to is then shown by induction from what an item points at to
the item (`WhatIsClaimed`, `WhatIsMade`).  `BlueprintInv` says of the tables that whatever became
a row has what it needs, and that an approved item that became none needs one that was rejected or
became none either; and of a review under way that what it will write fits whatever is committed
meanwhile (`WellReviewed`, since statuses are final and rows stay) and is all there is
unless it was overtaken (`UpToDate`).  `AcceptingProgresses` carries the first of these along
`accept_all`, a fold over a list.  The proof did not go through for the model as it was:
an item whose objective was approved without becoming a row counted as approvable, and would
have been a row without what it needs.  The code refuses it (`Hollow`); the instance TLC checks
now has such a chain.

**Batches.**  `PlanInvariant` says of the rows, stage by stage, what is settled (`Staged`).  A row that
has been read points at rows that are there and stay (`Points`, `AppendIsStaged`).  What remains are the
passes over all rows.

- *Shares.*  `normalize_weights` rounds each share and puts on the first what is left
  over, so the sum is the budget; half a hundredth too much a share bounds how far the
  first may fall (`FairShares`, with `SumsCompare` of `FoldTheorems`).  After that shares of the same
  group are looked at alone, whatever happens to other rows (`Shared`, `SharedIsOfGroup`).
- *Cuts.*  `_cut_reporting_loops` follows the way up from one position after the other and removes the link
  of whoever does not get to an end.  A way up that ends still does when links are removed
  (`FewerBosses`), so at the last cut all ways up end (`LoopsAreCut`); in a circle one would go on for as
  long as it is followed (`EndsMeanNoCircles`).  That it is followed at least one step is all the
  proof needs of `MaxReportingDepth`.

The assumption on the constants (`PlanAssumption`) is that null is no label and no number, weights
that count are not negative (`normalize_weights` and `_percent` see to that), and what is left of
a department's KPI weights is a number, possibly below 0.

**Recursion** (`FoldTheorems`).  The sum of a finite set is a recursive function on its subsets.
That the recursion has exactly one solution, and that the sum of a set is one element plus the
sum of the rest whichever element that is, is shown from the fact that a set of finite subsets has
a minimal member (`SubsetInduction`).  `CreditIsEarned` and `KpiWeightsFit` cite
what follows: adding, removing and replacing a summand.  The same fact shows that a function
defined by recursion along any acyclic relation exists.

Each invariant has one lemma or step per action.  Checked only by TLC: the liveness
properties (fairness and `ENABLED` cannot be handled by the prover); the type
invariants that put those of several modules together (`RulesTypeOK`, `StructureTypeOK`); and everything else the table does not name.

## What is not covered

- *Authentication.*  Passwords, sessions and tokens, and a registration that fails
  half way.  `Staff` has accounts, memberships and invites as far as they
  link logins to employees.
- *Audit log and notifications*: rows written in the caller's transaction and read by no handler.
- *Tenancy*: enforced by policies of PostgreSQL; the models live inside one organization.
- *HTTP layer, schemas, frontend, desktop client*: parsing, wording and display.
- *Summaries*: only when one is written and that a final one stands, not its text.
- *Suggestions of KPI weights* and the cap of the backlog, which the code calls soft.
- *Pages*: punctuality of departments, the custom range, the trend, and cutting into pages.
- *Templates*: creating one and editing what no property depends on.  *Employees*: names and
  contact data, and creating one with a login in the same request.
- Lists other than those `Lists` stands for, and what a caller sees of them.
- SQLAlchemy's object cache, beyond what `UpdateTask` and `BusinessDna` say of it; isolation
  levels other than READ COMMITTED; a change of the clock during working hours.

## The plan

*Done:* tasks, blocks, the scan and cases with their abstract specifications; attendance; people,
chart, suggestions and blueprint; KPIs, objectives and DNA; scores, pages, lists and
deadlines; and the proofs above.

*Next*, in this order:

1. Suggestions of KPI weights, which join `Kpis` and `Suggestions`; registration that is
   all or nothing.
