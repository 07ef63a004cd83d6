------------------------------- MODULE Scoring -------------------------------
(***************************************************************************)
(* Scores: the nightly job closes the fiscal quarter that has ended, unless *)
(* it is frozen, and brings the rows of the current one up to date, all in *)
(* one transaction; a weekly job has the figures told in words.            *)
(*                                                                         *)
(* A run takes its moment at the start.  Each of its statements then sees  *)
(* what is committed by that time, while tasks go on changing; its own     *)
(* rows are locked and unseen until its commit.  The rows of the marks     *)
(* have unique keys, the results of task-count KPIs have none.  There is   *)
(* one department and one KPI, counted by tasks.                           *)
(***************************************************************************)
EXTENDS Integers, FiniteSets, Sequences, SequencesExt

CONSTANTS
  Jobs,            \* tasks
  Holders,         \* the people who may hold a task
  DueDates,        \* the deadlines a task may have
  QuarterLength,   \* ticks of a fiscal quarter
  LastHour,        \* bound of the clock
  Nights,          \* concurrent runs of the nightly job
  MaxChanges,      \* bound: how often tasks change
  MaxRuns,         \* bound: how often a job is started
  NoRow            \* null, and an idle worker

VARIABLES
  hour,            \* the present moment
  job,             \* tasks with their blocks, as far as scoring looks at them
  tally,           \* kpi_scores of the KPI: rows of a quarter, tasks counted
  card,            \* employee_kpi_scores, for each quarter and holder
  board,           \* department_scores, for each quarter
  story,           \* executive_summaries, for each quarter
  night,           \* what each nightly run has done and is about to do
  teller,          \* the same of the weekly job
  ending,          \* history: the tasks as they were when a quarter ended
  tampered,        \* history: tasks changed after the quarter they counted in
  nightRaced,      \* history: a nightly run committed after another one got in between
  changes, runs    \* counted for the bounds

scoringVars ==
  <<hour, job, tally, card, board, story, night, teller, ending, tampered, nightRaced,
    changes, runs>>
scoreTables == <<tally, card, board, story>>
workers == <<night, teller>>
scoringHistory == <<ending, tampered, nightRaced, changes>>

Hours     == 0 .. LastHour
QuarterOf(m) == m \div QuarterLength
Quarters  == 0 .. QuarterOf(LastHour)
EndOf(q)  == (q + 1) * QuarterLength

Marks == {"on_time", "late", "not_done"}

Job ==
  [due : DueDates, status : {"open", "completed", "cancelled"}, done : Hours \cup {NoRow},
   who : Holders, held : BOOLEAN, credit : Nat, reviewed : Hours \cup {NoRow}]

\* A row of marks: the tasks counted, with their marks, and whether it is frozen.
ScoreRow == [final : BOOLEAN, marks : SUBSET (Jobs \X Marks)]

ASSUME ScoringAssumption ==
  /\ QuarterLength \in Nat \ {0} /\ LastHour \in Nat /\ DueDates \subseteq Nat
  /\ MaxChanges \in Nat /\ MaxRuns \in Nat
  /\ NoRow \notin Hours /\ NoRow \notin Marks

ScoringTypeOK ==
  /\ hour \in Hours
  /\ job \in [Jobs -> Job]
  /\ tally \in [Quarters -> [rows : Nat, done : SUBSET Jobs]]
  /\ card \in [Quarters -> [Holders -> ScoreRow \cup {NoRow}]]
  /\ board \in [Quarters -> ScoreRow \cup {NoRow}]
  /\ story \in [Quarters -> ScoreRow \cup {NoRow}]
  /\ tampered \subseteq Jobs
  /\ nightRaced \in BOOLEAN
  /\ changes \in 0 .. MaxChanges /\ runs \in 0 .. MaxRuns

ScoringInit ==
  /\ hour = 0
  /\ job \in [Jobs -> {[due |-> d, status |-> "open", done |-> NoRow, who |-> h,
                        held |-> FALSE, credit |-> 0, reviewed |-> NoRow]
                         : d \in DueDates, h \in Holders}]
  /\ tally = [q \in Quarters |-> [rows |-> 0, done |-> {}]]
  /\ card = [q \in Quarters |-> [h \in Holders |-> NoRow]]
  /\ board = [q \in Quarters |-> NoRow] /\ story = [q \in Quarters |-> NoRow]
  /\ night = [n \in Nights |-> NoRow] /\ teller = NoRow
  /\ ending = [q \in Quarters |-> NoRow]
  /\ tampered = {} /\ nightRaced = FALSE
  /\ changes = 0 /\ runs = 0

(***************************************************************************)
(* Marking a task                                                          *)
(***************************************************************************)
JobDeadline(j) == j.due + j.credit

\* A block reviewed after the deadline carries the task to the day of the review.
MomentItCounts(j) ==
  IF j.reviewed # NoRow /\ j.reviewed > JobDeadline(j) THEN j.reviewed ELSE JobDeadline(j)

FirstOf(m, n) == IF m <= n THEN m ELSE n

\* Mutant of HeldBack: a block that waits for its review holds nothing back.
NeverHeldBack(j) == FALSE

HeldBack(j) == j.held

\* Mutant of JudgedAt: a late run judges by its own moment.
JudgedNow(q, now) == now

JudgedAt(q, now) == FirstOf(now, EndOf(q))

\* mark_task: NoRow if the task does not count in quarter q, or not yet.
MarkTask(j, q, now) ==
  LET at   == JudgedAt(q, now)
      done == j.status = "completed" /\ j.done <= at
  IN  IF j.status = "cancelled" \/ HeldBack(j) \/ QuarterOf(MomentItCounts(j)) # q THEN NoRow
      ELSE IF done THEN (IF j.done <= JobDeadline(j) THEN "on_time" ELSE "late")
      ELSE IF JobDeadline(j) < at THEN "not_done" ELSE NoRow

\* The tasks that count in quarter q, with their marks.
MarkedTasks(tasks, q, now) ==
  {<<t, MarkTask(tasks[t], q, now)>> : t \in {u \in Jobs : MarkTask(tasks[u], q, now) # NoRow}}

\* count_completed_tasks_for_kpi.
CompletedTasks(q) == {t \in Jobs : job[t].status = "completed" /\ QuarterOf(job[t].done) = q}

(***************************************************************************)
(* Tasks                                                                   *)
(***************************************************************************)
SetJob(t, j) ==
  /\ changes < MaxChanges /\ changes' = changes + 1
  /\ job' = [job EXCEPT ![t] = j]
  /\ UNCHANGED <<hour, scoreTables, workers, ending, nightRaced, runs>>

\* A change that may touch a quarter that is over is on record.
ChangeTask(t, j) ==
  /\ SetJob(t, j)
  /\ tampered' = IF QuarterOf(MomentItCounts(job[t])) < QuarterOf(hour)
                      \/ QuarterOf(MomentItCounts(j)) < QuarterOf(hour)
                   THEN tampered \cup {t} ELSE tampered

CompleteJob(t) ==
  /\ job[t].status = "open"
  /\ SetJob(t, [job[t] EXCEPT !.status = "completed", !.done = hour])
  /\ UNCHANGED tampered

CancelJob(t) ==
  /\ job[t].status = "open"
  /\ ChangeTask(t, [job[t] EXCEPT !.status = "cancelled"])

ReassignJob(t, h) ==
  /\ job[t].status = "open" /\ job[t].who # h
  /\ ChangeTask(t, [job[t] EXCEPT !.who = h, !.credit = 0])

MoveDeadline(t, d) ==
  /\ job[t].status = "open" /\ job[t].due # d
  /\ ChangeTask(t, [job[t] EXCEPT !.due = d])

\* block_task: the block waits for its review from now on.  Bound: one at a time.
HoldJob(t) ==
  /\ job[t].status = "open" /\ ~job[t].held
  /\ ChangeTask(t, [job[t] EXCEPT !.held = TRUE])

\* The review of an ended block, also of a completed task; approved, it moves the
\* deadline by its length.  Bound: one tick is approved per task.
ReviewHold(t, length) ==
  /\ job[t].held
  /\ length \in {0, 1 - job[t].credit}
  /\ SetJob(t, [job[t] EXCEPT !.held = FALSE, !.reviewed = hour, !.credit = @ + length])
  /\ UNCHANGED tampered

HourPasses ==
  /\ hour < LastHour
  /\ hour' = hour + 1
  /\ ending' = [q \in Quarters |-> IF EndOf(q) = hour' THEN job ELSE ending[q]]
  /\ UNCHANGED <<job, scoreTables, workers, tampered, nightRaced, changes, runs>>

(***************************************************************************)
(* The nightly run                                                         *)
(***************************************************************************)
\* period_is_frozen.
Frozen(q) == board[q] # NoRow /\ board[q].final

Stages(q) == <<[of |-> q, do |-> "tally"], [of |-> q, do |-> "marks"]>>

\* run_nightly: the quarter before is closed if it is not frozen (and was not over
\* before the organization began), the current one is refreshed.
BeginNight(n) ==
  LET q == QuarterOf(hour) IN
  /\ night[n] = NoRow /\ runs < MaxRuns /\ runs' = runs + 1
  /\ night' = [night EXCEPT ![n] =
       [now |-> hour, overtaken |-> FALSE, tally |-> <<>>, card |-> <<>>, board |-> <<>>,
        todo |-> (IF q > 0 /\ ~Frozen(q - 1) THEN Stages(q - 1) ELSE <<>>) \o Stages(q)]]
  /\ UNCHANGED <<hour, job, scoreTables, teller, scoringHistory>>

\* Run n comes to this stage.
Due(n, stage) == night[n] # NoRow /\ night[n].todo # <<>> /\ Head(night[n].todo).do = stage

\* Quarter x is closed by run n, not refreshed.
Closes(n, x) == x < QuarterOf(night[n].now)

\* Another run has changed these rows of quarter x, and not committed yet.
Waits(n, x, rows) ==
  \E m \in Nights \ {n} : night[m] # NoRow /\ x \in DOMAIN night[m][rows]

With(f, x, v) == [y \in DOMAIN f \cup {x} |-> IF y = x THEN v ELSE f[y]]

\* save_task_count_results: the row there is gets the new count, or one is made.  It
\* waits for a run that has changed the row, not for one that is about to insert one,
\* and several rows are an exception (get_score_for_period).
SaveTaskCount(n) ==
  LET x == Head(night[n].todo).of IN
  /\ Due(n, "tally")
  /\ tally[x].rows <= 1
  /\ ~(tally[x].rows = 1 /\ Waits(n, x, "tally"))
  /\ night' = [night EXCEPT ![n].tally = With(@, x, [new  |-> tally[x].rows = 0,
                                                     done |-> CompletedTasks(x)]),
                            ![n].todo = Tail(@)]
  /\ UNCHANGED <<hour, job, scoreTables, teller, scoringHistory, runs>>

\* Mutant of Refreshed: the upsert does not ask whether the row is frozen.
RefreshedAnyway(row, marks, final) == [final |-> final, marks |-> marks]

\* save_employee_score, save_department_score and the freeze that follows: a row that
\* is frozen is left alone.
Refreshed(row, marks, final) ==
  IF row # NoRow /\ row.final THEN row ELSE [final |-> final, marks |-> marks]

\* compute_employee_scores and compute_department_scores, each followed at the close
\* by its finalize: a row for whoever holds a counted task, rows without one any more
\* are emptied; and the department's row, for which the results of KPIs are read once
\* more.  That tasks change between the two is left out: a change there is one before
\* or after both for each of the scoreTables.
SaveMarks(n) ==
  LET x     == Head(night[n].todo).of
      found == MarkedTasks(job, x, night[n].now)
      Of(h) == {m \in found : job[m[1]].who = h}
  IN
  /\ Due(n, "marks")
  /\ tally[x].rows <= 1
  /\ ~Waits(n, x, "card")
  /\ night' = [night EXCEPT
       ![n].card = With(@, x, [h \in Holders |->
                     IF card[x][h] = NoRow /\ Of(h) = {} THEN NoRow
                     ELSE Refreshed(card[x][h], Of(h), Closes(n, x))]),
       ![n].board = With(@, x, Refreshed(board[x], found, Closes(n, x))),
       ![n].todo = Tail(@)]
  /\ UNCHANGED <<hour, job, scoreTables, teller, scoringHistory, runs>>

Merged(f, g) == [x \in DOMAIN f |-> IF x \in DOMAIN g THEN g[x] ELSE f[x]]

CommitNight(n) ==
  /\ night[n] # NoRow /\ night[n].todo = <<>>
  /\ tally' = [x \in Quarters |->
       IF x \in DOMAIN night[n].tally
         THEN [rows |-> tally[x].rows + (IF night[n].tally[x].new THEN 1 ELSE 0),
               done |-> night[n].tally[x].done]
         ELSE tally[x]]
  /\ card' = Merged(card, night[n].card)
  /\ board' = Merged(board, night[n].board)
  /\ nightRaced' = (nightRaced \/ night[n].overtaken)
  /\ night' = [m \in Nights |-> IF m = n \/ night[m] = NoRow THEN NoRow
                                ELSE [night[m] EXCEPT !.overtaken = TRUE]]
  /\ UNCHANGED <<hour, job, story, teller, ending, tampered, changes, runs>>

\* An exception, a deadlock, a killed worker; the retry is another run.
AbandonNight(n) ==
  /\ night[n] # NoRow
  /\ night' = [night EXCEPT ![n] = NoRow]
  /\ UNCHANGED <<hour, job, scoreTables, teller, scoringHistory, runs>>

(***************************************************************************)
(* The weekly summaries                                                    *)
(***************************************************************************)
\* finalize_previous, of a quarter that is frozen and has no final summary yet, and
\* refresh_current: the figures are read, the model is asked.
BeginStory ==
  /\ teller = NoRow /\ runs < MaxRuns /\ runs' = runs + 1
  /\ \E q \in {QuarterOf(hour), QuarterOf(hour) - 1} \cap Quarters :
       /\ board[q] # NoRow
       /\ q < QuarterOf(hour) => Frozen(q)
       /\ ~(story[q] # NoRow /\ story[q].final)
       /\ teller' = [of |-> q, final |-> q < QuarterOf(hour), marks |-> board[q].marks]
  /\ UNCHANGED <<hour, job, scoreTables, night, scoringHistory>>

\* save_executive_summary: the same guarded upsert.
FinishStory ==
  /\ teller # NoRow
  /\ story' = [story EXCEPT ![teller.of] = Refreshed(@, teller.marks, teller.final)]
  /\ teller' = NoRow
  /\ UNCHANGED <<hour, job, tally, card, board, night, scoringHistory, runs>>

ScoringNext ==
  \/ \E t \in Jobs :
       \/ CompleteJob(t) \/ CancelJob(t) \/ HoldJob(t)
       \/ \E h \in Holders : ReassignJob(t, h)
       \/ \E d \in DueDates : MoveDeadline(t, d)
       \/ \E length \in {0, 1} : ReviewHold(t, length)
  \/ HourPasses
  \/ \E n \in Nights :
       \/ BeginNight(n) \/ SaveTaskCount(n) \/ SaveMarks(n)
       \/ CommitNight(n) \/ AbandonNight(n)
  \/ BeginStory \/ FinishStory

ScoringSpec == ScoringInit /\ [][ScoringNext]_scoringVars

(***************************************************************************)
(* What the scores promise                                                 *)
(***************************************************************************)
\* A closed quarter never changes: no frozen row of a person, of the department or
\* of the summaries is rewritten, whatever runs overlap, retry or come late.
FrozenFiguresStand ==
  [][\A q \in Quarters :
       /\ board[q] # NoRow /\ board[q].final => board'[q] = board[q]
       /\ story[q] # NoRow /\ story[q].final => story'[q] = story[q]
       /\ \A h \in Holders : card[q][h] # NoRow /\ card[q][h].final
                               => card'[q][h] = card[q][h]]_scoringVars

\* "A late run gives the same numbers (everything is judged at the quarter's end)"
\* (run_nightly): a task that nobody changed after its quarter was over has the mark
\* a run at the very end would have given it, in a frozen row of the department and
\* in the final summary (finished at the very end it may count either way); unless
\* two runs overlapped, every person's row is frozen along with the department's.
LateRunsAgree ==
  \A q \in Quarters : Frozen(q) =>
    /\ \A t \in Jobs \ tampered, m \in Marks :
         job[t].done # EndOf(q) =>
           (<<t, m>> \in board[q].marks <=> MarkTask(ending[q][t], q, EndOf(q)) = m)
    /\ story[q] # NoRow /\ story[q].final => story[q].marks = board[q].marks
    /\ ~nightRaced => \A h \in Holders : card[q][h] # NoRow => card[q][h].final

\* A task counts once, in one quarter and for one person, even if its block is
\* reviewed after its quarter was closed; and the results of the KPI are one row per
\* quarter.  Except for tasks that were changed after their quarter was over (blocked
\* anew, they count again), and unless two runs overlapped.
TasksCountOnce ==
  ~nightRaced =>
    /\ \A t \in Jobs \ tampered :
         /\ Cardinality({q \in Quarters : Frozen(q) /\ \E m \in Marks : <<t, m>> \in board[q].marks}) <= 1
         /\ \A q \in Quarters : Frozen(q) =>
              Cardinality({h \in Holders : card[q][h] # NoRow /\
                             \E m \in Marks : <<t, m>> \in card[q][h].marks}) <= 1
    /\ \A q \in Quarters : tally[q].rows <= 1

=============================================================================
