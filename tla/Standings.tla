------------------------------ MODULE Standings ------------------------------
(***************************************************************************)
(* The performance pages: a person's card, the people of a department, the *)
(* leaderboard, the most improved and the company's headline.  They are    *)
(* worked out on reading, from rows the nightly run has saved and from     *)
(* what else is true today: who works where, which KPIs there are, what    *)
(* they weigh.  After its close a quarter has to read as it did then.      *)
(*                                                                         *)
(* A read, a nightly run and a change are one step each (Scoring takes the *)
(* run apart).  Percentages are counted in hundredths.  Left out: the      *)
(* punctuality of departments, locations, deleted departments.             *)
(***************************************************************************)
EXTENDS Integers, FiniteSets, FiniteSetsExt

CONSTANTS
  Members,          \* people, numbered by their names
  Teams,            \* departments
  Goals,            \* KPIs
  TeamOf,           \* the department of each KPI, which it keeps
  Overseers,        \* HR administrators and business executives, employees or not
  TeamManagers,     \* those whose role is manager
  FirstCounts,      \* what the tasks of the first quarter may come to
  Tallies,          \* what a change may make them come to
  GoalWeights,      \* weights a KPI may be given
  Results,          \* results of KPIs, in percent of their targets
  MinValidTasks,    \* MIN_VALID_TASKS
  HowManyListed,    \* HOW_MANY_LISTED
  MaxEdits,         \* bound: how often anything changes
  NoData           \* null: no data, no row

VARIABLES
  quarter,          \* the present one
  place,            \* employees: the department of each one's position
  left,             \* employees: those who are inactive
  chief,            \* departments.head_employee_id
  goal,             \* kpis
  share,            \* departments.revenue_allocation_percentage
  counts,           \* what the tasks come to, by quarter, person and KPI
  result,           \* kpi_scores, by quarter and KPI
  saved,            \* employee_kpi_scores, by quarter, person and KPI
  summary,          \* department_scores, by quarter and department
  published,        \* history: what the pages of the first quarter showed at its close
  edits             \* counted for the bound

readVars ==
  <<quarter, place, left, chief, goal, share, counts, result, saved, summary, published, edits>>

Seasons == {1, 2}
\* The rows of a table after some were saved: those of f, and of g where f has none.
Onto(f, g) == [k \in DOMAIN f \cup DOMAIN g |-> IF k \in DOMAIN f THEN f[k] ELSE g[k]]
Put(k, v, g) == Onto([x \in {k} |-> v], g)

NoTasks == [on |-> 0, late |-> 0, missed |-> 0]
Tally   == [on : Nat, late : Nat, missed : Nat]
GoalRow == [weight : 0 .. 100, since : Seasons, live : BOOLEAN]

ASSUME StandingsAssumption ==
  /\ IsFiniteSet(Members) /\ Members \subseteq Int /\ 1 \in Members /\ TeamManagers \subseteq Members
  /\ IsFiniteSet(Teams) /\ Teams # {} /\ IsFiniteSet(Goals) /\ TeamOf \in [Goals -> Teams]
  /\ GoalWeights \subseteq 0 .. 100 /\ Results \subseteq Int /\ Tallies \subseteq Tally
  /\ \A c \in FirstCounts : DOMAIN c \subseteq {1} \X Members \X Goals /\ \A k \in DOMAIN c : c[k] \in Tally
  /\ MinValidTasks \in Int /\ HowManyListed \in Nat
  /\ NoData \notin Int /\ NoData \notin GoalRow

StandingsTypeOK ==
  /\ quarter \in Seasons
  /\ place \in [Members -> Teams] /\ left \subseteq Members
  /\ chief \in [Teams -> Members \cup {NoData}]
  /\ goal \in [Goals -> GoalRow \cup {NoData}]
  /\ DOMAIN counts \subseteq Seasons \X Members \X Goals
  /\ DOMAIN saved \subseteq Seasons \X Members \X Goals
  /\ \A k \in DOMAIN counts : counts[k] \in Tally
  /\ \A k \in DOMAIN saved : saved[k] \in [tally : Tally, weight : 0 .. 100, final : BOOLEAN]

StandingsInit ==
  /\ quarter = 1
  /\ place = [m \in Members |-> CHOOSE t \in Teams : TRUE]
  /\ left = {} /\ chief = [t \in Teams |-> IF t = place[1] THEN 1 ELSE NoData]
  /\ goal \in [Goals -> {[weight |-> w, since |-> 1, live |-> TRUE] : w \in GoalWeights} \cup {NoData}]
  /\ share = [t \in Teams |-> NoData]
  /\ counts \in FirstCounts
  /\ \A k \in DOMAIN counts : goal[k[3]] # NoData
  /\ result = <<>> /\ saved = <<>> /\ summary = <<>>
  /\ published = NoData
  /\ edits = 0

(***************************************************************************)
(* Arithmetic                                                              *)
(***************************************************************************)
Rounded(a, b) == (2 * a + b) \div (2 * b)

Total(w) == MapThenSumSet(LAMBDA x : w[x], DOMAIN w)

TasksIn(c) == c.on + c.late + c.missed

\* 100, 50 and 0 points.
ScoreFromCounts(c) ==
  IF c = NoTasks THEN NoData ELSE Rounded(10000 * c.on + 5000 * c.late, TasksIn(c))

\* f gives items their weights and scores; an item without a score is left out, and
\* if no weight is left all count the same.
WeightedAverage(f) ==
  LET present == {x \in DOMAIN f : f[x].score # NoData}
      weight  == Total([x \in present |-> f[x].weight])
  IN  IF present = {} THEN NoData
      ELSE IF weight > 0 THEN Rounded(Total([x \in present |-> f[x].weight * f[x].score]), weight)
      ELSE Rounded(Total([x \in present |-> f[x].score]), Cardinality(present))

\* Departments without a result do not count, nor those without a share, unless
\* no one has a share.
CompanyHeadline(f) ==
  LET withResult == {t \in DOMAIN f : f[t].score # NoData}
      shared     == {t \in withResult : f[t].weight # NoData}
  IN  IF shared # {} THEN WeightedAverage([t \in shared |-> f[t]])
      ELSE WeightedAverage([t \in withResult |-> [score |-> f[t].score, weight |-> 1]])

(***************************************************************************)
(* Pages                                                                   *)
(***************************************************************************)
LiveGoals == {g \in Goals : goal[g] # NoData /\ goal[g].live}

\* The KPIs a department is expected to have had in quarter q.
GoalsFor(t, q) == {g \in LiveGoals : TeamOf[g] = t /\ goal[g].since <= q}

\* Mutant of RowsOf: the weights are those of today.
RowsOfToday(m, q, gs) ==
  [g \in {h \in gs : <<q, m, h>> \in DOMAIN saved} |->
     [weight |-> goal[g].weight, score |-> ScoreFromCounts(saved[<<q, m, g>>].tally)]]

\* The saved rows of one person on these KPIs, each with the weight it was scored with.
RowsOf(m, q, gs) ==
  [g \in {h \in gs : <<q, m, h>> \in DOMAIN saved} |->
     [weight |-> saved[<<q, m, g>>].weight, score |-> ScoreFromCounts(saved[<<q, m, g>>].tally)]]

HasRows(m, q) == \E g \in Goals : <<q, m, g>> \in DOMAIN saved

\* get_person_performance: every saved row counts whose KPI is still there, of
\* whichever department; final if every row is, also of a KPI that is not.
Card(m, q) ==
  [overall |-> WeightedAverage(RowsOf(m, q, LiveGoals)),
   final   |-> HasRows(m, q) /\ \A g \in Goals : <<q, m, g>> \in DOMAIN saved => saved[<<q, m, g>>].final]

\* Whoever is active in a department today, and who has left with a saved row.
PeopleOf(t, q) == {m \in Members : place[m] = t /\ (m \notin left \/ HasRows(m, q))}

\* _people_lines and _ranked_people: only rows on the department's KPIs count.
OverallIn(t, m, q) == WeightedAverage(RowsOf(m, q, GoalsFor(t, q)))

\* Everyone of these departments who has a score.
Scored(ts, q) ==
  {m \in UNION {PeopleOf(t, q) : t \in ts} : OverallIn(place[m], m, q) # NoData}

\* Whom the list puts before m: best first, people of one score by their names.
Ahead(m, ts, q) ==
  {n \in Scored(ts, q) :
     \/ OverallIn(place[n], n, q) > OverallIn(place[m], m, q)
     \/ OverallIn(place[n], n, q) = OverallIn(place[m], m, q) /\ n < m}

BestFirst(ts, q) ==
  [i \in 1 .. Cardinality(Scored(ts, q)) |->
     CHOOSE m \in Scored(ts, q) : Cardinality(Ahead(m, ts, q)) = i - 1]

\* Ranks like a race, of scores in descending order: 1, 2, 2, 4.
RaceRanks(scores) ==
  LET rank[i \in DOMAIN scores] ==
        IF i > 1 /\ scores[i] = scores[i - 1] THEN rank[i - 1] ELSE i
  IN  rank

RankedPeople(ts, q) ==
  LET order  == BestFirst(ts, q)
      scores == [i \in DOMAIN order |-> OverallIn(place[order[i]], order[i], q)]
  IN  [i \in DOMAIN order |->
         [who |-> order[i], overall |-> scores[i], rank |-> RaceRanks(scores)[i]]]

\* A candidate has rows in two quarters, on KPIs that are still there.
Candidate(m, q) ==
  LET now    == RowsOf(m, q, LiveGoals)
      before == RowsOf(m, q - 1, LiveGoals)
      tasks(s, rows) == Total([g \in DOMAIN rows |-> TasksIn(saved[<<s, m, g>>].tally)])
  IN  [from |-> WeightedAverage(before), tasksThen |-> tasks(q - 1, before),
       to   |-> WeightedAverage(now),    tasksNow  |-> tasks(q, now)]

Qualifies(c) ==
  /\ c.from # NoData /\ c.to # NoData
  /\ c.tasksThen >= MinValidTasks /\ c.tasksNow >= MinValidTasks
  /\ c.to > c.from

Improvers(q) == {m \in Members : Qualifies(Candidate(m, q))}

Gain(m, q) == Candidate(m, q).to - Candidate(m, q).from

\* The biggest gains first, of equal ones the one with more tasks.
ImprovedMore(m, q) ==
  {n \in Improvers(q) :
     \/ Gain(n, q) > Gain(m, q)
     \/ Gain(n, q) = Gain(m, q) /\ Candidate(n, q).tasksNow > Candidate(m, q).tasksNow}

\* Whoever the list may show: people alike in both stand in the order of the table.
MostImproved(q) == {m \in Improvers(q) : Cardinality(ImprovedMore(m, q)) < HowManyListed}

Headline(q) ==
  CompanyHeadline([t \in {u \in Teams : <<q, u>> \in DOMAIN summary} |-> summary[<<q, t>>]])

\* The three ways a page says that its quarter is closed.
TeamIsFinal(t, q) == <<q, t>> \in DOMAIN summary /\ summary[<<q, t>>].final
PeriodIsFrozen(q) == \E t \in Teams : TeamIsFinal(t, q)

(***************************************************************************)
(* Who may see what                                                        *)
(***************************************************************************)
\* load_performance_scope.
TeamsSeen(v) ==
  {t \in Teams : chief[t] = v} \cup (IF v \in TeamManagers THEN {place[v]} ELSE {})

CanSeePerson(v, m) == v \in Overseers \/ v = m \/ place[m] \in TeamsSeen(v)

CanSeeRankedList(v) == v \in Overseers \/ TeamsSeen(v) # {}

\* get_leaderboard, of no particular department.
Leaderboard(v, q) == RankedPeople(IF v \in Overseers THEN Teams ELSE TeamsSeen(v), q)

(***************************************************************************)
(* The nightly run                                                         *)
(***************************************************************************)
\* The rows of quarter q after compute_employee_scores, and after the freeze if it
\* is being closed.  A row without tasks any more is emptied.
SavedAnew(q, final) ==
  LET marked == {k \in DOMAIN counts : k[1] = q /\ k[3] \in LiveGoals}
      row(k) == IF k \in DOMAIN saved /\ saved[k].final THEN saved[k]
                ELSE IF k \in marked
                  THEN [tally |-> counts[k], weight |-> goal[k[3]].weight, final |-> final]
                ELSE [saved[k] EXCEPT !.tally = NoTasks, !.final = final]
  IN  [k \in marked \cup {l \in DOMAIN saved : l[1] = q} |-> row(k)]

\* compute_department_scores, likewise.
SummaryAnew(q, final) ==
  LET goals(t) == {g \in LiveGoals : TeamOf[g] = t}
      found(g) == IF <<q, g>> \in DOMAIN result THEN result[<<q, g>>] ELSE NoData
      score(t) == WeightedAverage([g \in goals(t) |-> [weight |-> goal[g].weight, score |-> found(g)]])
  IN  [k \in {q} \X Teams |->
         IF TeamIsFinal(k[2], q) THEN summary[k]
         ELSE [score |-> score(k[2]), weight |-> share[k[2]], final |-> final]]

\* The quarter before is closed, once; the present one is refreshed.
Night ==
  LET closes == quarter = 2 /\ ~PeriodIsFrozen(1) IN
  /\ UNCHANGED <<quarter, place, left, chief, goal, share, counts, result, edits>>
  /\ saved' = Onto(SavedAnew(quarter, FALSE), IF closes THEN Onto(SavedAnew(1, TRUE), saved) ELSE saved)
  /\ summary' = Onto(SummaryAnew(quarter, FALSE), IF closes THEN Onto(SummaryAnew(1, TRUE), summary) ELSE summary)
  /\ published' = IF ~closes THEN published ELSE
       [cards |-> [m \in Members |-> Card(m, 1)'], place |-> place, goals |-> LiveGoals,
        lines |-> [m \in Members |-> OverallIn(place[m], m, 1)'], headline |-> Headline(1)']

(***************************************************************************)
(* What else changes                                                       *)
(***************************************************************************)
Edited == edits < MaxEdits /\ edits' = edits + 1

\* Tasks that are due in the present quarter come to something else.
WorkGoesOn(m, g, c) ==
  /\ g \in LiveGoals
  /\ counts' = Put(<<quarter, m, g>>, c, counts)
  /\ Edited
  /\ UNCHANGED <<quarter, place, left, chief, goal, share, result, saved, summary, published>>

RecordResult(g, percent) ==
  /\ g \in LiveGoals
  /\ result' = Put(<<quarter, g>>, percent, result)
  /\ Edited
  /\ UNCHANGED <<quarter, place, left, chief, goal, share, counts, saved, summary, published>>

WeighGoal(g, w) ==
  /\ g \in LiveGoals /\ w # goal[g].weight
  /\ goal' = [goal EXCEPT ![g].weight = w]
  /\ Edited
  /\ UNCHANGED <<quarter, place, left, chief, share, counts, result, saved, summary, published>>

CreateGoal(g, w) ==
  /\ goal[g] = NoData
  /\ goal' = [goal EXCEPT ![g] = [weight |-> w, since |-> quarter, live |-> TRUE]]
  /\ Edited
  /\ UNCHANGED <<quarter, place, left, chief, share, counts, result, saved, summary, published>>

DropGoal(g) ==
  /\ g \in LiveGoals
  /\ goal' = [goal EXCEPT ![g].live = FALSE]
  /\ Edited
  /\ UNCHANGED <<quarter, place, left, chief, share, counts, result, saved, summary, published>>

ShareCapital(t, percent) ==
  /\ share[t] # percent
  /\ share' = [share EXCEPT ![t] = percent]
  /\ Edited
  /\ UNCHANGED <<quarter, place, left, chief, goal, counts, result, saved, summary, published>>

Transfer(m, t) ==
  /\ place[m] # t
  /\ place' = [place EXCEPT ![m] = t]
  /\ Edited
  /\ UNCHANGED <<quarter, left, chief, goal, share, counts, result, saved, summary, published>>

\* Leaving ends a headship, coming back does not restore it.
LeaveTeam(m) ==
  /\ m \notin left
  /\ left' = left \cup {m}
  /\ chief' = [t \in Teams |-> IF chief[t] = m THEN NoData ELSE chief[t]]
  /\ Edited
  /\ UNCHANGED <<quarter, place, goal, share, counts, result, saved, summary, published>>

ComeBack(m) ==
  /\ m \in left
  /\ left' = left \ {m}
  /\ Edited
  /\ UNCHANGED <<quarter, place, chief, goal, share, counts, result, saved, summary, published>>

QuarterEnds ==
  /\ quarter = 1
  /\ quarter' = 2
  /\ UNCHANGED <<place, left, chief, goal, share, counts, result, saved, summary, published, edits>>

StandingsNext ==
  \/ Night \/ QuarterEnds
  \/ \E m \in Members :
       \/ \E g \in Goals, c \in Tallies : WorkGoesOn(m, g, c)
       \/ \E t \in Teams : Transfer(m, t)
       \/ LeaveTeam(m) \/ ComeBack(m)
  \/ \E g \in Goals :
       \/ \E percent \in Results : RecordResult(g, percent)
       \/ \E w \in GoalWeights : WeighGoal(g, w) \/ CreateGoal(g, w)
       \/ DropGoal(g)
  \/ \E t \in Teams, percent \in GoalWeights \cup {NoData} : ShareCapital(t, percent)

StandingsSpec == StandingsInit /\ [][StandingsNext]_readVars

(***************************************************************************)
(* What the pages promise                                                  *)
(***************************************************************************)
\* The KPIs outside a person's department that a row of theirs counts for.
Strays(m, q) == {g \in LiveGoals \ GoalsFor(place[m], q) : <<q, m, g>> \in DOMAIN saved}

\* A closed quarter reads as it was published, whatever is weighed, shared, recorded
\* or worked anew and whoever comes or goes: a card as long as no KPI of it was
\* deleted, a line of a department or of the leaderboard as long as the person did not
\* move either, the company's headline always.
ClosedQuarterReadsTheSame ==
  published # NoData =>
    /\ Headline(1) = published.headline
    /\ \A m \in Members :
         (\A g \in published.goals : <<1, m, g>> \in DOMAIN saved => g \in LiveGoals) =>
           /\ Card(m, 1) = published.cards[m]
           /\ place[m] = published.place[m] =>
                OverallIn(place[m], m, 1) = published.lines[m]

\* Who may see a ranking may open the card of everyone on it and finds the same score
\* there, unless the person has a row on a KPI of another department; ranks skip, and
\* nobody is on it twice.
RankingMatchesCards(v, q) ==
  CanSeeRankedList(v) =>
    LET ranking == Leaderboard(v, q) IN
    \A i \in DOMAIN ranking :
      LET m == ranking[i].who IN
      /\ CanSeePerson(v, m)
      /\ Strays(m, q) = {} => Card(m, q).overall = ranking[i].overall
      /\ ranking[i].rank = 1 + Cardinality({j \in DOMAIN ranking : ranking[j].overall > ranking[i].overall})
      /\ \A j \in DOMAIN ranking : ranking[j].who = m => j = i

\* The pages agree, with each other and over time: rankings match the cards, a closed
\* quarter reads the same, its cards, its departments and its leaderboard all say
\* final, and the headline lies between the results it is made of.
PagesAgree ==
  /\ StandingsTypeOK
  /\ ClosedQuarterReadsTheSame
  /\ \A q \in {k[1] : k \in DOMAIN summary} :
       LET scores == {summary[<<q, t>>].score : t \in Teams} \ {NoData} IN
       /\ \A v \in Members \cup Overseers : RankingMatchesCards(v, q)
       /\ \A m \in Members : HasRows(m, q) => (Card(m, q).final <=> PeriodIsFrozen(q))
       /\ \A t \in Teams : TeamIsFinal(t, q) <=> PeriodIsFrozen(q)
       /\ Headline(q) # NoData =>
            (\E s \in scores : s <= Headline(q)) /\ (\E s \in scores : Headline(q) <= s)
       /\ q > 1 => \A m \in MostImproved(q) :
            /\ Card(m, q).overall > Card(m, q - 1).overall
            /\ \A n \in Improvers(q) : Gain(n, q) > Gain(m, q) => n \in MostImproved(q)

=============================================================================
