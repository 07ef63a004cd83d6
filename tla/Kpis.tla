-------------------------------- MODULE Kpis --------------------------------
(***************************************************************************)
(* The KPIs of one department at one location, and the figures typed in    *)
(* for them.  Their weights are percentages of one whole, a rule that only *)
(* the service keeps: it adds up the committed weights, without a lock,    *)
(* and writes.  What is asked for has any number of decimals and any sign; *)
(* what is kept has two decimals, and the unit here is the second one.  A  *)
(* figure belongs to a period and can be corrected until the period's last *)
(* day is over.                                                            *)
(***************************************************************************)
EXTENDS Integers, FiniteSets, FiniteSetsExt, Requests

CONSTANTS
  Kpi,           \* the pool of kpis ids
  Grain,         \* so many submitted units make one that is kept
  Weights,       \* what is asked for as a weight, in submitted units
  Repeats,       \* what earlier mentions of one KPI in a list add up to
  Whole,         \* 100%, in kept units
  Figures,       \* the pool of kpi_scores ids
  Amounts,       \* what may be typed in
  LastDay,       \* bound of the calendar; period p ends on day p
  Planners,      \* concurrent requests
  Unset          \* null, a row not created yet, an idle request

VARIABLES
  kpi,           \* kpis
  figure,        \* kpi_scores
  planner,       \* what each request has checked and is about to write
  day,           \* today
  kpiRaced       \* history: a request committed after another commit or midnight

kpiVars == <<kpi, figure, planner, day, kpiRaced>>

Periods == 0 .. LastDay

\* DECIMAL(5, 2): what is kept of a weight is rounded, halves away from zero.  (What the
\* column cannot hold is refused, and the request abandoned.)
Stored(w) ==
  IF w >= 0 THEN (2 * w + Grain) \div (2 * Grain)
  ELSE 0 - ((Grain - 2 * w) \div (2 * Grain))

KpiRow    == [weight : {Stored(w) : w \in Weights}, live : BOOLEAN]
FigureRow == [kpi : Kpi, period : Periods, amount : Amounts]

ASSUME KpiAssumption ==
  /\ IsFiniteSet(Kpi)
  /\ Grain \in Nat \ {0} /\ Weights \subseteq Int /\ Repeats \subseteq Int
  /\ Whole \in Nat /\ LastDay \in Nat
  /\ Unset \notin KpiRow /\ Unset \notin FigureRow

KpiTypeOK ==
  /\ kpi \in [Kpi -> KpiRow \cup {Unset}]
  /\ figure \in [Figures -> FigureRow \cup {Unset}]
  /\ day \in Periods
  /\ kpiRaced \in BOOLEAN

KpiInit ==
  /\ kpi = [k \in Kpi |-> Unset]
  /\ figure = [f \in Figures |-> Unset]
  /\ planner = [s \in Planners |-> Unset]
  /\ day = 0
  /\ kpiRaced = FALSE

PlannerReady(s, r) ==
  /\ planner[s] = Unset
  /\ planner' = Checked(planner, s, r)
  /\ UNCHANGED <<kpi, figure, day, kpiRaced>>

PlannerDoes(s, op) == planner[s] # Unset /\ planner[s].todo.op = op

PlannerCommits(s) ==
  /\ planner' = Committed(planner, s, Unset)
  /\ kpiRaced' = (kpiRaced \/ Overtaken(planner, s, Unset))
  /\ UNCHANGED day

AbandonPlanner(s) ==
  /\ planner[s] # Unset
  /\ planner' = [planner EXCEPT ![s] = Unset]
  /\ UNCHANGED <<kpi, figure, day, kpiRaced>>

(***************************************************************************)
(* Weights                                                                 *)
(***************************************************************************)
\* list_kpis_in_group, get_kpi_by_id: rows that are not deleted.
KpisInGroup == {k \in Kpi : kpi[k] # Unset /\ kpi[k].live}

\* sum_weights_for_group, leaving out the KPIs in X.
SumWeights(X) == MapThenSumSet(LAMBDA k : kpi[k].weight, KpisInGroup \ X)

\* Mutant of Fits: what is already there is compared with the whole.
FitsSoFar(k, w) == SumWeights({k}) <= Whole

\* Whether KPI k may have weight w (create_kpi, update_kpi): what the others keep and
\* what is asked for, which is not rounded yet.
Fits(k, w) == SumWeights({k}) * Grain + w <= Whole * Grain

BeginCreateKpi(s, k, w) ==
  /\ kpi[k] = Unset
  /\ Fits(k, w)
  /\ PlannerReady(s, [op |-> "create", k |-> k, w |-> w])

FinishCreateKpi(s) ==
  /\ PlannerDoes(s, "create")
  /\ LET r == planner[s].todo IN
       /\ kpi[r.k] = Unset
       /\ kpi' = [kpi EXCEPT ![r.k] = [weight |-> Stored(r.w), live |-> TRUE]]
  /\ PlannerCommits(s)
  /\ UNCHANGED figure

\* update_kpi with a weight, also on behalf of an approved suggestion.
BeginUpdateKpi(s, k, w) ==
  /\ k \in KpisInGroup /\ kpi[k].weight * Grain # w
  /\ Fits(k, w)
  /\ PlannerReady(s, [op |-> "update", k |-> k, w |-> w])

FinishUpdateKpi(s) ==
  /\ PlannerDoes(s, "update")
  /\ kpi' = [kpi EXCEPT ![planner[s].todo.k].weight = Stored(planner[s].todo.w)]
  /\ PlannerCommits(s)
  /\ UNCHANGED figure

\* A list of KPIs, by the KPI: the weight it is named with last, and what the weights of
\* its earlier mentions come to, if it is named more than once.
Submissions == UNION {[S -> [weight : Weights, before : Repeats \cup {0}]] : S \in SUBSET Kpi}

\* reconcile_kpis: the submitted list replaces the group.  What is submitted is the
\* whole exactly, before rounding.  The list names KPIs of the group, more than once if
\* it likes, and new ones; those it does not name are deleted.  An item that says what
\* its row says writes nothing.
BeginReconcile(s, list) ==
  /\ \A k \in DOMAIN list : k \in KpisInGroup \/ (kpi[k] = Unset /\ list[k].before = 0)
  /\ MapThenSumSet(LAMBDA k : list[k].weight + list[k].before, DOMAIN list) = Whole * Grain
  /\ PlannerReady(s, [op |-> "reconcile", list |-> list,
                      gone |-> KpisInGroup \ DOMAIN list,
                      new  |-> {k \in DOMAIN list : kpi[k] = Unset},
                      same |-> {k \in KpisInGroup \cap DOMAIN list :
                                  list[k] = [weight |-> kpi[k].weight * Grain, before |-> 0]}])

\* The items are written one after another: of a KPI that is named twice the last weight
\* stays.
FinishReconcile(s) ==
  /\ PlannerDoes(s, "reconcile")
  /\ LET r == planner[s].todo IN
       /\ \A k \in r.new : kpi[k] = Unset
       /\ kpi' = [k \in Kpi |->
            IF k \in r.new THEN [weight |-> Stored(r.list[k].weight), live |-> TRUE]
            ELSE IF k \in DOMAIN r.list \ r.same
              THEN [kpi[k] EXCEPT !.weight = Stored(r.list[k].weight)]
            ELSE IF k \in r.gone THEN [kpi[k] EXCEPT !.live = FALSE]
            ELSE kpi[k]]
  /\ PlannerCommits(s)
  /\ UNCHANGED figure

(***************************************************************************)
(* Figures                                                                 *)
(***************************************************************************)
\* get_score_for_period, without its complaint if there are several.
FiguresFor(k, p) == {f \in Figures : figure[f] # Unset /\ figure[f].kpi = k /\ figure[f].period = p}

\* Mutant of PeriodIsOpen: it takes figures for a day longer.
PeriodIsOpenOneDayMore(p) == p + 1 >= day

\* KPIScorePeriodClosedException.
PeriodIsOpen(p) == p >= day

\* upsert_score, of a KPI that is not counted by tasks: the period is open, the row
\* there is for it will be changed, or a new one made.
BeginUpsertScore(s, k, p, a) ==
  /\ k \in KpisInGroup
  /\ PeriodIsOpen(p)
  /\ Cardinality(FiguresFor(k, p)) <= 1
  /\ PlannerReady(s, [op |-> "score", k |-> k, p |-> p, a |-> a, row |-> FiguresFor(k, p)])

FinishUpsertScore(s) ==
  /\ PlannerDoes(s, "score")
  /\ LET r == planner[s].todo IN
       \E f \in Figures :
         /\ IF r.row = {} THEN figure[f] = Unset ELSE f \in r.row
         /\ figure' = [figure EXCEPT ![f] = [kpi |-> r.k, period |-> r.p, amount |-> r.a]]
  /\ PlannerCommits(s)
  /\ UNCHANGED kpi

Midnight ==
  /\ day < LastDay
  /\ day' = day + 1
  /\ planner' = Committed(planner, Unset, Unset)
  /\ UNCHANGED <<kpi, figure, kpiRaced>>

KpiNext ==
  \/ \E s \in Planners :
       \/ \E k \in Kpi, w \in Weights : BeginCreateKpi(s, k, w) \/ BeginUpdateKpi(s, k, w)
       \/ \E list \in Submissions : BeginReconcile(s, list)
       \/ \E k \in Kpi, p \in Periods, a \in Amounts : BeginUpsertScore(s, k, p, a)
       \/ FinishCreateKpi(s) \/ FinishUpdateKpi(s) \/ FinishReconcile(s)
       \/ FinishUpsertScore(s) \/ AbandonPlanner(s)
  \/ Midnight

KpiSpec == KpiInit /\ [][KpiNext]_kpiVars

(***************************************************************************)
(* What the figures rest on                                                *)
(***************************************************************************)
\* create_kpi rejects "if adding it would push its department/location group's weights
\* over 100%": a KPI that is created or reweighed by a request nobody overtook leaves
\* the weights that are kept within 100%, whatever rounding, negative weights or a race
\* had made of them before.  And a reconciliation nobody overtook leaves 100%, but for
\* half a hundredth for each KPI, if it named each of them once.
WeightsFit ==
  [][\A s \in Planners : planner[s] # Unset /\ ~planner[s].overtaken =>
       /\ FinishCreateKpi(s) \/ FinishUpdateKpi(s) => SumWeights({})' <= Whole
       /\ FinishReconcile(s) /\ (\A k \in DOMAIN planner[s].todo.list : planner[s].todo.list[k].before = 0)
            => /\ 2 * SumWeights({})' <= 2 * Whole + Cardinality(KpisInGroup')
               /\ 2 * SumWeights({})' >= 2 * Whole - Cardinality(KpisInGroup')]_kpiVars

\* A KPI has one figure per period, and the figure of a period that is over "is
\* permanent history" (KPIScore), unless requests overlapped, or midnight struck
\* between check and commit.
PastFiguresStand ==
  [][~kpiRaced' =>
       /\ \A k \in Kpi, p \in Periods :
            Cardinality({f \in Figures : figure'[f] # Unset /\ figure'[f].kpi = k
                                           /\ figure'[f].period = p}) <= 1
       /\ \A f \in Figures : figure'[f] # figure[f] => figure'[f].period >= day]_kpiVars

=============================================================================
