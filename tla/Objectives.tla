----------------------------- MODULE Objectives -----------------------------
(***************************************************************************)
(* Objectives (okrs), their key results, and the KPIs that measure them.   *)
(* Rows are soft-deleted, so a reference outlives its target unless the    *)
(* service's count finds it.  A request checks first, then writes and      *)
(* commits, as in Hierarchy.                                               *)
(***************************************************************************)
EXTENDS Integers, FiniteSets, Requests

CONSTANTS
  Okrs, KeyResults, Measures,   \* the pools of okr, key result and KPI ids
  Strategists,                  \* concurrent requests
  Missing                       \* null, a row not created yet, an idle request

VARIABLES
  okr,               \* okrs: live or deleted
  keyResult,         \* key_results, each of an okr
  measure,           \* kpis, as far as key_result_id goes
  strategist,        \* what each request has checked and is about to write
  okrRaced,          \* history: a request committed after another one got in between
  lateMeasures       \* history: KPIs linked to a key result already deleted

okrVars == <<okr, keyResult, measure, strategist, okrRaced, lateMeasures>>

OkrRow       == [live : BOOLEAN]
KeyResultRow == [okr : Okrs, live : BOOLEAN]
MeasureRow   == [of : KeyResults \cup {Missing}, live : BOOLEAN]

ASSUME OkrAssumption == Missing \notin OkrRow /\ Missing \notin KeyResultRow

OkrTypeOK ==
  /\ okr \in [Okrs -> OkrRow \cup {Missing}]
  /\ keyResult \in [KeyResults -> KeyResultRow \cup {Missing}]
  /\ measure \in [Measures -> MeasureRow \cup {Missing}]
  /\ okrRaced \in BOOLEAN
  /\ lateMeasures \subseteq Measures

OkrInit ==
  /\ okr = [o \in Okrs |-> Missing]
  /\ keyResult = [k \in KeyResults |-> Missing]
  /\ measure = [m \in Measures |-> Missing]
  /\ strategist = [s \in Strategists |-> Missing]
  /\ okrRaced = FALSE /\ lateMeasures = {}

\* get_okr_by_id, get_key_result_by_id, get_kpi_by_id find what is not deleted.
LiveOkr(o)       == okr[o] # Missing /\ okr[o].live
LiveKeyResult(k) == keyResult[k] # Missing /\ keyResult[k].live
LiveMeasure(m)   == measure[m] # Missing /\ measure[m].live

\* list_all_key_results_of_okr.
KeyResultsOf(o) == {k \in KeyResults : LiveKeyResult(k) /\ keyResult[k].okr = o}

\* Mutant of KpisOnKeyResults: the KPIs of a single key result are counted.
KpisOnFirstKeyResult(K) ==
  LET first == CHOOSE k \in K : TRUE
  IN  {m \in Measures : K # {} /\ LiveMeasure(m) /\ measure[m].of = first}

\* count_active_kpis_on_key_results.
KpisOnKeyResults(K) == {m \in Measures : LiveMeasure(m) /\ measure[m].of \in K}

StrategistReady(s, r) ==
  /\ strategist[s] = Missing
  /\ strategist' = Checked(strategist, s, r)
  /\ UNCHANGED <<okr, keyResult, measure, okrRaced, lateMeasures>>

StrategistDoes(s, op) == strategist[s] # Missing /\ strategist[s].todo.op = op

StrategistCommits(s) ==
  /\ strategist' = Committed(strategist, s, Missing)
  /\ okrRaced' = (okrRaced \/ Overtaken(strategist, s, Missing))

AbandonStrategist(s) ==
  /\ strategist[s] # Missing
  /\ strategist' = [strategist EXCEPT ![s] = Missing]
  /\ UNCHANGED <<okr, keyResult, measure, okrRaced, lateMeasures>>

\* A request of one statement.
AtOnce ==
  /\ strategist' = Committed(strategist, Missing, Missing)
  /\ UNCHANGED okrRaced

CreateOkr(o) ==
  /\ okr[o] = Missing
  /\ okr' = [okr EXCEPT ![o] = [live |-> TRUE]]
  /\ AtOnce
  /\ UNCHANGED <<keyResult, measure, lateMeasures>>

\* create_key_result: the objective is there.
BeginCreateKeyResult(s, k, o) ==
  /\ LiveOkr(o)
  /\ StrategistReady(s, [op |-> "create", k |-> k, o |-> o])

FinishCreateKeyResult(s) ==
  /\ StrategistDoes(s, "create")
  /\ LET r == strategist[s].todo IN
       /\ keyResult[r.k] = Missing
       /\ keyResult' = [keyResult EXCEPT ![r.k] = [okr |-> r.o, live |-> TRUE]]
  /\ StrategistCommits(s)
  /\ UNCHANGED <<okr, measure, lateMeasures>>

\* delete_okr and the key results it had, refused while a KPI measures one of them.
BeginDeleteOkr(s, o) ==
  /\ LiveOkr(o)
  /\ KpisOnKeyResults(KeyResultsOf(o)) = {}
  /\ StrategistReady(s, [op |-> "delete okr", o |-> o, results |-> KeyResultsOf(o)])

FinishDeleteOkr(s) ==
  /\ StrategistDoes(s, "delete okr")
  /\ LET r == strategist[s].todo IN
       /\ okr' = [okr EXCEPT ![r.o].live = FALSE]
       /\ keyResult' = [k \in KeyResults |->
            IF k \in r.results THEN [keyResult[k] EXCEPT !.live = FALSE] ELSE keyResult[k]]
  /\ StrategistCommits(s)
  /\ UNCHANGED <<measure, lateMeasures>>

\* delete_key_result.
BeginDeleteKeyResult(s, k) ==
  /\ LiveKeyResult(k)
  /\ KpisOnKeyResults({k}) = {}
  /\ StrategistReady(s, [op |-> "delete key result", k |-> k])

FinishDeleteKeyResult(s) ==
  /\ StrategistDoes(s, "delete key result")
  /\ keyResult' = [keyResult EXCEPT ![strategist[s].todo.k].live = FALSE]
  /\ StrategistCommits(s)
  /\ UNCHANGED <<okr, measure, lateMeasures>>

\* create_kpi and update_kpi link a KPI to any key result there ever was, or to none;
\* reconcile_kpis may delete it.
LinkMeasure(m, k) ==
  /\ measure[m] # [of |-> k, live |-> TRUE]
  /\ k \in {x \in KeyResults : keyResult[x] # Missing} \cup {Missing}
  /\ m \in {x \in Measures : measure[x] = Missing \/ LiveMeasure(x)}
  /\ measure' = [measure EXCEPT ![m] = [of |-> k, live |-> TRUE]]
  /\ lateMeasures' = IF k \in {x \in KeyResults : ~LiveKeyResult(x)}
                       THEN lateMeasures \cup {m} ELSE lateMeasures \ {m}
  /\ AtOnce
  /\ UNCHANGED <<okr, keyResult>>

DropMeasure(m) ==
  /\ LiveMeasure(m)
  /\ measure' = [measure EXCEPT ![m].live = FALSE]
  /\ AtOnce
  /\ UNCHANGED <<okr, keyResult, lateMeasures>>

OkrNext ==
  \/ \E s \in Strategists :
       \/ AbandonStrategist(s)
       \/ \E k \in KeyResults, o \in Okrs : BeginCreateKeyResult(s, k, o)
       \/ \E o \in Okrs : BeginDeleteOkr(s, o)
       \/ \E k \in KeyResults : BeginDeleteKeyResult(s, k)
       \/ FinishCreateKeyResult(s) \/ FinishDeleteOkr(s) \/ FinishDeleteKeyResult(s)
  \/ \E o \in Okrs : CreateOkr(o)
  \/ \E m \in Measures :
       \/ \E k \in KeyResults \cup {Missing} : LinkMeasure(m, k)
       \/ DropMeasure(m)

OkrSpec == OkrInit /\ [][OkrNext]_okrVars

\* "The KPI would be left pointing at something nobody can see" (delete_okr): a KPI
\* measures a key result that is there, of an objective that is there, unless
\* requests overlapped, or the KPI was linked after the deletion, which create_kpi
\* and update_kpi do not refuse.
KpisMeasureSomething ==
  ~okrRaced =>
    /\ \A k \in KeyResults : LiveKeyResult(k) => LiveOkr(keyResult[k].okr)
    /\ \A m \in Measures :
         LiveMeasure(m) /\ m \notin lateMeasures /\ measure[m].of # Missing
           => LiveKeyResult(measure[m].of)

=============================================================================
