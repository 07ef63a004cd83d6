----------------------------- MODULE Suggestions -----------------------------
(***************************************************************************)
(* AI suggestions about the chart: a critical position, a department's     *)
(* share of revenue, a missing department.  A generation run reads what    *)
(* there is to suggest about, asks the model (which may take minutes),     *)
(* drops what is not eligible and inserts the rest; a reviewer claims a    *)
(* pending row with one conditional UPDATE and applies it before the       *)
(* commit.  Suggestions of KPI weights are not part of this model.         *)
(***************************************************************************)
EXTENDS Hierarchy

CONSTANTS
  MaxPendingMissing,   \* settings.ai_max_pending_missing_departments
  LastQuarter          \* bound of the calendar

ASSUME SuggestionsAssumption == MaxPendingMissing \in Nat

Pending(i) == suggestion[i] # Void /\ suggestion[i].status = "pending"
PendingMissing == {i \in Suggestions : Pending(i) /\ suggestion[i].target \in Names}

(***************************************************************************)
(* Generation                                                              *)
(***************************************************************************)
\* What there is to suggest about: positions of live departments, departments, and
\* names that no department has.  That the model picks some of them, and criticality
\* narrows them, is the choice of a subset.
CriticalPositionCandidates == {p \in Seats : LiveSeat(p) /\ LiveDept(seat[p].dept)}
RevenueAllocationCandidates == {d \in Depts : LiveDept(d)}
MissingDepartmentCandidates == {n \in Names : NameIsFree(n)}

\* Bound: one suggestion per run; a longer run is a run for each, its check made
\* before the others' rows are committed.
Picks == CriticalPositionCandidates \cup RevenueAllocationCandidates
           \cup MissingDepartmentCandidates

BeginGenerate(c, x) ==
  /\ x \in Picks
  /\ ClerkReady(c, [op |-> "generate", x |-> x])

\* Mutant of HasRecentRejection: every rejection is taken for one of an earlier quarter.
HasOlderRejection(x) ==
  \E i \in Suggestions :
    /\ suggestion[i] # Void /\ suggestion[i].target = x
    /\ suggestion[i].status = "rejected" /\ suggestion[i].reviewed < quarter

\* has_recent_rejection: the target was turned down in the present quarter.
HasRecentRejection(x) ==
  \E i \in Suggestions :
    /\ suggestion[i] # Void /\ suggestion[i].target = x
    /\ suggestion[i].status = "rejected" /\ suggestion[i].reviewed = quarter

\* create_suggestion_if_eligible up to its INSERT.
Eligible(x) ==
  /\ ~HasRecentRejection(x)
  /\ x \in Names => Cardinality(PendingMissing) < MaxPendingMissing

CheckEligible(c) ==
  /\ ClerkDoes(c, "generate")
  /\ Eligible(clerk[c].todo.x)
  /\ clerk' = [clerk EXCEPT ![c].todo = [op |-> "insert", x |-> clerk[c].todo.x, made |-> quarter]]
  /\ UNCHANGED <<dept, seat, suggestion, post, chartRaced, late, chartHistory>>

\* create_pending_suggestion: INSERT ... ON CONFLICT DO NOTHING on the index of
\* pending targets.  Nothing inserted is an abandoned run.
CreatePendingSuggestion(c, i) ==
  /\ ClerkDoes(c, "insert")
  /\ suggestion[i] = Void
  /\ ~HasPendingSuggestion(clerk[c].todo.x)
  /\ suggestion' = [suggestion EXCEPT ![i] =
       [target |-> clerk[c].todo.x, status |-> "pending",
        made |-> clerk[c].todo.made, reviewed |-> Void]]
  /\ Settles(c)
  /\ UNCHANGED <<dept, seat, post, late, chartHistory>>

(***************************************************************************)
(* Review                                                                  *)
(***************************************************************************)
\* reject_suggestion is its conditional UPDATE.
RejectSuggestion(i) ==
  /\ Pending(i)
  /\ suggestion' = [suggestion EXCEPT ![i].status = "rejected", ![i].reviewed = quarter]
  /\ SettlesAtOnce
  /\ UNCHANGED <<dept, seat, post, late, chartHistory>>

\* approve_suggestion and edit_suggestion up to the write: the row is claimed and
\* its target is found.  The claim locks the row: whoever else wants it waits, and
\* then finds it reviewed.
BeginReview(c, i, status) ==
  /\ Pending(i)
  /\ LET x == suggestion[i].target IN
       \/ x \in Seats /\ LiveSeat(x)
       \/ x \in Depts /\ LiveDept(x)
       \/ x \in Names
  /\ ClerkReady(c, [op |-> "review", i |-> i, status |-> status])

\* Mutant of Claim: the claim does not ask whether the row is pending.
ClaimAnyway(i, status) ==
  suggestion' = [suggestion EXCEPT ![i].status = status, ![i].reviewed = quarter]

\* The claim, as it stands at the commit.
Claim(i, status) ==
  /\ Pending(i)
  /\ suggestion' = [suggestion EXCEPT ![i].status = status, ![i].reviewed = quarter]

\* _apply_reviewed_values: a value on the position or department, or the new
\* department.  If its name is in use the review is rolled back with it.
ApplyReviewedValues(i) ==
  IF suggestion[i].target \in Names
    THEN \E d \in Depts : Created(d, suggestion[i].target)
    ELSE UNCHANGED dept

FinishReview(c) ==
  /\ ClerkDoes(c, "review")
  /\ LET i == clerk[c].todo.i IN
       /\ Claim(i, clerk[c].todo.status)
       /\ ApplyReviewedValues(i)
       /\ effects' = [effects EXCEPT ![i] = @ + 1]
  /\ Settles(c)
  /\ UNCHANGED <<seat, post, late, quarter>>

NextQuarter ==
  /\ quarter < LastQuarter
  /\ quarter' = quarter + 1
  /\ UNCHANGED <<dept, seat, suggestion, post, clerk, chartRaced, late, effects>>

SuggestionsNext ==
  \/ \E c \in Clerks :
       \/ \E x \in Targets : BeginGenerate(c, x)
       \/ CheckEligible(c)
       \/ \E i \in Suggestions :
            \/ CreatePendingSuggestion(c, i)
            \/ BeginReview(c, i, "approved")
            \/ BeginReview(c, i, "edited")
       \/ FinishReview(c)
  \/ \E i \in Suggestions : RejectSuggestion(i)
  \/ NextQuarter

ChartSpec == ChartInit /\ [][ChartNext \/ SuggestionsNext]_chartVars

(***************************************************************************)
(* What the review queue promises                                          *)
(***************************************************************************)
\* A suggestion takes effect exactly when it is approved or edited, once, however
\* approvals, edits and rejections of it race; its effect never stands without its
\* review, nor its review without its effect.
ReviewsTakeEffectOnce ==
  \A i \in Suggestions :
    effects[i] = IF suggestion[i] # Void /\ suggestion[i].status \in {"approved", "edited"}
                   THEN 1 ELSE 0

\* The queue does not repeat itself.  Concurrent generation runs never leave two
\* pending suggestions for one target (idx_ai_suggestions_unique_pending); and unless
\* a rejection or another run comes between a run's check and its insert, the missing
\* departments that wait stay within their limit, and a target that was turned down
\* is not suggested again in the same fiscal quarter.
SuggestionsDoNotRepeat ==
  /\ \A i, j \in Suggestions :
       Pending(i) /\ Pending(j) /\ suggestion[i].target = suggestion[j].target => i = j
  /\ ~chartRaced =>
       /\ Cardinality(PendingMissing) <= MaxPendingMissing
       /\ \A i, j \in Suggestions :
            Pending(i) /\ suggestion[j] # Void /\ suggestion[j].status = "rejected"
              /\ suggestion[j].target = suggestion[i].target
              => suggestion[j].reviewed # suggestion[i].made

=============================================================================
