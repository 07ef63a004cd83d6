------------------------------ MODULE Blueprint ------------------------------
(***************************************************************************)
(* The blueprint: departments, positions, objectives, key results and KPIs *)
(* that the AI proposes as items of a batch, and that become real rows     *)
(* when HR approves them.  An item may point at items of its batch it      *)
(* cannot exist without (a department, an objective) and at one it can (a  *)
(* boss, a key result); approving it approves those that are pending.      *)
(*                                                                         *)
(* A review claims its items, each with a conditional UPDATE that holds    *)
(* the row until the commit, makes the rows and splits the capital anew.   *)
(* Whoever wants a claimed item waits, and is refused if it is reviewed    *)
(* then.  What is read without a claim is read before the commit: the      *)
(* items the capital is split among.                                       *)
(***************************************************************************)
EXTENDS Integers, FiniteSets, Sequences, SequencesExt, Requests

CONSTANTS
  Items,           \* blueprint_items
  BatchOf,         \* the generation run each of them came from
  Needs,           \* its department or objective, if that is an item
  Likes,           \* its boss or key result, if that is an item
  Sharers,         \* departments with a share of the capital
  Clashers,        \* items whose real row may be refused (a name, a weight)
  KindOrder,       \* the items, parents' kinds first: the order of accept_all
  Reviewers,       \* concurrent requests and generation runs
  Unborn           \* no item, an item not generated, an idle reviewer

\* What an item points at is in its batch, and nothing hangs on itself: see
\* BatchHangsTogether of Plan.
ASSUME BlueprintAssumption ==
  /\ IsFiniteSet(Items) /\ Sharers \subseteq Items /\ KindOrder \in Seq(Items)
  /\ Unborn \notin Items \cup {"pending", "rejected", "approved", "edited"}
  /\ \A i \in Items : \A j \in {Needs[i], Likes[i]} \ {Unborn} :
       j \in Items /\ BatchOf[j] = BatchOf[i]
  /\ \A S \in SUBSET Items : S # {} => \E i \in S : Needs[i] \notin S /\ Likes[i] \notin S

VARIABLES
  item,            \* blueprint_items.status
  made,            \* how often a real row was created for the item
  split,           \* whom the capital was split among when its share was last set
  dropped,         \* the departments made and deleted again
  review,          \* what each request is about to write
  blueprintRaced   \* history: a request committed after another one got in between

blueprintVars == <<item, made, split, dropped, review, blueprintRaced>>

Reviewed == {"approved", "edited"}

BlueprintTypeOK ==
  /\ item \in [Items -> {"pending", "rejected", Unborn} \cup Reviewed]
  /\ made \in [Items -> Nat]
  /\ split \in [Sharers -> SUBSET Sharers]
  /\ dropped \subseteq Sharers
  /\ blueprintRaced \in BOOLEAN

BlueprintInit ==
  /\ item = [i \in Items |-> Unborn]
  /\ made = [i \in Items |-> 0]
  /\ split = [i \in Sharers |-> {}]
  /\ dropped = {}
  /\ review = [s \in Reviewers |-> Unborn]
  /\ blueprintRaced = FALSE

PendingItems == {i \in Items : item[i] = "pending"}

(***************************************************************************)
(* What approving an item comes to                                         *)
(***************************************************************************)
\* st is the state of a review under way: the status of every item and the items
\* made so far.  F are the items whose real row is refused this time.

\* An approved item that became no row: there is nothing for others to be put in.
Hollow(st, j) == st.status[j] \in Reviewed /\ made[j] = 0 /\ j \notin st.new

\* _apply of a pending item: "ok"; "orphan" if something it needs is rejected
\* (BlueprintParentRejectedException); "refused" if a service refuses a row, as
\* create_key_result does without an objective.  An orphan among the things it only
\* likes is let pass.
Outcome(st, F) ==
  LET outcome[i \in Items] ==
        LET need == Needs[i]   like == Likes[i]
            Of(j) == IF j = Unborn THEN "ok"
                     ELSE IF st.status[j] = "rejected" THEN "orphan"
                     ELSE IF st.status[j] = "pending" THEN outcome[j] ELSE "ok"
        IN  IF Of(need) # "ok" THEN Of(need)
            ELSE IF Of(like) = "refused" \/ i \in F \/ (need # Unborn /\ Hollow(st, need))
              THEN "refused" ELSE "ok"
  IN  outcome

\* _claim_and_apply: the item and every pending item it reaches are claimed before
\* any of their parents is looked at (review_pending_item).
Claims(st, F) ==
  LET claims[i \in Items] ==
        LET Of(j) == IF j # Unborn /\ st.status[j] = "pending" THEN claims[j] ELSE {}
            need == Needs[i]
            found == need = Unborn \/ st.status[need] \in Reviewed
                       \/ (st.status[need] = "pending" /\ Outcome(st, F)[need] = "ok")
        IN  {i} \cup Of(need) \cup (IF found THEN Of(Likes[i]) ELSE {})
  IN  claims

\* The rows that come of it.
Makes(st, F) ==
  LET makes[i \in Items] ==
        LET Of(j) == IF j # Unborn /\ st.status[j] = "pending" /\ Outcome(st, F)[j] = "ok"
                       THEN makes[j] ELSE {}
        IN  {i} \cup Of(Needs[i]) \cup Of(Likes[i])
  IN  makes

\* One item approved, or edited, with all it brings along; it fails unless it is ok.
Approves(st, i, F, how) ==
  [status |-> [j \in Items |-> IF j = i THEN how
                               ELSE IF j \in Claims(st, F)[i] THEN "approved"
                               ELSE st.status[j]],
   new    |-> st.new \cup Makes(st, F)[i]]

\* accept_all, item by item in the order of their kinds: one that was approved as a
\* parent is passed over, one that fails is rolled back to its savepoint.
AcceptsAll(st, F) ==
  FoldLeft(LAMBDA acc, i :
             IF acc.status[i] = "pending" /\ Outcome(acc, F)[i] = "ok"
               THEN Approves(acc, i, F, "approved") ELSE acc,
           st, KindOrder)

\* Mutant of SharingItems: the list does not ask for the kind of the items.
SharingItemsOfAnyKind(status, b) ==
  {i \in Items : BatchOf[i] = b /\ status[i] \in {"pending"} \cup Reviewed}

\* list_department_share_items: whom the capital of a batch is split among.
SharingItems(status, b) ==
  {i \in Sharers : BatchOf[i] = b /\ status[i] \in {"pending"} \cup Reviewed}

\* _rebalance_capital: every department made of batch b gets its share anew, as far
\* as this request can see; it fails if one of them has been deleted since.
Rebalanced(st, b) ==
  [i \in {j \in Sharers : BatchOf[j] = b /\ (made[j] > 0 \/ j \in st.new)} |->
     SharingItems(st.status, b)]

CanRebalance(st, b) == \A i \in SharingItems(st.status, b) : i \notin dropped

(***************************************************************************)
(* Requests                                                                *)
(***************************************************************************)
\* The request goes from the committed state to st; batches whose capital is split.
ReviewReady(s, st, batches) ==
  /\ review[s] = Unborn
  /\ \A b \in batches : CanRebalance(st, b)
  /\ review' = Checked(review, s,
       [op |-> "review",
        claimed |-> {i \in Items : st.status[i] # item[i]},
        status |-> st.status, new |-> st.new,
        shares |-> [i \in {j \in Sharers : BatchOf[j] \in batches
                             /\ (made[j] > 0 \/ j \in st.new)} |->
                      Rebalanced(st, BatchOf[i])[i]]])
  /\ UNCHANGED <<item, made, split, dropped, blueprintRaced>>

Now == [status |-> item, new |-> {}]

\* approve_item and edit_item.
BeginApprove(s, i, how) ==
  /\ item[i] = "pending"
  /\ Outcome(Now, {})[i] = "ok"
  /\ ReviewReady(s, Approves(Now, i, {}, how), {BatchOf[i]})

\* Mutant of BeginReject: the share of a skipped department is not handed on.
BeginRejectOnly(s, i) ==
  /\ item[i] = "pending"
  /\ ReviewReady(s, [status |-> [item EXCEPT ![i] = "rejected"], new |-> {}], {})

\* reject_item.
BeginReject(s, i) ==
  /\ item[i] = "pending"
  /\ ReviewReady(s, [status |-> [item EXCEPT ![i] = "rejected"], new |-> {}], {BatchOf[i]})

\* accept_all; which rows are refused is not known beforehand.
BeginAcceptAll(s, F) ==
  /\ PendingItems # {}
  /\ ReviewReady(s, AcceptsAll(Now, F), {BatchOf[i] : i \in PendingItems})

\* Mutant of StillPending: the claim does not ask.
NoLongerAsked(claimed) == \A i \in claimed : item[i] # Unborn

\* The claims held until now: each item was still pending when it was claimed.
StillPending(claimed) == \A i \in claimed : item[i] = "pending"

FinishReviewing(s) ==
  /\ review[s] # Unborn /\ review[s].todo.op = "review"
  /\ LET r == review[s].todo IN
       /\ StillPending(r.claimed)
       /\ item' = [i \in Items |-> IF i \in r.claimed THEN r.status[i] ELSE item[i]]
       /\ made' = [i \in Items |-> IF i \in r.new THEN made[i] + 1 ELSE made[i]]
       /\ split' = [i \in Sharers |-> IF i \in DOMAIN r.shares THEN r.shares[i] ELSE split[i]]
  /\ review' = Committed(review, s, Unborn)
  /\ blueprintRaced' = (blueprintRaced \/ Overtaken(review, s, Unborn))
  /\ UNCHANGED dropped

AbandonReview(s) ==
  /\ review[s] # Unborn
  /\ review' = [review EXCEPT ![s] = Unborn]
  /\ UNCHANGED <<item, made, split, dropped, blueprintRaced>>

\* delete_department, of a department that came from the blueprint.
DropDepartment(i) ==
  /\ made[i] > 0 /\ i \notin dropped
  /\ dropped' = dropped \cup {i}
  /\ review' = Committed(review, Unborn, Unborn)
  /\ UNCHANGED <<item, made, split, blueprintRaced>>

(***************************************************************************)
(* Generation                                                              *)
(***************************************************************************)
\* generate_blueprint looks for pending items, then asks the model.  The run after
\* the first save of the Business DNA asks for any items at all, which is stricter.
BeginGeneration(s, b) ==
  /\ review[s] = Unborn
  /\ PendingItems = {}
  /\ \A i \in Items : BatchOf[i] = b => item[i] = Unborn
  /\ review' = Checked(review, s, [op |-> "generate", batch |-> b])
  /\ UNCHANGED <<item, made, split, dropped, blueprintRaced>>

\* create_items: the whole batch, under an id of its own.
FinishGeneration(s) ==
  /\ review[s] # Unborn /\ review[s].todo.op = "generate"
  /\ LET b == review[s].todo.batch IN
       /\ \A i \in Items : BatchOf[i] = b => item[i] = Unborn
       /\ item' = [i \in Items |-> IF BatchOf[i] = b THEN "pending" ELSE item[i]]
  /\ review' = Committed(review, s, Unborn)
  /\ blueprintRaced' = (blueprintRaced \/ Overtaken(review, s, Unborn))
  /\ UNCHANGED <<made, split, dropped>>

BlueprintNext ==
  \/ \E s \in Reviewers :
       \/ \E i \in Items : \/ \E how \in Reviewed : BeginApprove(s, i, how)
                           \/ BeginReject(s, i)
                           \/ BeginGeneration(s, BatchOf[i])
       \/ \E F \in SUBSET Clashers : BeginAcceptAll(s, F)
       \/ FinishReviewing(s) \/ FinishGeneration(s) \/ AbandonReview(s)
  \/ \E i \in Sharers : DropDepartment(i)

BlueprintSpec == BlueprintInit /\ [][BlueprintNext]_blueprintVars

(***************************************************************************)
(* What the blueprint promises                                             *)
(***************************************************************************)
\* However reviews interleave, an item becomes a real row once at most, and only if
\* it was approved or edited.  The other way round, an item that is approved has
\* become real, unless something it needs was rejected: see ApprovedItemsAreReal.
\* And "HR can never create a position with no department": whatever became real has
\* all it needs.
ItemsBecomeRealOnce ==
  LET cutOff[i \in Items] ==
        /\ Needs[i] # Unborn
        /\ item[Needs[i]] = "rejected" \/ (made[Needs[i]] = 0 /\ cutOff[Needs[i]])
  IN  \A i \in Items :
        /\ made[i] <= 1
        /\ made[i] = 1 => item[i] \in Reviewed
        /\ made[i] = 1 /\ Needs[i] # Unborn => made[Needs[i]] = 1
        /\ item[i] \in Reviewed /\ made[i] = 0 => cutOff[i]

\* The capital is split, always anew, among the departments that were not rejected
\* ("a skipped department hands its share of the capital to the others"), unless a
\* rejection and an approval overlapped: neither sees the other's department.
CapitalStaysAllocated ==
  ~blueprintRaced => \A i \in Sharers :
    made[i] > 0 => split[i] = SharingItems(item, BatchOf[i])

\* "A failed apply rolls the review back too" (blueprint/service.py), so that every
\* item that counts as approved has become a real row.
ApprovedItemsAreReal == \A i \in Items : item[i] \in Reviewed => made[i] > 0

=============================================================================
