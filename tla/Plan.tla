--------------------------------- MODULE Plan ---------------------------------
(***************************************************************************)
(* How the answer of the language model becomes the rows of a blueprint    *)
(* batch (build_item_rows).  Nothing in the answer is trusted: a proposal  *)
(* may lack its label, repeat one, or point at something that is not there *)
(* or is there already.  The answer is revealed one proposal at a time, as *)
(* it is read; the rows it ends in are what is saved.                      *)
(*                                                                         *)
(* Percentages are counted in hundredths (the columns have two decimals).  *)
(* Of the texts only their absence matters, which drops a proposal like a  *)
(* missing label does; criticality is left out.                            *)
(***************************************************************************)
EXTENDS Integers, FiniteSets, FiniteSetsExt, Sequences, SequencesExt

CONSTANTS
  Labels,             \* labels the model makes up
  OldDepts, OldSeats, \* departments and positions that are there, by their labels
  PlaceOf,            \* the department of each of these positions
  RoomOf,             \* what is left of the KPI weights of each of these departments
  Proposals,          \* weights and shares that may be proposed
  Shapes,             \* bounds: how many proposals of each kind an answer has
  MaxGroup,           \* MAX_KPIS_PER_DEPARTMENT
  MaxReportingDepth,  \* _MAX_REPORTING_DEPTH
  Absent              \* null, no label

VARIABLES
  shape,      \* the answer's shape, one of Shapes
  stage,      \* which proposals are being read
  read,       \* how many of them have been
  alias,      \* the labels of proposals that are there already, with what they mean
  rows        \* the rows so far

planVars == <<shape, stage, read, alias, rows>>

Hundred == 10000

ASSUME PlanAssumption ==
  /\ Absent \notin Labels \cup OldDepts \cup OldSeats \cup Int
  /\ RoomOf \in [OldDepts -> Int] /\ Proposals \subseteq Nat
  /\ MaxReportingDepth \in Nat \ {0}

PlanInit ==
  /\ shape \in Shapes
  /\ stage = "departments" /\ read = 0
  /\ alias = << >> /\ rows = << >>

Row(kind, ref, in, up, weight) ==
  [kind |-> kind, ref |-> ref, in |-> in, up |-> up, weight |-> weight]

Refs(kind) == {r.ref : r \in {q \in ToSet(rows) : q.kind = kind}} \ {Absent}
UsedRefs   == {r.ref : r \in ToSet(rows)} \ {Absent}
Old(kind)  == IF kind = "department" THEN OldDepts ELSE OldSeats

\* find_department and find_position: what a label means, if anything.
Find(kind, l) ==
  IF l \in Old(kind) THEN l
  ELSE IF <<kind, l>> \in DOMAIN alias THEN alias[<<kind, l>>]
  ELSE IF l \in Refs(kind) THEN l ELSE Absent

IsTaken(kind, l) ==
  l = Absent \/ l \in Old(kind) \cup UsedRefs \/ <<kind, l>> \in DOMAIN alias

\* From here on the label means what is there.
Means(kind, l, same) ==
  alias' = [k \in DOMAIN alias \cup {<<kind, l>>} |-> IF k = <<kind, l>> THEN same ELSE alias[k]]

(***************************************************************************)
(* Arithmetic                                                              *)
(***************************************************************************)
Total(w) == MapThenSumSet(LAMBDA i : w[i], DOMAIN w)

\* normalize_weights, of the weights at some indices, none of them negative: scaled to
\* the budget, halves rounded up, and what the rounding leaves over goes on the first.
NormalizeWeights(raw, budget) ==
  LET used   == IF Total(raw) <= 0 THEN [i \in DOMAIN raw |-> 1] ELSE raw
      total  == Total(used)
      scaled == [i \in DOMAIN raw |-> (2 * used[i] * budget + total) \div (2 * total)]
  IN  [i \in DOMAIN raw |-> IF \A j \in DOMAIN raw : i <= j
                              THEN scaled[i] + (budget - Total(scaled)) ELSE scaled[i]]

\* The rows s with the weights of those at the indices of group brought to budget.
Rescaled(s, group, budget) ==
  LET fair == NormalizeWeights([i \in group |-> s[i].weight], budget)
  IN  [i \in DOMAIN s |-> IF i \in group THEN [s[i] EXCEPT !.weight = fair[i]] ELSE s[i]]

\* _split_capital: only departments with a share take part.
SplitCapital(s) ==
  LET sharing == {i \in DOMAIN s : s[i].weight # Absent} IN
  IF sharing = {} THEN s ELSE Rescaled(s, sharing, Hundred)

(***************************************************************************)
(* Reading                                                                 *)
(***************************************************************************)
Reads(kind) ==
  /\ stage = kind /\ read < shape[kind]
  /\ read' = read + 1
  /\ UNCHANGED <<shape, stage>>

TurnsTo(kind) ==
  /\ stage' = kind /\ read' = 0
  /\ UNCHANGED <<shape, alias>>

\* same is the department of that name that the company has.
ReadDepartment(l, same, share) ==
  /\ Reads("departments")
  /\ IF IsTaken("department", l) THEN UNCHANGED <<alias, rows>>
     ELSE IF same # Absent
       THEN Means("department", l, same) /\ UNCHANGED rows
     ELSE rows' = Append(rows, Row("department", l, Absent, Absent, share)) /\ UNCHANGED alias

EndDepartments ==
  /\ stage = "departments" /\ read = shape[stage]
  /\ rows' = SplitCapital(rows)
  /\ TurnsTo("positions")

\* same is a position of that title; in another department it is another position.
ReadPosition(l, at, same) ==
  /\ Reads("positions")
  /\ LET place == Find("department", at) IN
     IF IsTaken("position", l) \/ place = Absent THEN UNCHANGED <<alias, rows>>
     ELSE IF same # Absent /\ PlaceOf[same] = place
       THEN Means("position", l, same) /\ UNCHANGED rows
     ELSE rows' = Append(rows, Row("position", l, place, Absent, Absent)) /\ UNCHANGED alias

EndPositions ==
  /\ stage = "positions" /\ read = shape[stage]
  /\ TurnsTo("bosses") /\ UNCHANGED rows

\* The second pass: one position after the other gets its boss.
ReadBoss(l) ==
  LET i == Cardinality(Refs("department")) + read + 1
      boss == Find("position", l)
  IN
  /\ stage = "bosses" /\ read < Cardinality(Refs("position"))
  /\ read' = read + 1
  /\ rows' = [rows EXCEPT ![i].up = IF boss = rows[i].ref THEN Absent ELSE boss]
  /\ UNCHANGED <<shape, stage, alias>>

\* The new position that the new position of this label reports to, if any.
NewBoss(t, l) ==
  LET of   == {j \in DOMAIN t : t[j].kind = "position" /\ t[j].ref = l}
      boss == t[CHOOSE j \in of : TRUE].up
  IN  IF of = {} \/ boss \in OldSeats THEN Absent ELSE boss

\* Who is that many positions above the i-th row, if the way up goes on among the new ones.
FarAbove(t, i) ==
  LET up[n \in 0 .. MaxReportingDepth] == IF n = 0 THEN t[i].ref ELSE NewBoss(t, up[n - 1])
  IN  up[MaxReportingDepth]

\* Mutant of CutReportingLoops: only two who report to each other are noticed.
CutShortLoops(s) ==
  [i \in DOMAIN s |->
     IF s[i].kind = "position" /\ \E j \in 1 .. i : s[j].ref = s[i].up /\ s[j].up = s[i].ref
       THEN [s[i] EXCEPT !.up = Absent] ELSE s[i]]

\* _cut_reporting_loops: from each new position in turn, whose way up does not end
\* within the depth, because it comes back or is too long, the link is removed.
CutReportingLoops(s) ==
  LET cut[k \in 0 .. Len(s)] ==
        IF k = 0 THEN s
        ELSE IF s[k].kind = "position" /\ FarAbove(cut[k - 1], k) # Absent
          THEN [cut[k - 1] EXCEPT ![k].up = Absent]
        ELSE cut[k - 1]
  IN  cut[Len(s)]

EndBosses ==
  /\ stage = "bosses" /\ read = Cardinality(Refs("position"))
  /\ rows' = CutReportingLoops(rows)
  /\ TurnsTo("objectives")

\* Of a department, or with no label of one of the whole company.
ReadObjective(l, at) ==
  /\ Reads("objectives")
  /\ LET place == Find("department", at) IN
     rows' = IF l \in UsedRefs \cup {Absent} \/ (at # Absent /\ place = Absent) THEN rows
             ELSE Append(rows, Row("objective", l, place, Absent, Absent))
  /\ UNCHANGED alias

\* A key result of the objective read last; a label that is taken only costs it the
\* label.
ReadKeyResult(l) ==
  /\ Reads("objectives")
  /\ rows # << >> /\ Last(rows).kind \in {"objective", "key result"}
  /\ LET ref  == IF l \in UsedRefs THEN Absent ELSE l
         goal == IF Last(rows).kind = "objective" THEN Last(rows).ref ELSE Last(rows).up
     IN  rows' = Append(rows, Row("key result", ref, Absent, goal, Absent))
  /\ UNCHANGED alias

EndObjectives ==
  /\ stage = "objectives" /\ read = shape[stage]
  /\ TurnsTo("kpis") /\ UNCHANGED rows

Group(s, d) == {i \in DOMAIN s : s[i].kind = "kpi" /\ s[i].in = d}

\* What is left of the weights of a department's KPIs.
Room(d) == IF d \in OldDepts THEN RoomOf[d] ELSE Hundred

\* Those of a department without room are dropped.
ReadKpi(at, measures, weight) ==
  /\ Reads("kpis")
  /\ LET place == Find("department", at)
         up    == IF measures \in Refs("key result") THEN measures ELSE Absent
     IN  rows' = IF \/ place = Absent \/ Room(place) <= 0
                    \/ Cardinality(Group(rows, place)) >= MaxGroup THEN rows
                 ELSE Append(rows, Row("kpi", Absent, place, up, weight))
  /\ UNCHANGED alias

\* Each department's KPIs share the room it has.
EndKpis ==
  /\ stage = "kpis" /\ read = shape[stage]
  /\ rows' = [i \in DOMAIN rows |->
       IF rows[i].kind = "kpi"
         THEN Rescaled(rows, Group(rows, rows[i].in), Room(rows[i].in))[i] ELSE rows[i]]
  /\ TurnsTo("cleanups")

\* A new name, or a remark, for something that is there.
ReadCleanup(l, kind) ==
  /\ Reads("cleanups")
  /\ rows' = IF l \notin OldDepts \cup OldSeats THEN rows
             ELSE Append(rows, Row(kind, Absent, l, Absent, Absent))
  /\ UNCHANGED alias

\* create_items.
SaveRows ==
  /\ stage = "cleanups" /\ read = shape[stage]
  /\ TurnsTo("saved") /\ UNCHANGED rows

PlanNext ==
  LET AnyLabel == Labels \cup OldDepts \cup OldSeats \cup {Absent} IN
  \/ \E l \in AnyLabel :
       \/ \E same \in OldDepts \cup {Absent}, share \in Proposals \cup {Absent} :
            ReadDepartment(l, same, share)
       \/ \E at \in AnyLabel, same \in OldSeats \cup {Absent} : ReadPosition(l, at, same)
       \/ ReadBoss(l)
       \/ \E at \in AnyLabel : ReadObjective(l, at)
       \/ ReadKeyResult(l)
       \/ \E kind \in {"rename", "note"} : ReadCleanup(l, kind)
  \/ \E at \in AnyLabel, measures \in AnyLabel, weight \in Proposals : ReadKpi(at, measures, weight)
  \/ EndDepartments \/ EndPositions \/ EndBosses \/ EndObjectives \/ EndKpis \/ SaveRows

PlanSpec == PlanInit /\ [][PlanNext]_planVars

(***************************************************************************)
(* What a batch promises                                                   *)
(***************************************************************************)
WeightOf(group) == Total([i \in group |-> rows[i].weight])

\* Whatever the model answers, the batch that is saved can be reviewed: labels are
\* unique in it, every label a row points at is one of a row of the right kind (or of
\* something that is there), positions do not report in a circle; and the capital is
\* split, and each department's room for KPIs filled, exactly.  A weight is below nothing
\* only where the first of a split takes what rounding up the others left over: "its
\* share, 0 to 100" (docs/05_API_DESIGN.md) does not hold for 0, 1 and 31.
BatchHangsTogether ==
  stage = "saved" =>
    LET R == ToSet(rows)
        known == OldDepts \cup Refs("department")
        sharing == {i \in DOMAIN rows : rows[i].kind = "department" /\ rows[i].weight # Absent}
    IN
    /\ \A i, j \in DOMAIN rows : rows[i].ref = rows[j].ref /\ rows[i].ref # Absent => i = j
    /\ \A r \in R :
         /\ r.kind \in {"position", "kpi"} => r.in \in known
         /\ r.kind = "objective" => r.in \in known \cup {Absent}
         /\ r.kind = "position" => r.up \in OldSeats \cup Refs("position") \cup {Absent}
         /\ r.kind = "key result" => r.up \in Refs("objective")
         /\ r.kind = "kpi" => r.up \in Refs("key result") \cup {Absent}
    /\ \A circle \in SUBSET {r \in R : r.kind = "position"} :
         circle # {} => \E r \in circle : r.up \notin {q.ref : q \in circle}
    /\ sharing # {} => WeightOf(sharing) = Hundred
    /\ \A i \in DOMAIN rows : rows[i].weight # Absent /\ rows[i].weight < 0 =>
         /\ \A j \in 1 .. i - 1 :
              rows[j].kind = rows[i].kind /\ rows[j].in = rows[i].in => rows[j].weight = Absent
         /\ rows[i].weight > -Len(rows)
    /\ \A r \in R : r.kind = "kpi" => WeightOf(Group(rows, r.in)) = Room(r.in)

===============================================================================
