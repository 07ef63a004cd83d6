---------------------------- MODULE ChartProofs ----------------------------
(***************************************************************************)
(* The chart of an organization, for any number of departments, positions, *)
(* employees, suggestions and concurrent requests: UsedRowsStay,           *)
(* QueueDoesNotRepeat and ChartHasNoLoops.                                 *)
(*                                                                         *)
(* A request checks the chart before it writes, and others commit between  *)
(* the two.  The invariant says what it has found out: its rows stay, and  *)
(* the rest is so until somebody else commits, which the model remembers.  *)
(***************************************************************************)
EXTENDS OrganizationProofs

-----------------------------------------------------------------------------
(***************************************************************************)
(* The invariant                                                           *)
(***************************************************************************)
\* The part of ChartTypeOK that is not the queue's.
ChartRows ==
  /\ dept \in [Depts -> DeptRow \cup {Void}]
  /\ seat \in [Seats -> SeatRow \cup {Void}]
  /\ post \in [Workers -> Seats \cup {Void}]
  /\ chartRaced \in BOOLEAN
  /\ late \subseteq Seats \cup Workers

\* The rows a request is about to change are there.
RowsAreThere(r) ==
  /\ r.op = "delete department" => dept[r.d] # Void
  /\ r.op \in {"move position", "delete position"} => seat[r.p] # Void

\* What a request has found out.
Foreseen(r) ==
  /\ r.op = "delete department" => PositionsIn(r.d) = {} /\ ~HasPendingSuggestion(r.d)
  /\ r.op = "create position" => (r.q # Void => LiveSeat(r.q))
  /\ r.op = "move position" => LiveSeat(r.p) /\ (r.reports /\ r.q # Void => MayReportTo(r.p, r.q))
  /\ r.op = "delete position" => MayDeletePosition(r.p)
  /\ r.op \in {"generate", "insert"} =>
       /\ r.x \in Seats => LiveSeat(r.x)
       /\ r.x \in Depts => LiveDept(r.x)
  /\ r.op = "insert" =>
       /\ r.x \in Names => Cardinality(PendingMissing) < MaxPendingMissing
       /\ \A j \in Suggestions :
            suggestion[j] # Void /\ suggestion[j].target = r.x /\ suggestion[j].status = "rejected"
              => suggestion[j].reviewed # r.made

\* It is so until somebody else commits.
ClerksForesee ==
  \A c \in Clerks : clerk[c] # Void =>
    /\ RowsAreThere(clerk[c].todo)
    /\ ~clerk[c].overtaken => Foreseen(clerk[c].todo)

\* What NothingDangles says of a position, and of an employee.
SeatHangs(s) ==
  LiveSeat(s) =>
    /\ seat[s].boss # Void => LiveSeat(seat[s].boss)
    /\ s \notin late => LiveDept(seat[s].dept)
WorkerHangs(w) == post[w] # Void /\ w \notin late => LiveSeat(post[w])

\* The queue, with what its bound needs.
QueueIsShort == IsFiniteSet(PendingMissing) /\ SuggestionsDoNotRepeat

\* The invariant: the types, what requests know, and the promises themselves.
ChartInvariant ==
  ReviewInvariant /\ ChartRows /\ ClerksForesee /\ NothingDangles /\ QueueIsShort

-----------------------------------------------------------------------------
(***************************************************************************)
(* What requests know                                                      *)
(***************************************************************************)
\* While the tables stay as they are, so does what a request has found out.
LEMMA SameChart ==
  ASSUME UNCHANGED <<dept, seat, suggestion, post>>
  PROVE  \A r : (RowsAreThere(r) => RowsAreThere(r)') /\ (Foreseen(r) => Foreseen(r)')
<1>1. \A r : RowsAreThere(r) => RowsAreThere(r)'
  BY DEF RowsAreThere
<1>2. \A x : /\ LiveDept(x)' = LiveDept(x) /\ LiveSeat(x)' = LiveSeat(x)
             /\ HasPendingSuggestion(x)' = HasPendingSuggestion(x)
  BY DEF LiveDept, LiveSeat, HasPendingSuggestion
<1>3. \A x : PositionsIn(x)' = PositionsIn(x) /\ ReportsTo(x)' = ReportsTo(x) /\ HoldersOf(x)' = HoldersOf(x)
  BY DEF PositionsIn, ReportsTo, HoldersOf, LiveSeat
<1>4. \A p, q : MayReportTo(p, q)' = MayReportTo(p, q)
  BY DEF MayReportTo, Above, LiveSeat
<1>5. PendingMissing' = PendingMissing
  BY DEF PendingMissing, Pending
<1>6. \A p : MayDeletePosition(p)' = MayDeletePosition(p)
  BY <1>2, <1>3 DEF MayDeletePosition
<1>7. ASSUME NEW r, Foreseen(r) PROVE Foreseen(r)'
  BY <1>2, <1>3, <1>4, <1>5, <1>6, <1>7 DEF Foreseen
<1> QED BY <1>1, <1>7

\* While the tables stay as they are, so do the promises about them.
LEMMA PromisesRest ==
  ASSUME ChartRows, NothingDangles, QueueIsShort,
         UNCHANGED <<dept, seat, suggestion, post, chartRaced, late>>
  PROVE  ChartRows' /\ NothingDangles' /\ QueueIsShort'
<1>1. PendingMissing' = PendingMissing
  BY DEF PendingMissing, Pending
<1>2. QueueIsShort'
  BY <1>1 DEF QueueIsShort, SuggestionsDoNotRepeat, Pending
<1> QED BY <1>2 DEF ChartRows, NothingDangles, LiveSeat, LiveDept, HasPendingSuggestion

\* A request that takes something up.
LEMMA ForeseeingReady ==
  ASSUME ChartInvariant, NEW c \in Clerks, NEW r, ClerkReady(c, r), RowsAreThere(r), Foreseen(r)
  PROVE  ClerksForesee' /\ ChartRows' /\ NothingDangles' /\ QueueIsShort'
<1>1. /\ clerk' = [clerk EXCEPT ![c] = [overtaken |-> FALSE, todo |-> r]]
      /\ UNCHANGED <<dept, seat, suggestion, post, chartRaced, late>>
  BY DEF ClerkReady, Checked
<1>2. clerk'[c] = [overtaken |-> FALSE, todo |-> r] /\ \A d \in Clerks \ {c} : clerk'[d] = clerk[d]
  BY <1>1 DEF ChartInvariant, ReviewInvariant, ClerksAreSound
<1>3. ClerksForesee'
  BY <1>1, <1>2, SameChart DEF ChartInvariant, ClerksForesee
<1> QED BY <1>1, <1>3, PromisesRest DEF ChartInvariant

\* A commit overtakes every other request; their rows stay.
LEMMA ForeseeingCommit ==
  ASSUME ClerksAreSound, ClerksForesee, NEW c, clerk' = Committed(clerk, c, Void),
         \A d \in Depts : dept[d] # Void => dept'[d] # Void,
         \A p \in Seats : seat[p] # Void => seat'[p] # Void
  PROVE  ClerksForesee'
<1>1. ASSUME NEW t \in Clerks, clerk'[t] # Void
      PROVE  /\ clerk[t] # Void /\ clerk'[t].overtaken = TRUE
             /\ clerk'[t].todo = clerk[t].todo
             /\ SoundReview(clerk[t].todo) /\ RowsAreThere(clerk[t].todo)
  <2>1. clerk[t] # Void /\ clerk'[t] = [clerk[t] EXCEPT !.overtaken = TRUE]
    BY <1>1 DEF ClerksAreSound, Committed
  <2>2. clerk[t] = [overtaken |-> clerk[t].overtaken, todo |-> clerk[t].todo]
    BY <2>1 DEF ClerksAreSound
  <2>3. clerk'[t] = [overtaken |-> TRUE, todo |-> clerk[t].todo]
    BY <2>1, <2>2
  <2>4. clerk'[t].overtaken = TRUE /\ clerk'[t].todo = clerk[t].todo
    BY <2>3
  <2> QED BY <2>1, <2>4 DEF ClerksAreSound, ClerksForesee
<1>2. ASSUME NEW t \in Clerks, clerk'[t] # Void PROVE RowsAreThere(clerk[t].todo)'
  <2>1. (clerk[t].todo)' = clerk[t].todo /\ SoundReview(clerk[t].todo) /\ RowsAreThere(clerk[t].todo)
    BY <1>1, <1>2
  <2> QED BY <2>1 DEF RowsAreThere, SoundReview
<1> QED BY <1>1, <1>2 DEF ClerksForesee

\* The request that commits: its rows are there, and what it has found out still holds
\* unless it was overtaken, which is remembered.
LEMMA WhatSettles ==
  ASSUME ChartInvariant, NEW c \in Clerks, clerk[c] # Void, Settles(c)
  PROVE  /\ SoundReview(clerk[c].todo) /\ RowsAreThere(clerk[c].todo)
         /\ chartRaced' \in BOOLEAN
         /\ ~chartRaced' => ~chartRaced /\ Foreseen(clerk[c].todo)
<1>1. SoundReview(clerk[c].todo)
  BY DEF ChartInvariant, ReviewInvariant, ClerksAreSound
<1>2. RowsAreThere(clerk[c].todo) /\ (~clerk[c].overtaken => Foreseen(clerk[c].todo))
  BY DEF ChartInvariant, ClerksForesee
<1>3. chartRaced' = (chartRaced \/ (clerk[c] # Void /\ clerk[c].overtaken))
  BY DEF Settles, Overtaken
<1> QED
  BY <1>1, <1>2, <1>3

\* The queue while no suggestion is written.
LEMMA QueueStays ==
  ASSUME QueueIsShort, UNCHANGED suggestion, ~chartRaced' => ~chartRaced
  PROVE  QueueIsShort'
<1>1. PendingMissing' = PendingMissing /\ \A i : Pending(i)' = Pending(i)
  BY DEF PendingMissing, Pending
<1> QED
  BY <1>1 DEF QueueIsShort, SuggestionsDoNotRepeat

\* Begin actions: what they find is what they foresee.
LEMMA ForeseeingBegin ==
  ASSUME ChartInvariant, NEW c \in Clerks,
         \/ \E d \in Depts : BeginDeleteDepartment(c, d)
         \/ \E p \in Seats, d \in Depts, q \in Seats \cup {Void} : BeginCreatePosition(c, p, d, q)
         \/ \E p \in Seats, d \in Depts, q \in Seats \cup {Void} : BeginMovePosition(c, p, d, q)
         \/ \E p \in Seats : BeginDeletePosition(c, p)
         \/ \E x \in Targets : BeginGenerate(c, x)
         \/ \E i \in Suggestions : BeginReview(c, i, "approved") \/ BeginReview(c, i, "edited")
  PROVE  ClerksForesee' /\ ChartRows' /\ NothingDangles' /\ QueueIsShort'
<1>1. \A d \in Depts : BeginDeleteDepartment(c, d) =>
        LET r == [op |-> "delete department", d |-> d] IN
          ClerkReady(c, r) /\ RowsAreThere(r) /\ Foreseen(r)
  BY DEF BeginDeleteDepartment, RowsAreThere, Foreseen, LiveDept
<1>2. ASSUME NEW p \in Seats, NEW d \in Depts, NEW q \in Seats \cup {Void},
             BeginCreatePosition(c, p, d, q)
      PROVE  ClerksForesee' /\ ChartRows' /\ NothingDangles' /\ QueueIsShort'
  <2> DEFINE r == [op |-> "create position", p |-> p, d |-> d, q |-> q]
  <2>1. ClerkReady(c, r) /\ (q # Void => LiveSeat(q))
    BY <1>2 DEF BeginCreatePosition
  <2>2. r.op = "create position" /\ r.q = q
    OBVIOUS
  <2> HIDE DEF r
  <2>3. RowsAreThere(r) /\ Foreseen(r)
    BY <2>1, <2>2 DEF RowsAreThere, Foreseen
  <2> QED
    BY <2>1, <2>3, ForeseeingReady
<1>3. ASSUME NEW p \in Seats, NEW d \in Depts, NEW q \in Seats \cup {Void},
             BeginMovePosition(c, p, d, q)
      PROVE  ClerksForesee' /\ ChartRows' /\ NothingDangles' /\ QueueIsShort'
  <2> DEFINE r == [op |-> "move position", p |-> p, d |-> d, q |-> q,
                   transfers |-> d # seat[p].dept, reports |-> q # seat[p].boss]
  <2>1. /\ ClerkReady(c, r) /\ LiveSeat(p)
        /\ q # seat[p].boss /\ q # Void => MayReportTo(p, q)
    BY <1>3 DEF BeginMovePosition
  <2>2. r.op = "move position" /\ r.p = p /\ r.q = q /\ (r.reports <=> q # seat[p].boss)
    OBVIOUS
  <2> HIDE DEF r
  <2>3. RowsAreThere(r) /\ Foreseen(r)
    BY <2>1, <2>2 DEF RowsAreThere, Foreseen, LiveSeat
  <2> QED
    BY <2>1, <2>3, ForeseeingReady
<1>4. \A p \in Seats : BeginDeletePosition(c, p) =>
        LET r == [op |-> "delete position", p |-> p] IN
          ClerkReady(c, r) /\ RowsAreThere(r) /\ Foreseen(r)
  BY DEF BeginDeletePosition, RowsAreThere, Foreseen, MayDeletePosition, LiveSeat
<1>5. \A x \in Targets : BeginGenerate(c, x) =>
        LET r == [op |-> "generate", x |-> x] IN
          ClerkReady(c, r) /\ RowsAreThere(r) /\ Foreseen(r)
  <2> SUFFICES ASSUME NEW x \in Targets, BeginGenerate(c, x)
               PROVE  /\ ClerkReady(c, [op |-> "generate", x |-> x])
                      /\ x \in Seats => LiveSeat(x)
                      /\ x \in Depts => LiveDept(x)
    BY DEF RowsAreThere, Foreseen
  <2> QED
    BY ChartAssumption DEF BeginGenerate, Picks, CriticalPositionCandidates,
       RevenueAllocationCandidates, MissingDepartmentCandidates
<1>6. \A i \in Suggestions : \A status : BeginReview(c, i, status) =>
        LET r == [op |-> "review", i |-> i, status |-> status] IN
          ClerkReady(c, r) /\ RowsAreThere(r) /\ Foreseen(r)
  BY DEF BeginReview, RowsAreThere, Foreseen
<1>7. \A r : ClerkReady(c, r) /\ RowsAreThere(r) /\ Foreseen(r)
        => ClerksForesee' /\ ChartRows' /\ NothingDangles' /\ QueueIsShort'
  BY ForeseeingReady
<1> QED
  BY <1>1, <1>2, <1>3, <1>4, <1>5, <1>6, <1>7

-----------------------------------------------------------------------------
(***************************************************************************)
(* The steps                                                               *)
(***************************************************************************)
\* delete_department.
LEMMA DepartmentGoes ==
  ASSUME ChartInvariant, NEW c \in Clerks, FinishDeleteDepartment(c)
  PROVE  ClerksForesee' /\ ChartRows' /\ NothingDangles' /\ QueueIsShort'
<1> DEFINE d == clerk[c].todo.d
<1>1. /\ clerk[c] # Void /\ clerk[c].todo.op = "delete department" /\ Settles(c)
      /\ dept' = [dept EXCEPT ![d].live = FALSE] /\ UNCHANGED <<seat, suggestion, post, late>>
  BY DEF FinishDeleteDepartment, ClerkDoes
<1>2. /\ d \in Depts /\ dept[d] # Void /\ chartRaced' \in BOOLEAN
      /\ ~chartRaced' => ~chartRaced /\ PositionsIn(d) = {} /\ ~HasPendingSuggestion(d)
  BY <1>1, WhatSettles DEF SoundReview, RowsAreThere, Foreseen
<1> HIDE DEF d
<1>3. dept[d] \in [name : Names, live : BOOLEAN]
  BY <1>2 DEF ChartInvariant, ChartRows, DeptRow
<1> DEFINE row == [dept[d] EXCEPT !.live = FALSE]
<1>4. row \in DeptRow /\ row # Void
  BY <1>3, ChartAssumption DEF DeptRow
<1>5. dept' = [dept EXCEPT ![d] = row]
  BY <1>1, <1>3 DEF ChartInvariant, ChartRows
<1> HIDE DEF row
<1>6. ChartRows'
  BY <1>1, <1>2, <1>4, <1>5 DEF ChartInvariant, ChartRows
<1>7. /\ dept'[d] # Void
      /\ \A e \in Depts \ {d} : dept'[e] = dept[e]
  BY <1>2, <1>4, <1>5 DEF ChartInvariant, ChartRows
<1>8. NothingDangles'
  <2> SUFFICES ASSUME ~chartRaced' PROVE NothingDangles'
    BY DEF NothingDangles
  <2>1. ~chartRaced /\ PositionsIn(d) = {} /\ ~HasPendingSuggestion(d)
    BY <1>2
  <2>2. \A e \in Depts \ {d} : LiveDept(e) => LiveDept(e)'
    BY <1>7 DEF LiveDept
  <2>3. \A p \in Seats : LiveSeat(p) => seat[p].dept \in Depts \ {d}
    BY <2>1 DEF ChartInvariant, ChartRows, PositionsIn, LiveSeat, SeatRow
  <2>4. \A p : LiveSeat(p)' = LiveSeat(p)
    BY <1>1 DEF LiveSeat
  <2>5. \A x : HasPendingSuggestion(x)' = HasPendingSuggestion(x)
    BY <1>1 DEF HasPendingSuggestion
  <2> QED
    BY <1>1, <2>1, <2>2, <2>3, <2>4, <2>5 DEF ChartInvariant, NothingDangles
<1>9. QueueIsShort'
  BY <1>1, <1>2, QueueStays DEF ChartInvariant
<1>10. ClerksForesee'
  BY <1>1, <1>7, ForeseeingCommit DEF ChartInvariant, ReviewInvariant, Settles
<1> QED
  BY <1>6, <1>8, <1>9, <1>10

\* create_position.
LEMMA PositionComes ==
  ASSUME ChartInvariant, NEW c \in Clerks, FinishCreatePosition(c)
  PROVE  ClerksForesee' /\ ChartRows' /\ NothingDangles' /\ QueueIsShort'
<1> DEFINE p == clerk[c].todo.p
           d == clerk[c].todo.d
           q == clerk[c].todo.q
           row == [dept |-> d, boss |-> q, live |-> TRUE]
<1>1. /\ clerk[c] # Void /\ clerk[c].todo.op = "create position" /\ Settles(c)
      /\ seat[p] = Void /\ seat' = [seat EXCEPT ![p] = row]
      /\ late' = IF LiveDept(d) THEN late ELSE late \cup {p}
      /\ UNCHANGED <<dept, suggestion, post>>
  BY DEF FinishCreatePosition, ClerkDoes
<1>2. /\ p \in Seats /\ d \in Depts /\ q \in Seats \cup {Void} /\ chartRaced' \in BOOLEAN
      /\ ~chartRaced' => ~chartRaced /\ (q # Void => LiveSeat(q))
  BY <1>1, WhatSettles DEF SoundReview, Foreseen
<1> HIDE DEF p, d, q
<1>3. /\ row \in SeatRow /\ row # Void
      /\ row.dept = d /\ row.boss = q /\ row.live
  <2>1. row \in SeatRow
    BY <1>2 DEF SeatRow
  <2> QED BY <2>1, ChartAssumption
<1> HIDE DEF row
<1>4. ChartRows'
  BY <1>1, <1>2, <1>3 DEF ChartInvariant, ChartRows
<1>5. /\ seat'[p] = row
      /\ \A s \in Seats \ {p} : seat'[s] = seat[s]
  BY <1>1, <1>2 DEF ChartInvariant, ChartRows
<1>6. NothingDangles'
  <2> SUFFICES ASSUME ~chartRaced' PROVE NothingDangles'
    BY DEF NothingDangles
  <2>1. ~chartRaced /\ (q # Void => LiveSeat(q))
    BY <1>2
  <2>2. /\ ~LiveSeat(p)
        /\ \A s \in Seats \ {p} : LiveSeat(s)' = LiveSeat(s)
    BY <1>1, <1>5 DEF LiveSeat
  <2>3. \A x : LiveDept(x)' = LiveDept(x) /\ HasPendingSuggestion(x)' = HasPendingSuggestion(x)
    BY <1>1 DEF LiveDept, HasPendingSuggestion
  <2>4. \A s \in Seats : LiveSeat(s) => s # p /\ LiveSeat(s)'
    BY <2>2
  <2>5. \A s \in Seats : SeatHangs(s)'
    <3>1. CASE ~LiveDept(d)
      BY <1>1, <1>2, <1>3, <1>5, <2>1, <2>2, <2>3, <2>4, <3>1
      DEF ChartInvariant, ChartRows, NothingDangles, LiveSeat, SeatRow, SeatHangs
    <3>2. CASE LiveDept(d)
      BY <1>1, <1>2, <1>3, <1>5, <2>1, <2>2, <2>3, <2>4, <3>2
      DEF ChartInvariant, ChartRows, NothingDangles, LiveSeat, SeatRow, SeatHangs
    <3> QED BY <3>1, <3>2
  <2>6. \A w \in Workers : WorkerHangs(w)'
    BY <1>1, <2>1, <2>4 DEF ChartInvariant, ChartRows, NothingDangles, WorkerHangs
  <2>7. \A x \in Seats : HasPendingSuggestion(x)' => LiveSeat(x)'
    BY <2>1, <2>3, <2>4 DEF ChartInvariant, NothingDangles
  <2>8. \A x \in Depts : HasPendingSuggestion(x)' => LiveDept(x)'
    BY <2>1, <2>3 DEF ChartInvariant, NothingDangles
  <2> QED
    BY <2>5, <2>6, <2>7, <2>8 DEF NothingDangles, SeatHangs, WorkerHangs
<1>7. QueueIsShort'
  BY <1>1, <1>2, QueueStays DEF ChartInvariant
<1>8. ClerksForesee'
  BY <1>1, <1>3, <1>5, ForeseeingCommit DEF ChartInvariant, ReviewInvariant, Settles
<1> QED
  BY <1>4, <1>6, <1>7, <1>8

\* update_position.
LEMMA PositionMoves ==
  ASSUME ChartInvariant, NEW c \in Clerks, FinishMovePosition(c)
  PROVE  ClerksForesee' /\ ChartRows' /\ NothingDangles' /\ QueueIsShort'
<1>a. clerk[c] # Void /\ clerk[c].todo.op = "move position" /\ Settles(c)
  BY DEF FinishMovePosition, ClerkDoes
<1>b. /\ clerk[c].todo.p \in Seats /\ clerk[c].todo.d \in Depts /\ clerk[c].todo.q \in Seats \cup {Void}
      /\ clerk[c].todo.transfers \in BOOLEAN /\ clerk[c].todo.reports \in BOOLEAN
  BY <1>a, WhatSettles DEF SoundReview
<1>c. PICK p \in Seats, d \in Depts, q \in Seats \cup {Void}, transfers \in BOOLEAN, reports \in BOOLEAN :
        /\ p = clerk[c].todo.p /\ d = clerk[c].todo.d /\ q = clerk[c].todo.q
        /\ transfers = clerk[c].todo.transfers /\ reports = clerk[c].todo.reports
  BY <1>b
<1> DEFINE place == IF transfers THEN d ELSE seat[p].dept
           boss  == IF reports THEN q ELSE seat[p].boss
           row   == [seat[p] EXCEPT !.dept = place, !.boss = boss]
<1>1. /\ clerk[c] # Void /\ clerk[c].todo.op = "move position" /\ Settles(c)
      /\ seat' = [seat EXCEPT ![p].dept = IF transfers THEN d ELSE @, ![p].boss = IF reports THEN q ELSE @]
      /\ late' = IF ~transfers THEN late ELSE IF LiveDept(d) THEN late \ {p} ELSE late \cup {p}
      /\ UNCHANGED <<dept, suggestion, post>>
  BY <1>c DEF FinishMovePosition, ClerkDoes
<1>2. /\ p \in Seats /\ q \in Seats \cup {Void} /\ chartRaced' \in BOOLEAN /\ seat[p] # Void
      /\ ~chartRaced' => ~chartRaced /\ LiveSeat(p) /\ (reports /\ q # Void => LiveSeat(q))
  BY <1>1, <1>c, WhatSettles DEF SoundReview, RowsAreThere, Foreseen, MayReportTo
<1>3. seat[p] \in [dept : Depts, boss : Seats \cup {Void}, live : BOOLEAN]
  BY <1>2 DEF ChartInvariant, ChartRows, SeatRow
<1>4. /\ row \in SeatRow /\ row # Void
      /\ row.dept = place /\ row.boss = boss /\ row.live = seat[p].live
  BY <1>2, <1>3, ChartAssumption DEF SeatRow
<1>5. seat' = [seat EXCEPT ![p] = row]
  BY <1>1, <1>3 DEF ChartInvariant, ChartRows
<1>d. late' \subseteq Seats \cup Workers /\ \A x : x # p => (x \in late' <=> x \in late)
  BY <1>1 DEF ChartInvariant, ChartRows
<1>e. p \notin late' => LiveDept(place) \/ (~transfers /\ p \notin late)
  BY <1>1
<1>f. \A w \in Workers : w # p
  BY ChartAssumption
<1> HIDE DEF row
<1>6. ChartRows'
  BY <1>1, <1>2, <1>4, <1>5, <1>d DEF ChartInvariant, ChartRows
<1>7. seat'[p] = row /\ \A s \in Seats \ {p} : seat'[s] = seat[s]
  BY <1>2, <1>5 DEF ChartInvariant, ChartRows
<1>8. NothingDangles'
  <2> SUFFICES ASSUME ~chartRaced' PROVE NothingDangles'
    BY DEF NothingDangles
  <2>1. ~chartRaced /\ LiveSeat(p) /\ (reports /\ q # Void => LiveSeat(q))
    BY <1>2
  <2>2. \A s \in Seats : LiveSeat(s)' = LiveSeat(s)
    BY <1>2, <1>4, <1>7 DEF LiveSeat
  <2>3. \A x : LiveDept(x)' = LiveDept(x) /\ HasPendingSuggestion(x)' = HasPendingSuggestion(x)
    BY <1>1 DEF LiveDept, HasPendingSuggestion
  <2>4. \A s \in Seats : SeatHangs(s)'
    <3>1. \A s \in Seats : LiveSeat(s) => seat[s].boss \in Seats \cup {Void} /\ SeatHangs(s)
      BY <2>1 DEF ChartInvariant, ChartRows, NothingDangles, LiveSeat, SeatRow, SeatHangs
    <3>2. ASSUME NEW s \in Seats \ {p} PROVE SeatHangs(s)'
      BY <1>1, <1>7, <1>d, <2>2, <2>3, <3>1 DEF SeatHangs
    <3>3. boss # Void => LiveSeat(boss)
      BY <1>2, <2>1, <3>1 DEF SeatHangs
    <3>4. p \notin late' => LiveDept(place)
      BY <1>e, <1>2, <2>1, <3>1 DEF SeatHangs
    <3>5. boss \in Seats \cup {Void}
      BY <1>2, <1>3
    <3> HIDE DEF boss, place
    <3>6. SeatHangs(p)'
      BY <1>2, <1>4, <1>7, <2>2, <2>3, <3>3, <3>4, <3>5 DEF SeatHangs
    <3> QED
      BY <3>2, <3>6
  <2> QED
    BY <1>1, <1>d, <1>f, <2>1, <2>2, <2>3, <2>4 DEF ChartInvariant, ChartRows, NothingDangles, SeatHangs
<1>9. QueueIsShort'
  BY <1>1, <1>2, QueueStays DEF ChartInvariant
<1>10. ClerksForesee'
  BY <1>1, <1>4, <1>7, ForeseeingCommit DEF ChartInvariant, ReviewInvariant, Settles
<1> QED
  BY <1>6, <1>8, <1>9, <1>10

\* delete_position.
LEMMA PositionGoes ==
  ASSUME ChartInvariant, NEW c \in Clerks, FinishDeletePosition(c)
  PROVE  ClerksForesee' /\ ChartRows' /\ NothingDangles' /\ QueueIsShort'
<1>a. clerk[c] # Void /\ clerk[c].todo.op = "delete position" /\ Settles(c)
  BY DEF FinishDeletePosition, ClerkDoes
<1>b. clerk[c].todo.p \in Seats
  BY <1>a, WhatSettles DEF SoundReview
<1>c. PICK p \in Seats : p = clerk[c].todo.p
  BY <1>b
<1> DEFINE row == [seat[p] EXCEPT !.live = FALSE]
<1>1. /\ clerk[c] # Void /\ clerk[c].todo.op = "delete position" /\ Settles(c)
      /\ seat' = [seat EXCEPT ![p].live = FALSE]
      /\ UNCHANGED <<dept, suggestion, post, late>>
  BY <1>c DEF FinishDeletePosition, ClerkDoes
<1>2. /\ p \in Seats /\ chartRaced' \in BOOLEAN /\ seat[p] # Void
      /\ ~chartRaced' => ~chartRaced /\ MayDeletePosition(p)
  BY <1>1, <1>c, WhatSettles DEF SoundReview, RowsAreThere, Foreseen
<1>3. seat[p] \in [dept : Depts, boss : Seats \cup {Void}, live : BOOLEAN]
  BY <1>2 DEF ChartInvariant, ChartRows, SeatRow
<1>4. /\ row \in SeatRow /\ row # Void
      /\ row.dept = seat[p].dept /\ row.boss = seat[p].boss /\ ~row.live
  BY <1>2, <1>3, ChartAssumption DEF SeatRow
<1>5. seat' = [seat EXCEPT ![p] = row]
  BY <1>1, <1>3 DEF ChartInvariant, ChartRows
<1> HIDE DEF row
<1>6. ChartRows'
  BY <1>1, <1>2, <1>4, <1>5 DEF ChartInvariant, ChartRows
<1>7. seat'[p] = row /\ \A s \in Seats \ {p} : seat'[s] = seat[s]
  BY <1>2, <1>5 DEF ChartInvariant, ChartRows
<1>8. NothingDangles'
  <2> SUFFICES ASSUME ~chartRaced' PROVE NothingDangles'
    BY DEF NothingDangles
  <2>1. ~chartRaced /\ HoldersOf(p) = {} /\ ReportsTo(p) = {} /\ ~HasPendingSuggestion(p)
    BY <1>2 DEF MayDeletePosition
  <2>2. /\ ~LiveSeat(p)'
        /\ \A s \in Seats \ {p} : LiveSeat(s)' <=> LiveSeat(s)
    <3>1. ~LiveSeat(p)'
      BY <1>4, <1>7 DEF LiveSeat
    <3> QED
      BY <3>1, <1>7 DEF LiveSeat
  <2>3. \A x : LiveDept(x)' = LiveDept(x) /\ HasPendingSuggestion(x)' = HasPendingSuggestion(x)
    BY <1>1 DEF LiveDept, HasPendingSuggestion
  <2>4. /\ \A s \in Seats : LiveSeat(s) => seat[s].boss # p
        /\ \A w \in Workers : post[w] # p
    BY <2>1 DEF ReportsTo, HoldersOf
  <2>5. \A s \in Seats : SeatHangs(s)'
    <3>1. \A s \in Seats : LiveSeat(s) => seat[s].boss \in Seats \cup {Void} /\ SeatHangs(s)
      BY <2>1 DEF ChartInvariant, ChartRows, NothingDangles, LiveSeat, SeatRow, SeatHangs
    <3> QED
      BY <1>1, <1>7, <2>2, <2>3, <2>4, <3>1 DEF SeatHangs
  <2> QED
    BY <1>1, <2>1, <2>2, <2>3, <2>4, <2>5 DEF ChartInvariant, ChartRows, NothingDangles, SeatHangs
<1>9. QueueIsShort'
  BY <1>1, <1>2, QueueStays DEF ChartInvariant
<1>10. ClerksForesee'
  BY <1>1, <1>4, <1>7, ForeseeingCommit DEF ChartInvariant, ReviewInvariant, Settles
<1> QED
  BY <1>6, <1>8, <1>9, <1>10

\* Departments that come, or change their name, leave all that is said of the chart.
LEMMA DepartmentsOnly ==
  ASSUME ChartRows, NothingDangles, NEW d \in Depts, NEW row \in DeptRow, row.live,
         dept[d] # Void => dept[d].live,
         dept' = [dept EXCEPT ![d] = row], UNCHANGED <<seat, post, late>>,
         chartRaced' \in BOOLEAN, ~chartRaced' => ~chartRaced,
         \A x : HasPendingSuggestion(x)' => HasPendingSuggestion(x)
  PROVE  /\ ChartRows' /\ NothingDangles'
         /\ \A e \in Depts : dept[e] # Void => dept'[e] # Void
<1>1. row # Void /\ dept'[d] = row /\ \A e \in Depts \ {d} : dept'[e] = dept[e]
  BY ChartAssumption DEF ChartRows
<1>2. ChartRows'
  BY DEF ChartRows
<1>3. \A e \in Depts : LiveDept(e) => LiveDept(e)'
  BY <1>1 DEF LiveDept
<1>4. \A s : LiveSeat(s)' <=> LiveSeat(s)
  BY DEF LiveSeat
<1>5. \A s \in Seats : LiveSeat(s) => seat[s].dept \in Depts
  BY DEF ChartRows, LiveSeat, SeatRow
<1>6. NothingDangles'
  BY <1>3, <1>4, <1>5 DEF NothingDangles
<1> QED
  BY <1>1, <1>2, <1>6

\* create_department, as a request of its own or in a review.
LEMMA DepartmentComes ==
  ASSUME ChartInvariant, NEW d \in Depts, NEW n \in Names, Created(d, n),
         UNCHANGED <<seat, post, late>>, chartRaced' \in BOOLEAN, ~chartRaced' => ~chartRaced,
         \A x : HasPendingSuggestion(x)' => HasPendingSuggestion(x)
  PROVE  /\ ChartRows' /\ NothingDangles'
         /\ \A e \in Depts : dept[e] # Void => dept'[e] # Void
<1> DEFINE row == [name |-> n, live |-> TRUE]
<1>1. dept[d] = Void /\ dept' = [dept EXCEPT ![d] = row]
  BY DEF Created
<1>2. row \in DeptRow /\ row.live
  BY DEF DeptRow
<1> HIDE DEF row
<1> QED
  BY <1>1, <1>2, DepartmentsOnly DEF ChartInvariant

\* A request of one statement, that of a department's name or an employee's position.
LEMMA AtOnce ==
  ASSUME ChartInvariant, SettlesAtOnce, UNCHANGED suggestion,
         \A d \in Depts : dept[d] # Void => dept'[d] # Void,
         \A p \in Seats : seat[p] # Void => seat'[p] # Void
  PROVE  /\ ClerksForesee' /\ QueueIsShort'
         /\ chartRaced' = chartRaced
         /\ \A x : HasPendingSuggestion(x)' => HasPendingSuggestion(x)
<1>1. clerk' = Committed(clerk, Void, Void) /\ chartRaced' = chartRaced
  BY DEF SettlesAtOnce
<1>2. QueueIsShort'
  BY <1>1, QueueStays DEF ChartInvariant
<1>3. ClerksForesee'
  BY <1>1, ForeseeingCommit DEF ChartInvariant, ReviewInvariant
<1> QED
  BY <1>1, <1>2, <1>3 DEF HasPendingSuggestion

\* create_department.
LEMMA CreateDepartmentKeeps ==
  ASSUME ChartInvariant, NEW d \in Depts, NEW n \in Names, CreateDepartment(d, n)
  PROVE  ClerksForesee' /\ ChartRows' /\ NothingDangles' /\ QueueIsShort'
<1>1. Created(d, n) /\ SettlesAtOnce /\ UNCHANGED <<seat, suggestion, post, late>>
  BY DEF CreateDepartment
<1>2. /\ chartRaced' = chartRaced /\ chartRaced \in BOOLEAN
      /\ \A x : HasPendingSuggestion(x)' => HasPendingSuggestion(x)
  BY <1>1 DEF SettlesAtOnce, HasPendingSuggestion, ChartInvariant, ChartRows
<1>3. ChartRows' /\ NothingDangles' /\ \A e \in Depts : dept[e] # Void => dept'[e] # Void
  BY <1>1, <1>2, DepartmentComes
<1> QED
  BY <1>1, <1>3, AtOnce

\* update_department.
LEMMA RenameDepartmentKeeps ==
  ASSUME ChartInvariant, NEW d \in Depts, NEW n \in Names, RenameDepartment(d, n)
  PROVE  ClerksForesee' /\ ChartRows' /\ NothingDangles' /\ QueueIsShort'
<1> DEFINE row == [dept[d] EXCEPT !.name = n]
<1>1. /\ LiveDept(d) /\ dept' = [dept EXCEPT ![d].name = n] /\ SettlesAtOnce
      /\ UNCHANGED <<seat, suggestion, post, late>>
  BY DEF RenameDepartment
<1>2. /\ chartRaced' = chartRaced /\ chartRaced \in BOOLEAN
      /\ \A x : HasPendingSuggestion(x)' => HasPendingSuggestion(x)
  BY <1>1 DEF SettlesAtOnce, HasPendingSuggestion, ChartInvariant, ChartRows
<1>3. dept[d] \in [name : Names, live : BOOLEAN] /\ dept[d].live
  BY <1>1 DEF ChartInvariant, ChartRows, DeptRow, LiveDept
<1>4. row \in DeptRow /\ row.live
  BY <1>3 DEF DeptRow
<1>5. dept' = [dept EXCEPT ![d] = row]
  BY <1>1, <1>3 DEF ChartInvariant, ChartRows
<1> HIDE DEF row
<1>6. ChartRows' /\ NothingDangles' /\ \A e \in Depts : dept[e] # Void => dept'[e] # Void
  BY <1>1, <1>2, <1>3, <1>4, <1>5, DepartmentsOnly DEF ChartInvariant
<1> QED
  BY <1>1, <1>6, AtOnce

\* update_employee with a position: it may be one that was deleted, which is on record.
LEMMA AssignWorkerKeeps ==
  ASSUME ChartInvariant, NEW w \in Workers, NEW p \in Seats, AssignWorker(w, p)
  PROVE  ClerksForesee' /\ ChartRows' /\ NothingDangles' /\ QueueIsShort'
<1>1. /\ post' = [post EXCEPT ![w] = p] /\ SettlesAtOnce
      /\ late' = IF LiveSeat(p) THEN late \ {w} ELSE late \cup {w}
      /\ UNCHANGED <<dept, seat, suggestion>>
  BY DEF AssignWorker
<1>2. chartRaced' = chartRaced
  BY <1>1 DEF SettlesAtOnce
<1>3. ChartRows'
  BY <1>1, <1>2 DEF ChartInvariant, ChartRows
<1>4. /\ \A x : LiveSeat(x)' = LiveSeat(x) /\ LiveDept(x)' = LiveDept(x)
      /\ \A x : HasPendingSuggestion(x)' = HasPendingSuggestion(x)
  BY <1>1 DEF LiveSeat, LiveDept, HasPendingSuggestion
<1>5. /\ \A s \in Seats : s \notin late' => s \notin late
      /\ \A v \in Workers \ {w} : post'[v] = post[v] /\ (v \notin late' => v \notin late)
      /\ post'[w] = p /\ (w \notin late' => LiveSeat(p))
  <2>1. w \notin Seats
    BY ChartAssumption
  <2>2. CASE LiveSeat(p)
    BY <1>1, <2>1, <2>2 DEF ChartInvariant, ChartRows
  <2>3. CASE ~LiveSeat(p)
    BY <1>1, <2>1, <2>3 DEF ChartInvariant, ChartRows
  <2> QED
    BY <2>2, <2>3
<1>6. NothingDangles'
  <2> SUFFICES ASSUME ~chartRaced' PROVE NothingDangles'
    BY DEF NothingDangles
  <2>1. ~chartRaced
    BY <1>2
  <2>2. \A v \in Workers : WorkerHangs(v)'
    BY <1>4, <1>5, <2>1 DEF ChartInvariant, NothingDangles, WorkerHangs
  <2>3. \A s \in Seats : SeatHangs(s)'
    BY <1>1, <1>4, <1>5, <2>1 DEF ChartInvariant, NothingDangles, SeatHangs
  <2> QED
    BY <1>4, <2>1, <2>2, <2>3 DEF ChartInvariant, NothingDangles, WorkerHangs, SeatHangs
<1> QED
  BY <1>1, <1>3, <1>6, AtOnce

\* A suggestion is written: the chart stays, and all that it needs is that what waits
\* for a review is about what is there.
LEMMA SuggestionsOnly ==
  ASSUME ChartInvariant, UNCHANGED <<dept, seat, post, late>>, chartRaced' \in BOOLEAN,
         ~chartRaced' =>
           /\ ~chartRaced
           /\ \A x \in Depts : HasPendingSuggestion(x)' => LiveDept(x)
           /\ \A x \in Seats : HasPendingSuggestion(x)' => LiveSeat(x)
  PROVE  ChartRows' /\ NothingDangles'
<1>1. ChartRows'
  BY DEF ChartInvariant, ChartRows
<1>2. \A x : (LiveSeat(x)' <=> LiveSeat(x)) /\ (LiveDept(x)' <=> LiveDept(x))
  BY DEF LiveSeat, LiveDept
<1>3. NothingDangles'
  BY <1>2 DEF ChartInvariant, NothingDangles
<1> QED
  BY <1>1, <1>3

\* A pending suggestion is reviewed: the queue gets no longer, and repeats nothing if
\* what is turned down waited for nobody else.
LEMMA QueueShortens ==
  ASSUME ChartInvariant, NEW i \in Suggestions, Pending(i),
         NEW status \in {"approved", "edited", "rejected"},
         suggestion' = [suggestion EXCEPT ![i].status = status, ![i].reviewed = quarter],
         ~chartRaced' => ~chartRaced
  PROVE  /\ QueueIsShort'
         /\ \A x : HasPendingSuggestion(x)' => HasPendingSuggestion(x)
<1>1. /\ suggestion'[i] # Void /\ suggestion'[i].status = status
      /\ \A j \in Suggestions \ {i} : suggestion'[j] = suggestion[j]
  BY ReviewedRow DEF ChartInvariant, ReviewInvariant
<1>2. suggestion'[i].target = suggestion[i].target
  BY DEF ChartInvariant, ReviewInvariant, QueueTypeOK, Pending, SuggestionRow
<1>3. \A j \in Suggestions : Pending(j)' => j # i /\ Pending(j)
  BY <1>1 DEF Pending
<1>4. \A x : HasPendingSuggestion(x)' => HasPendingSuggestion(x)
  BY <1>1 DEF HasPendingSuggestion
<1>5. PendingMissing' \subseteq PendingMissing
  BY <1>1, <1>3 DEF PendingMissing
<1>6. IsFiniteSet(PendingMissing') /\ Cardinality(PendingMissing') <= Cardinality(PendingMissing)
      /\ Cardinality(PendingMissing) \in Nat /\ Cardinality(PendingMissing') \in Nat
  BY <1>5, FS_Subset, FS_CardinalityType DEF ChartInvariant, QueueIsShort
<1>7. \A a, b \in Suggestions : Pending(a)' /\ Pending(b)' /\ suggestion'[a].target = suggestion'[b].target
        => a = b
  BY <1>1, <1>3 DEF ChartInvariant, QueueIsShort, SuggestionsDoNotRepeat
<1>8. ASSUME ~chartRaced, NEW a \in Suggestions, NEW b \in Suggestions,
             Pending(a)', suggestion'[b] # Void, suggestion'[b].status = "rejected",
             suggestion'[b].target = suggestion'[a].target
      PROVE  suggestion'[b].reviewed # suggestion'[a].made
  <2>1. a # i /\ Pending(a) /\ suggestion'[a] = suggestion[a]
    BY <1>1, <1>3, <1>8
  <2>2. b # i
    BY <1>2, <1>8, <2>1 DEF ChartInvariant, QueueIsShort, SuggestionsDoNotRepeat
  <2> QED
    BY <1>1, <1>8, <2>1, <2>2 DEF ChartInvariant, QueueIsShort, SuggestionsDoNotRepeat
<1>9. ~chartRaced => Cardinality(PendingMissing') <= MaxPendingMissing
  BY <1>6, SuggestionsAssumption DEF ChartInvariant, QueueIsShort, SuggestionsDoNotRepeat
<1> QED
  BY <1>4, <1>6, <1>7, <1>8, <1>9 DEF QueueIsShort, SuggestionsDoNotRepeat

\* review_suggestion, rejected.
LEMMA RejectSuggestionKeeps ==
  ASSUME ChartInvariant, NEW i \in Suggestions, RejectSuggestion(i)
  PROVE  ClerksForesee' /\ ChartRows' /\ NothingDangles' /\ QueueIsShort'
<1>1. /\ Pending(i) /\ SettlesAtOnce /\ UNCHANGED <<dept, seat, post, late>>
      /\ suggestion' = [suggestion EXCEPT ![i].status = "rejected", ![i].reviewed = quarter]
  BY DEF RejectSuggestion
<1>2. clerk' = Committed(clerk, Void, Void) /\ chartRaced' = chartRaced /\ chartRaced \in BOOLEAN
  BY <1>1 DEF SettlesAtOnce, ChartInvariant, ChartRows
<1>3. QueueIsShort' /\ \A x : HasPendingSuggestion(x)' => HasPendingSuggestion(x)
  BY <1>1, <1>2, QueueShortens
<1>4. ChartRows' /\ NothingDangles'
  BY <1>1, <1>2, <1>3, SuggestionsOnly DEF ChartInvariant, NothingDangles
<1>5. ClerksForesee'
  BY <1>1, <1>2, ForeseeingCommit DEF ChartInvariant, ReviewInvariant
<1> QED
  BY <1>3, <1>4, <1>5

\* review_suggestion, approved: a missing department is created.
LEMMA FinishReviewKeeps ==
  ASSUME ChartInvariant, NEW c \in Clerks, FinishReview(c)
  PROVE  ClerksForesee' /\ ChartRows' /\ NothingDangles' /\ QueueIsShort'
<1>1. clerk[c] # Void /\ clerk[c].todo.op = "review" /\ Settles(c)
  BY DEF FinishReview, ClerkDoes
<1>2. clerk[c].todo.i \in Suggestions /\ clerk[c].todo.status \in {"approved", "edited"}
  BY <1>1, WhatSettles DEF SoundReview
<1>3. PICK i \in Suggestions, status \in {"approved", "edited"} :
        i = clerk[c].todo.i /\ status = clerk[c].todo.status
  BY <1>2
<1>4. /\ Pending(i) /\ ApplyReviewedValues(i) /\ UNCHANGED <<seat, post, late>>
      /\ suggestion' = [suggestion EXCEPT ![i].status = status, ![i].reviewed = quarter]
  BY <1>3 DEF FinishReview, Claim
<1>5. chartRaced' \in BOOLEAN /\ (~chartRaced' => ~chartRaced)
  BY <1>1, WhatSettles
<1>6. QueueIsShort' /\ \A x : HasPendingSuggestion(x)' => HasPendingSuggestion(x)
  BY <1>4, <1>5, QueueShortens
<1>7. ChartRows' /\ NothingDangles' /\ \A e \in Depts : dept[e] # Void => dept'[e] # Void
  <2>1. CASE suggestion[i].target \in Names
    <3>1. PICK d \in Depts : Created(d, suggestion[i].target)
      BY <1>4, <2>1 DEF ApplyReviewedValues
    <3>2. PICK n \in Names : n = suggestion[i].target
      BY <2>1
    <3> QED
      BY <1>4, <1>5, <1>6, <3>1, <3>2, DepartmentComes
  <2>2. CASE suggestion[i].target \notin Names
    <3>1. UNCHANGED dept
      BY <1>4, <2>2 DEF ApplyReviewedValues
    <3> QED
      BY <1>4, <1>5, <1>6, <3>1, SuggestionsOnly DEF ChartInvariant, NothingDangles
  <2> QED
    BY <2>1, <2>2
<1>8. ClerksForesee'
  BY <1>1, <1>4, <1>7, ForeseeingCommit DEF ChartInvariant, ReviewInvariant, Settles
<1> QED
  BY <1>6, <1>7, <1>8

\* The INSERT of create_suggestion_if_eligible: one pending suggestion a target, fewer than
\* the cap, and none about what was rejected this quarter.
LEMMA CreatePendingKeeps ==
  ASSUME ChartInvariant, NEW c \in Clerks, NEW i \in Suggestions, CreatePendingSuggestion(c, i)
  PROVE  ClerksForesee' /\ ChartRows' /\ NothingDangles' /\ QueueIsShort'
<1>1. clerk[c] # Void /\ clerk[c].todo.op = "insert" /\ Settles(c)
  BY DEF CreatePendingSuggestion, ClerkDoes
<1>2. clerk[c].todo.x \in Targets /\ clerk[c].todo.made \in Nat
  BY <1>1, WhatSettles DEF SoundReview
<1>3. PICK x \in Targets, m \in Nat : x = clerk[c].todo.x /\ m = clerk[c].todo.made
  BY <1>2
<1> DEFINE row == [target |-> x, status |-> "pending", made |-> m, reviewed |-> Void]
<1>4. /\ suggestion[i] = Void /\ ~HasPendingSuggestion(x)
      /\ suggestion' = [suggestion EXCEPT ![i] = row]
      /\ UNCHANGED <<dept, seat, post, late>>
  BY <1>3 DEF CreatePendingSuggestion
<1>5. /\ chartRaced' \in BOOLEAN
      /\ ~chartRaced' =>
           /\ ~chartRaced
           /\ x \in Seats => LiveSeat(x)
           /\ x \in Depts => LiveDept(x)
           /\ x \in Names => Cardinality(PendingMissing) < MaxPendingMissing
           /\ \A j \in Suggestions :
                suggestion[j] # Void /\ suggestion[j].target = x /\ suggestion[j].status = "rejected"
                  => suggestion[j].reviewed # m
  BY <1>1, <1>3, WhatSettles DEF Foreseen
<1>6. row \in SuggestionRow
  BY DEF SuggestionRow
<1>7. row # Void /\ row.target = x /\ row.status = "pending" /\ row.made = m
  BY <1>6, ChartAssumption
<1> HIDE DEF row
<1>8. suggestion'[i] = row /\ \A j \in Suggestions \ {i} : suggestion'[j] = suggestion[j]
  BY <1>4 DEF ChartInvariant, ReviewInvariant, QueueTypeOK
<1>9. /\ Pending(i)' /\ ~Pending(i)
      /\ \A j \in Suggestions \ {i} : Pending(j)' <=> Pending(j)
  BY <1>4, <1>7, <1>8 DEF Pending
<1>10. ChartRows' /\ NothingDangles'
  <2>1. \A y : HasPendingSuggestion(y)' => HasPendingSuggestion(y) \/ y = x
    BY <1>7, <1>8 DEF HasPendingSuggestion
  <2> QED
    BY <1>4, <1>5, <2>1, SuggestionsOnly DEF ChartInvariant, NothingDangles
<1>11. \A j \in Suggestions : Pending(j) => suggestion[j].target # x
  BY <1>4 DEF Pending, HasPendingSuggestion
<1>12. PendingMissing' = IF x \in Names THEN PendingMissing \cup {i} ELSE PendingMissing
  <2>1. i \in PendingMissing' <=> x \in Names
    BY <1>7, <1>8, <1>9 DEF PendingMissing
  <2>2. i \notin PendingMissing
    BY <1>9 DEF PendingMissing
  <2>3. \A j \in Suggestions \ {i} : j \in PendingMissing' <=> j \in PendingMissing
    BY <1>8, <1>9 DEF PendingMissing
  <2>4. PendingMissing \subseteq Suggestions /\ PendingMissing' \subseteq Suggestions
    BY DEF PendingMissing
  <2> QED
    BY <2>1, <2>2, <2>3, <2>4
<1>13. /\ IsFiniteSet(PendingMissing')
       /\ ~chartRaced' => Cardinality(PendingMissing') <= MaxPendingMissing
  <2>1. IsFiniteSet(PendingMissing) /\ (~chartRaced => Cardinality(PendingMissing) <= MaxPendingMissing)
    BY DEF ChartInvariant, QueueIsShort, SuggestionsDoNotRepeat
  <2>2. i \notin PendingMissing
    BY <1>9 DEF PendingMissing
  <2>3. CASE x \in Names
    <3>1. PendingMissing' = PendingMissing \cup {i}
      BY <1>12, <2>3
    <3>2. /\ IsFiniteSet(PendingMissing \cup {i})
          /\ Cardinality(PendingMissing \cup {i}) = Cardinality(PendingMissing) + 1
      BY <2>1, <2>2, FS_AddElement
    <3>3. Cardinality(PendingMissing) \in Nat
      BY <2>1, FS_CardinalityType
    <3> QED
      BY <1>5, <2>3, <3>1, <3>2, <3>3, SuggestionsAssumption
  <2>4. CASE x \notin Names
    BY <1>5, <1>12, <2>1, <2>4
  <2> QED
    BY <2>3, <2>4
<1>14. \A a, b \in Suggestions : Pending(a)' /\ Pending(b)' /\ suggestion'[a].target = suggestion'[b].target
        => a = b
  BY <1>7, <1>8, <1>9, <1>11 DEF ChartInvariant, QueueIsShort, SuggestionsDoNotRepeat
<1>15. ASSUME ~chartRaced', NEW a \in Suggestions, NEW b \in Suggestions,
              Pending(a)', suggestion'[b] # Void, suggestion'[b].status = "rejected",
              suggestion'[b].target = suggestion'[a].target
       PROVE  suggestion'[b].reviewed # suggestion'[a].made
  <2>1. b # i /\ suggestion'[b] = suggestion[b]
    BY <1>7, <1>8, <1>15
  <2>2. CASE a = i
    BY <1>5, <1>7, <1>8, <1>15, <2>1, <2>2
  <2>3. CASE a # i
    BY <1>5, <1>8, <1>9, <1>15, <2>1, <2>3 DEF ChartInvariant, QueueIsShort, SuggestionsDoNotRepeat
  <2> QED
    BY <2>2, <2>3
<1>16. QueueIsShort'
  BY <1>13, <1>14, <1>15 DEF QueueIsShort, SuggestionsDoNotRepeat
<1>17. ClerksForesee'
  BY <1>1, <1>4, ForeseeingCommit DEF ChartInvariant, ReviewInvariant, Settles
<1> QED
  BY <1>10, <1>16, <1>17

\* create_suggestion_if_eligible up to its INSERT.
LEMMA CheckEligibleKeeps ==
  ASSUME ChartInvariant, NEW c \in Clerks, CheckEligible(c)
  PROVE  ClerksForesee' /\ ChartRows' /\ NothingDangles' /\ QueueIsShort'
<1> DEFINE r == [op |-> "insert", x |-> clerk[c].todo.x, made |-> quarter]
<1>1. /\ clerk[c] # Void /\ clerk[c].todo.op = "generate" /\ Eligible(clerk[c].todo.x)
      /\ clerk' = [clerk EXCEPT ![c].todo = r]
      /\ UNCHANGED <<dept, seat, suggestion, post, chartRaced, late>>
  BY DEF CheckEligible, ClerkDoes
<1>2. /\ clerk'[c] = [overtaken |-> clerk[c].overtaken, todo |-> r]
      /\ \A d \in Clerks \ {c} : clerk'[d] = clerk[d]
  BY <1>1 DEF ChartInvariant, ReviewInvariant, ClerksAreSound
<1>3. r.op = "insert" /\ r.x = clerk[c].todo.x /\ r.made = quarter
  OBVIOUS
<1> HIDE DEF r
<1>4. RowsAreThere(r)
  BY <1>3 DEF RowsAreThere
<1>5. ~clerk[c].overtaken => Foreseen(r)
  <2>1. SUFFICES ASSUME ~clerk[c].overtaken PROVE Foreseen(r)
    OBVIOUS
  <2>2. Foreseen(clerk[c].todo)
    BY <1>1, <2>1 DEF ChartInvariant, ClerksForesee
  <2>3. (r.x \in Seats => LiveSeat(r.x)) /\ (r.x \in Depts => LiveDept(r.x))
    BY <1>1, <1>3, <2>2 DEF Foreseen
  <2>4. r.x \in Names => Cardinality(PendingMissing) < MaxPendingMissing
    BY <1>1, <1>3 DEF Eligible
  <2>5. \A j \in Suggestions :
          suggestion[j] # Void /\ suggestion[j].target = r.x /\ suggestion[j].status = "rejected"
            => suggestion[j].reviewed # r.made
    BY <1>1, <1>3 DEF Eligible, HasRecentRejection
  <2> QED
    BY <1>3, <2>3, <2>4, <2>5 DEF Foreseen
<1>6. ClerksForesee'
  <2>1. ASSUME NEW d \in Clerks, clerk'[d] # Void
        PROVE  \E f, t : /\ clerk'[d].overtaken = f /\ clerk'[d].todo = t
                         /\ RowsAreThere(t) /\ (~f => Foreseen(t))
    <3>1. CASE d = c
      BY <1>2, <1>4, <1>5, <3>1
    <3>2. CASE d # c
      BY <1>2, <2>1, <3>2 DEF ChartInvariant, ClerksForesee
    <3> QED
      BY <3>1, <3>2
  <2>2. \A t : (RowsAreThere(t) => RowsAreThere(t)') /\ (Foreseen(t) => Foreseen(t)')
    BY <1>1, SameChart
  <2> QED
    BY <2>1, <2>2 DEF ClerksForesee
<1> QED
  BY <1>1, <1>6, PromisesRest DEF ChartInvariant

\* Steps that leave the chart alone and take nothing up.
LEMMA ChartRests ==
  ASSUME ChartInvariant, UNCHANGED <<dept, seat, suggestion, post, chartRaced, late>>,
         \A d \in Clerks : clerk'[d] \in {clerk[d], Void}
  PROVE  ClerksForesee' /\ ChartRows' /\ NothingDangles' /\ QueueIsShort'
<1>1. ClerksForesee'
  BY SameChart DEF ChartInvariant, ClerksForesee
<1> QED
  BY <1>1, PromisesRest DEF ChartInvariant

\* Every step keeps the invariant.
LEMMA ChartStep == ChartInvariant /\ [ChartNext \/ SuggestionsNext]_chartVars => ChartInvariant'
<1> SUFFICES ASSUME ChartInvariant, [ChartNext \/ SuggestionsNext]_chartVars
             PROVE  ChartInvariant'
  OBVIOUS
<1> DEFINE ChartKept == ClerksForesee' /\ ChartRows' /\ NothingDangles' /\ QueueIsShort'
<1>1. ReviewInvariant'
  BY ReviewsStep, ClerksStep DEF ChartInvariant, ReviewInvariant
<1>2. ASSUME NEW c \in Clerks, AbandonClerk(c) PROVE ChartKept
  <2>1. /\ clerk' = [clerk EXCEPT ![c] = Void]
        /\ UNCHANGED <<dept, seat, suggestion, post, chartRaced, late>>
    BY <1>2 DEF AbandonClerk
  <2>2. \A d \in Clerks : clerk'[d] \in {clerk[d], Void}
    BY <2>1 DEF ChartInvariant, ReviewInvariant, ClerksAreSound
  <2> QED
    BY <2>1, <2>2, ChartRests
<1>3. ASSUME NextQuarter \/ UNCHANGED chartVars PROVE ChartKept
  <2>1. UNCHANGED <<dept, seat, suggestion, post, chartRaced, late>>
    BY <1>3 DEF NextQuarter, chartVars
  <2>2. clerk' = clerk
    BY <1>3 DEF NextQuarter, chartVars
  <2> QED
    BY <2>1, <2>2, ChartRests
<1>4. ASSUME NEW c \in Clerks,
             \/ \E d \in Depts : BeginDeleteDepartment(c, d)
             \/ \E p \in Seats, d \in Depts, q \in Seats \cup {Void} : BeginCreatePosition(c, p, d, q)
             \/ \E p \in Seats, d \in Depts, q \in Seats \cup {Void} : BeginMovePosition(c, p, d, q)
             \/ \E p \in Seats : BeginDeletePosition(c, p)
             \/ \E x \in Targets : BeginGenerate(c, x)
             \/ \E i \in Suggestions : BeginReview(c, i, "approved") \/ BeginReview(c, i, "edited")
      PROVE  ChartKept
  BY <1>4, ForeseeingBegin
<1>5. \A c \in Clerks : FinishDeleteDepartment(c) \/ FinishCreatePosition(c) \/ FinishMovePosition(c)
                          \/ FinishDeletePosition(c) => ChartKept
  BY DepartmentGoes, PositionComes, PositionMoves, PositionGoes
<1>6. \A d \in Depts, n \in Names : CreateDepartment(d, n) \/ RenameDepartment(d, n) => ChartKept
  BY CreateDepartmentKeeps, RenameDepartmentKeeps
<1>7. \A w \in Workers, p \in Seats : AssignWorker(w, p) => ChartKept
  BY AssignWorkerKeeps
<1>8. \A c \in Clerks :
        CheckEligible(c) \/ FinishReview(c) \/ (\E i \in Suggestions : CreatePendingSuggestion(c, i))
          => ChartKept
  BY CheckEligibleKeeps, FinishReviewKeeps, CreatePendingKeeps
<1>9. \A i \in Suggestions : RejectSuggestion(i) => ChartKept
  BY RejectSuggestionKeeps
<1>10. ChartNext => ChartKept
  <2> HIDE DEF ChartKept
  <2> QED
    BY <1>2, <1>4, <1>5, <1>6, <1>7, Zenon DEF ChartNext
<1>11. SuggestionsNext => ChartKept \/ NextQuarter
  <2> HIDE DEF ChartKept
  <2> QED
    BY <1>4, <1>8, <1>9, Zenon DEF SuggestionsNext
<1> QED
  BY <1>1, <1>3, <1>10, <1>11 DEF ChartInvariant

\* It holds at first.
LEMMA ChartInitially == ChartInit => ChartInvariant
<1> SUFFICES ASSUME ChartInit PROVE ChartInvariant
  OBVIOUS
<1>1. ReviewInvariant /\ ChartRows /\ ClerksForesee /\ NothingDangles
  BY DEF ChartInit, ReviewInvariant, QueueTypeOK, ClerksAreSound, ReviewsTakeEffectOnce, ChartRows,
     ClerksForesee, NothingDangles, LiveSeat, HasPendingSuggestion
<1>2. PendingMissing = {} /\ \A i \in Suggestions : ~Pending(i)
  BY DEF ChartInit, PendingMissing, Pending
<1>3. IsFiniteSet(PendingMissing) /\ Cardinality(PendingMissing) = 0
  BY <1>2, FS_EmptySet
<1> QED
  BY <1>1, <1>2, <1>3, SuggestionsAssumption DEF ChartInvariant, QueueIsShort, SuggestionsDoNotRepeat

\* What requests know and what the chart promises holds in every state.
THEOREM ChartIsInvariant == ChartSpec => []ChartInvariant
BY ChartInitially, ChartStep, PTL DEF ChartSpec

\* The chart, the queue and the requests keep their types.
THEOREM ChartTypes == ChartSpec => []ChartTypeOK
<1>1. ChartInvariant => ChartTypeOK
  BY DEF ChartInvariant, ReviewInvariant, QueueTypeOK, ChartRows, ChartTypeOK
<1> QED
  BY <1>1, ChartIsInvariant, PTL

\* Unless requests overlapped, no live position reports to a deleted one, none is in a
\* deleted department and nobody holds a deleted one, unless it was attached after it was
\* deleted; and no pending suggestion is about what was deleted.
THEOREM UsedRowsStay == ChartSpec => []NothingDangles
<1>1. ChartInvariant => NothingDangles
  BY DEF ChartInvariant
<1> QED
  BY <1>1, ChartIsInvariant, PTL

\* Whatever is generated and reviewed: no two pending suggestions are about the same;
\* and unless requests overlapped, there are no more of missing departments than the cap,
\* and none of what was rejected in its quarter.
THEOREM QueueDoesNotRepeat == ChartSpec => []SuggestionsDoNotRepeat
<1>1. ChartInvariant => SuggestionsDoNotRepeat
  BY DEF ChartInvariant, QueueIsShort
<1> QED
  BY <1>1, ChartIsInvariant, PTL

-----------------------------------------------------------------------------
(***************************************************************************)
(* No loops                                                                *)
(*                                                                         *)
(* update_position goes up from the new boss, and gives up after           *)
(* MaxHierarchyDepth steps.  It finds every loop it would close in a chart *)
(* that is no deeper: there a walk as long goes round in a loop that was   *)
(* there before.                                                           *)
(***************************************************************************)


\* A set of positions that report only to one another.
Loop(R) == R \in SUBSET {p \in Seats : LiveSeat(p)} /\ R # {} /\ \A p \in R : seat[p].boss \in R

\* The chart is no deeper than the walk: whoever goes up from a position as far as the walk
\* does, and stays among the live positions, meets one of them twice.
ChartIsShallow ==
  \A f \in [0 .. MaxHierarchyDepth -> {p \in Seats : LiveSeat(p)}] :
    (\A n \in 0 .. (MaxHierarchyDepth - 1) : f[n + 1] = seat[f[n]].boss)
      => \E i, j \in 0 .. MaxHierarchyDepth : i < j /\ f[i] = f[j]

\* One step up the chart.
OneUp(s) == IF s = Void \/ ~LiveSeat(s) THEN Void ELSE seat[s].boss

\* The walk up from a position: where it is after each step.
Walk(q) == CHOOSE up : up = [n \in 0 .. MaxHierarchyDepth |-> IF n = 0 THEN q ELSE OneUp(up[n - 1])]

\* It goes up a step at a time.
LEMMA WalkUnfolds ==
  ASSUME ChartRows, NEW q \in Seats
  PROVE  /\ Walk(q) = [n \in 0 .. MaxHierarchyDepth |-> IF n = 0 THEN q ELSE OneUp(Walk(q)[n - 1])]
         /\ Above(q) = {Walk(q)[n] : n \in 1 .. MaxHierarchyDepth}
<1> DEFINE I == 0 .. MaxHierarchyDepth
           V == Seats \cup {Void}
           Step(f) == [n \in I |-> IF n = 0 THEN q ELSE OneUp(f[n - 1])]
           Climbs(f) == f = Step(f)
<1>1. MaxHierarchyDepth \in Nat
  BY ChartAssumption
<1>2. Walk(q) = CHOOSE f : Climbs(f)
  BY DEF Walk
<1>3. \A v \in V : OneUp(v) \in V
  BY DEF OneUp, ChartRows, LiveSeat, SeatRow
<1>4. \E f : Climbs(f)
  <2> DEFINE G == [f \in [I -> V] |-> Step(f)]
  <2>1. \A n \in I : n # 0 => n - 1 \in I
    BY <1>1
  <2>2. G \in [[I -> V] -> [I -> V]]
    BY <1>3, <2>1
  <2>3. ASSUME NEW g \in [I -> V], NEW h \in [I -> V], NEW n \in I,
               \A j \in OneBefore(MaxHierarchyDepth)[n] : g[j] = h[j]
        PROVE  G[g][n] = G[h][n]
    BY <2>1, <2>3 DEF OneBefore
  <2>4. Acyclic(I, OneBefore(MaxHierarchyDepth))
    BY <1>1, NumbersAreOrdered
  <2> HIDE DEF G, I, V
  <2>5. Recurs(I, V, OneBefore(MaxHierarchyDepth), G)
    BY <2>2, <2>3 DEF Recurs
  <2>6. V # {}
    BY DEF V
  <2>7. \E f \in [I -> V] : f = G[f]
    BY <2>4, <2>5, <2>6, RecursiveFunction
  <2> QED BY <2>7 DEF G
<1> HIDE DEF Climbs
<1>5. Climbs(CHOOSE f : Climbs(f))
  BY <1>4
<1>6. Walk(q) = [n \in I |-> IF n = 0 THEN q ELSE OneUp(Walk(q)[n - 1])]
  BY <1>2, <1>5 DEF Climbs
<1>7. Above(q) = {Walk(q)[n] : n \in 1 .. MaxHierarchyDepth}
  BY DEF Above, Walk, OneUp
<1> QED
  BY <1>6, <1>7

\* A walk that does not leave a set of live positions, in a chart no deeper than it,
\* goes round in a loop.
LEMMA WalkLoops ==
  ASSUME ChartRows, ChartIsShallow, NEW R \in SUBSET {p \in Seats : LiveSeat(p)}, NEW q \in R,
         \A n \in 0 .. MaxHierarchyDepth : Walk(q)[n] \in R
  PROVE  \E S : Loop(S)
<1> DEFINE m == MaxHierarchyDepth
           f == Walk(q)
<1>1. m \in Nat /\ q \in Seats /\ LiveSeat(q)
  BY ChartAssumption
<1>2. f = [n \in 0 .. m |-> IF n = 0 THEN q ELSE OneUp(f[n - 1])]
  BY <1>1, WalkUnfolds
<1> HIDE DEF f
<1>3. f \in [0 .. m -> {p \in Seats : LiveSeat(p)}]
  <2>1. \A n \in 0 .. m : f[n] \in {p \in Seats : LiveSeat(p)}
    BY DEF f
  <2>2. f = [n \in 0 .. m |-> f[n]]
    BY <1>2
  <2> QED BY <2>1, <2>2
<1>4. ASSUME NEW n \in 0 .. (m - 1) PROVE f[n + 1] = seat[f[n]].boss
  <2>1. n + 1 \in 0 .. m /\ n + 1 # 0 /\ (n + 1) - 1 = n /\ n \in 0 .. m
    BY <1>1
  <2>2. f[n + 1] = OneUp(f[n])
    BY <1>2, <2>1
  <2>3. f[n] \in Seats /\ LiveSeat(f[n])
    BY <1>3, <2>1
  <2> QED
    BY <2>2, <2>3, ChartAssumption DEF OneUp
<1>5. PICK i \in 0 .. m, j \in 0 .. m : i < j /\ f[i] = f[j]
  BY <1>3, <1>4 DEF ChartIsShallow
<1> DEFINE S == {f[n] : n \in i .. (j - 1)}
<1>6. S \in SUBSET {p \in Seats : LiveSeat(p)} /\ S # {}
  <2>1. \A n \in i .. (j - 1) : n \in 0 .. m
    BY <1>1, <1>5
  <2>2. i \in i .. (j - 1)
    BY <1>1, <1>5
  <2> QED BY <1>3, <2>1, <2>2
<1>7. ASSUME NEW s \in S PROVE seat[s].boss \in S
  <2>1. PICK n \in i .. (j - 1) : s = f[n]
    OBVIOUS
  <2>2. n \in 0 .. (m - 1)
    BY <1>1, <1>5
  <2>3. seat[s].boss = f[n + 1]
    BY <1>4, <2>1, <2>2
  <2>4. CASE n = j - 1
    <3>1. n + 1 = j /\ i \in i .. (j - 1)
      BY <1>1, <1>5, <2>4
    <3> QED BY <1>5, <2>3, <3>1
  <2>5. CASE n # j - 1
    <3>1. n + 1 \in i .. (j - 1)
      BY <1>1, <1>5, <2>5
    <3> QED BY <2>3, <3>1
  <2> QED BY <2>4, <2>5
<1>8. Loop(S)
  BY <1>6, <1>7 DEF Loop
<1> QED BY <1>8

\* NoReportingLoops speaks of loops.
LEMMA NoLoops == NoReportingLoops <=> (~chartRaced => \A R : ~Loop(R))
BY DEF NoReportingLoops, Loop

\* create_position closes no loop, because nobody reports to a position that is not there.
LEMMA CreationLoops ==
  ASSUME ChartInvariant, NoReportingLoops, NEW c \in Clerks, FinishCreatePosition(c)
  PROVE  NoReportingLoops'
<1>1. clerk[c] # Void /\ clerk[c].todo.op = "create position" /\ Settles(c)
  BY DEF FinishCreatePosition, ClerkDoes
<1>2. /\ clerk[c].todo.p \in Seats /\ clerk[c].todo.d \in Depts /\ clerk[c].todo.q \in Seats \cup {Void}
      /\ ~chartRaced' => ~chartRaced
  BY <1>1, WhatSettles DEF SoundReview
<1>3. PICK p \in Seats, d \in Depts, q \in Seats \cup {Void} :
        p = clerk[c].todo.p /\ d = clerk[c].todo.d /\ q = clerk[c].todo.q
  BY <1>2
<1>4. seat[p] = Void /\ seat' = [seat EXCEPT ![p] = [dept |-> d, boss |-> q, live |-> TRUE]]
  BY <1>3 DEF FinishCreatePosition
<1>5. \A s \in Seats \ {p} : seat'[s] = seat[s]
  BY <1>4 DEF ChartInvariant, ChartRows
<1>6. seat'[p].boss = q
  BY <1>4 DEF ChartInvariant, ChartRows
<1>7. ~chartRaced' => (q # Void => LiveSeat(q))
  BY <1>1, <1>3, WhatSettles DEF Foreseen
<1>8. ASSUME ~chartRaced', NEW R, Loop(R)' PROVE \E T : Loop(T)
  <2>1. /\ R \in SUBSET Seats /\ R # {}
        /\ \A s \in R : seat'[s].boss \in R /\ LiveSeat(s)'
    BY <1>8 DEF Loop
  <2> DEFINE T == R \ {p}
  <2>2. \A s \in T : LiveSeat(s) /\ seat[s].boss = seat'[s].boss
    BY <1>5, <2>1 DEF LiveSeat
  <2>3. ~LiveSeat(p) /\ Void \notin Seats
    BY <1>4, ChartAssumption DEF LiveSeat
  <2>4. \A s \in T : seat[s].boss \in T
    <3>1. \A s \in T : seat[s].boss # Void => LiveSeat(seat[s].boss)
      BY <1>2, <1>8, <2>1, <2>2 DEF ChartInvariant, NothingDangles
    <3> QED BY <2>1, <2>2, <2>3, <3>1
  <2>5. T # {}
    <3>1. CASE p \in R
      <4>1. q \in R /\ q # p
        BY <1>6, <1>7, <1>8, <2>1, <2>3, <3>1
      <4> QED BY <4>1
    <3>2. CASE p \notin R
      BY <2>1, <3>2
    <3> QED BY <3>1, <3>2
  <2> QED BY <2>1, <2>2, <2>4, <2>5 DEF Loop
<1>9. ASSUME ~chartRaced' PROVE \A R : ~Loop(R)'
  BY <1>2, <1>8, <1>9, NoLoops
<1> QED
  BY <1>9 DEF NoReportingLoops, Loop

\* update_position closes none: the walk up from the new boss would meet the position,
\* or go round in a loop that was there before.
LEMMA MoveLoops ==
  ASSUME ChartInvariant, NoReportingLoops, ChartIsShallow, NEW c \in Clerks, FinishMovePosition(c)
  PROVE  NoReportingLoops'
<1>1. clerk[c] # Void /\ clerk[c].todo.op = "move position" /\ Settles(c)
  BY DEF FinishMovePosition, ClerkDoes
<1>2. /\ clerk[c].todo.p \in Seats /\ clerk[c].todo.d \in Depts /\ clerk[c].todo.q \in Seats \cup {Void}
      /\ clerk[c].todo.transfers \in BOOLEAN /\ clerk[c].todo.reports \in BOOLEAN
      /\ ~chartRaced' => ~chartRaced
  BY <1>1, WhatSettles DEF SoundReview
<1>3. PICK p \in Seats, d \in Depts, q \in Seats \cup {Void}, transfers \in BOOLEAN, reports \in BOOLEAN :
        /\ p = clerk[c].todo.p /\ d = clerk[c].todo.d /\ q = clerk[c].todo.q
        /\ transfers = clerk[c].todo.transfers /\ reports = clerk[c].todo.reports
  BY <1>2
<1>4. /\ seat' = [seat EXCEPT ![p].dept = IF transfers THEN d ELSE @, ![p].boss = IF reports THEN q ELSE @]
      /\ seat[p] # Void
  BY <1>1, <1>3, WhatSettles DEF FinishMovePosition, RowsAreThere
<1>5. \A s \in Seats \ {p} : seat'[s] = seat[s]
  BY <1>4 DEF ChartInvariant, ChartRows
<1> DEFINE place == IF transfers THEN d ELSE seat[p].dept
           boss  == IF reports THEN q ELSE seat[p].boss
<1>6. seat'[p].boss = boss /\ (LiveSeat(p)' <=> LiveSeat(p))
  <2>1. seat[p] \in [dept : Depts, boss : Seats \cup {Void}, live : BOOLEAN]
    BY <1>4 DEF ChartInvariant, ChartRows, SeatRow
  <2>2. seat'[p] = [seat[p] EXCEPT !.dept = place, !.boss = boss]
    BY <1>4, <2>1 DEF ChartInvariant, ChartRows
  <2>3. place \in Depts /\ boss \in Seats \cup {Void}
    BY <2>1
  <2> HIDE DEF place, boss
  <2>4. seat'[p].boss = boss /\ seat'[p].live = seat[p].live /\ seat'[p] \in SeatRow
    BY <2>1, <2>2, <2>3 DEF SeatRow
  <2> QED BY <1>4, <2>4, ChartAssumption DEF LiveSeat
<1>7. ~chartRaced' => (reports /\ q # Void => MayReportTo(p, q))
  BY <1>1, <1>3, WhatSettles DEF Foreseen
<1>8. ASSUME ~chartRaced', NEW R, Loop(R)' PROVE \E T : Loop(T)
  <2>1. /\ R \in SUBSET Seats /\ R # {}
        /\ \A s \in R : seat'[s].boss \in R /\ LiveSeat(s)'
    BY <1>8 DEF Loop
  <2>2. \A s \in R : LiveSeat(s)
    BY <1>5, <1>6, <2>1 DEF LiveSeat
  <2>3. CASE p \notin R \/ ~reports
    BY <1>5, <1>6, <2>1, <2>2, <2>3 DEF Loop
  <2>4. CASE p \in R /\ reports
    <3>1. q \in R /\ q # Void
      BY <1>6, <2>1, <2>4, ChartAssumption
    <3>2. q # p /\ p \notin Above(q)
      BY <1>7, <1>8, <2>4, <3>1 DEF MayReportTo
    <3> DEFINE P == {n \in Nat : Walk(q)[n] \in R \ {p}}
               m == MaxHierarchyDepth
    <3>3. m \in Nat /\ q \in Seats
      BY <2>1, <3>1, ChartAssumption
    <3>4. /\ Walk(q) = [n \in 0 .. m |-> IF n = 0 THEN q ELSE OneUp(Walk(q)[n - 1])]
          /\ Above(q) = {Walk(q)[n] : n \in 1 .. m}
      BY <3>3, WalkUnfolds DEF ChartInvariant
    <3>5. 0 \in P
      BY <3>1, <3>2, <3>3, <3>4
    <3>6. ASSUME NEW k \in 0 .. (m - 1), k \in P PROVE k + 1 \in P
      <4>1. k + 1 \in 1 .. m /\ k + 1 # 0 /\ (k + 1) - 1 = k /\ k + 1 \in 0 .. m
        BY <3>3
      <4>2. Walk(q)[k + 1] = OneUp(Walk(q)[k])
        BY <3>4, <4>1
      <4>3. PICK s \in R \ {p} : s = Walk(q)[k]
        BY <3>6
      <4>4. OneUp(s) = seat'[s].boss
        BY <1>5, <2>1, <2>2, ChartAssumption DEF OneUp
      <4>5. Walk(q)[k + 1] \in R
        BY <2>1, <4>2, <4>3, <4>4
      <4>6. Walk(q)[k + 1] \in Above(q)
        BY <3>4, <4>1
      <4> QED BY <3>2, <4>1, <4>5, <4>6
    <3>7. \A n \in 0 .. m : n \in P
      <4> HIDE DEF P
      <4> QED BY <3>3, <3>5, <3>6, UpToThere
    <3>8. \A n \in 0 .. MaxHierarchyDepth : Walk(q)[n] \in R
      BY <3>7
    <3> QED
      BY <2>1, <2>2, <3>1, <3>8, WalkLoops DEF ChartInvariant
  <2> QED BY <2>3, <2>4
<1>9. ASSUME ~chartRaced' PROVE \A R : ~Loop(R)'
  BY <1>2, <1>8, <1>9, NoLoops
<1> QED
  BY <1>9 DEF NoReportingLoops, Loop

\* Neither does delete_position.
LEMMA DeletionLoops ==
  ASSUME ChartInvariant, NoReportingLoops, NEW c \in Clerks, FinishDeletePosition(c)
  PROVE  NoReportingLoops'
<1>1. clerk[c] # Void /\ clerk[c].todo.op = "delete position" /\ Settles(c)
  BY DEF FinishDeletePosition, ClerkDoes
<1>2. clerk[c].todo.p \in Seats /\ (~chartRaced' => ~chartRaced)
  BY <1>1, WhatSettles DEF SoundReview
<1>3. PICK p \in Seats : p = clerk[c].todo.p
  BY <1>2
<1>4. seat' = [seat EXCEPT ![p].live = FALSE] /\ seat[p] # Void
  BY <1>1, <1>3, WhatSettles DEF FinishDeletePosition, RowsAreThere
<1>5. \A s \in Seats \ {p} : seat'[s] = seat[s]
  BY <1>4 DEF ChartInvariant, ChartRows
<1>6. ~LiveSeat(p)'
  BY <1>4 DEF ChartInvariant, ChartRows, SeatRow, LiveSeat
<1>7. ASSUME NEW R, Loop(R)' PROVE Loop(R)
  <2>1. /\ R \in SUBSET Seats /\ R # {}
        /\ \A s \in R : seat'[s].boss \in R /\ LiveSeat(s)'
    BY <1>7 DEF Loop
  <2>2. p \notin R
    BY <1>6, <2>1
  <2>3. \A s \in R : seat'[s] = seat[s] /\ LiveSeat(s)
    BY <1>5, <2>1, <2>2 DEF LiveSeat
  <2> QED BY <2>1, <2>3 DEF Loop
<1>8. ASSUME ~chartRaced' PROVE \A R : ~Loop(R)'
  BY <1>2, <1>7, <1>8, NoLoops
<1> QED
  BY <1>8 DEF NoReportingLoops, Loop

\* Every step keeps the chart free of loops.
LEMMA LoopsStep ==
  ChartInvariant /\ NoReportingLoops /\ ChartIsShallow /\ [ChartNext \/ SuggestionsNext]_chartVars
    => NoReportingLoops'
<1> SUFFICES ASSUME ChartInvariant, NoReportingLoops, ChartIsShallow,
                    [ChartNext \/ SuggestionsNext]_chartVars
             PROVE  NoReportingLoops'
  OBVIOUS
<1>1. CASE UNCHANGED seat /\ (~chartRaced' => ~chartRaced)
  BY <1>1 DEF NoReportingLoops, LiveSeat
<1>2. ASSUME NEW c \in Clerks, clerk[c] # Void, Settles(c) PROVE ~chartRaced' => ~chartRaced
  BY <1>2, WhatSettles
<1>3. SettlesAtOnce => (~chartRaced' => ~chartRaced)
  BY DEF SettlesAtOnce
<1>4. CASE ChartNext
  <2>1. ASSUME NEW c \in Clerks, NEW p \in Seats, NEW d \in Depts, NEW q \in Seats \cup {Void},
               BeginCreatePosition(c, p, d, q) \/ BeginMovePosition(c, p, d, q)
        PROVE  NoReportingLoops'
    <3>1. UNCHANGED <<seat, chartRaced>>
      BY <2>1 DEF BeginCreatePosition, BeginMovePosition, ClerkReady
    <3> QED BY <1>1, <3>1
  <2> QED
    BY <1>1, <1>2, <1>3, <1>4, <2>1, CreationLoops, MoveLoops, DeletionLoops
    DEF ChartNext, FinishDeleteDepartment, CreateDepartment, RenameDepartment, AssignWorker,
        AbandonClerk, BeginDeleteDepartment, BeginDeletePosition, ClerkReady, ClerkDoes
<1>5. CASE SuggestionsNext
  BY <1>1, <1>2, <1>3, <1>5
  DEF SuggestionsNext, BeginGenerate, CheckEligible, CreatePendingSuggestion, BeginReview, FinishReview,
      RejectSuggestion, NextQuarter, ClerkReady, ClerkDoes
<1>6. CASE UNCHANGED chartVars
  BY <1>1, <1>6 DEF chartVars
<1> QED
  BY <1>4, <1>5, <1>6

\* While the chart is no deeper than update_position's walk, no positions report to one
\* another in a circle, unless requests overlapped.
THEOREM ChartHasNoLoops == ChartSpec /\ []ChartIsShallow => []NoReportingLoops
<1>1. ChartInit => NoReportingLoops
  BY DEF ChartInit, NoReportingLoops, LiveSeat
<1> QED
  BY <1>1, LoopsStep, ChartIsInvariant, PTL DEF ChartSpec

\* An organization of no more positions than the walk has steps is never deeper than it.
LEMMA FewSeatsAreShallow ==
  ASSUME IsFiniteSet(Seats), Cardinality(Seats) <= MaxHierarchyDepth
  PROVE  ChartIsShallow
<1> DEFINE I == 0 .. MaxHierarchyDepth
           L == {p \in Seats : LiveSeat(p)}
<1>1. MaxHierarchyDepth \in Nat
  BY ChartAssumption
<1>2. IsFiniteSet(I) /\ Cardinality(I) = MaxHierarchyDepth + 1
  BY <1>1, FS_Interval
<1>3. IsFiniteSet(L) /\ Cardinality(L) <= Cardinality(Seats)
  BY FS_Subset
<1>4. Cardinality(L) < Cardinality(I)
  BY <1>1, <1>2, <1>3, FS_CardinalityType
<1>5. ASSUME NEW f \in [I -> L] PROVE \E i, j \in I : i < j /\ f[i] = f[j]
  <2>1. PICK i \in I, j \in I : i # j /\ f[i] = f[j]
    BY <1>2, <1>3, <1>4, FS_PigeonHole
  <2>2. i < j \/ j < i
    BY <1>1, <2>1
  <2> QED BY <2>1, <2>2
<1> QED
  BY <1>5 DEF ChartIsShallow

\* So in an organization of at most MaxHierarchyDepth positions nobody reports to himself,
\* at any number of removes.
THEOREM SmallChartsHaveNoLoops ==
  ASSUME IsFiniteSet(Seats), Cardinality(Seats) <= MaxHierarchyDepth
  PROVE  ChartSpec => []NoReportingLoops
<1>1. ChartIsShallow
  BY FewSeatsAreShallow
<1>2. []ChartIsShallow
  BY <1>1, FewSeatsAreShallow, PTL
<1> QED
  BY <1>2, ChartHasNoLoops, PTL

=============================================================================
