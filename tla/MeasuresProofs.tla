--------------------------- MODULE MeasuresProofs ---------------------------
(***************************************************************************)
(* What people's work is measured by, for any number of people, days,      *)
(* quarters, KPIs, objectives, key results, texts and concurrent requests  *)
(* and workers: attendance records and the figures of closed quarters; the *)
(* weights of KPIs fit when nobody gets in between, past figures stand,    *)
(* KPIs measure something, and accepted saves of the Business DNA show;    *)
(* the lists that scoring reads page by page are read whole; the scores of *)
(* a closed quarter do not depend on when the run was, and count a task    *)
(* once; and what one page says is what another says.                      *)
(*                                                                         *)
(* The requests about KPIs and objectives check first and write later,     *)
(* without locks.  Each invariant says what a request has found out and    *)
(* what of it is still so as long as nobody has overtaken the request; the *)
(* sums of weights are those of FoldTheorems.                              *)
(***************************************************************************)
EXTENDS Attendance, Scoring, Kpis, Objectives, BusinessDna, Lists, Standings, FoldTheorems, SequenceTheorems

-----------------------------------------------------------------------------
(***************************************************************************)
(* Attendance, for any number of employees, records, requests and days:    *)
(* the types are right, nobody has two open records, a record that has     *)
(* ended stays as it ended, and the system ends records at midnights that  *)
(* have passed.                                                            *)
(*                                                                         *)
(* OneOpenRecord is inductive with the types, because the insert and its   *)
(* check are one statement.  SystemEndsAtMidnight is not: it also needs to *)
(* know of what an auto-close under way will write.                        *)
(***************************************************************************)

\* An auto-close under way has taken a midnight, and one that has passed.
CutoffsArePast ==
  \A s \in Taps : tap[s] # Empty /\ tap[s].op = "close" =>
    tap[s].at = LastMidnight(tap[s].at) /\ tap[s].at <= clock

(***************************************************************************)
(* Lemmas                                                                  *)
(***************************************************************************)
\* The last midnight is a moment of the clock that is not in the future, and it is
\* the last midnight of itself.
LEMMA MidnightIsPast ==
  ASSUME NEW m \in Nat
  PROVE  /\ LastMidnight(m) \in 0 .. m
         /\ LastMidnight(LastMidnight(m)) = LastMidnight(m)
<1> DEFINE q == m \div DayLength
<1>1. DayLength \in Nat /\ DayLength > 0
  BY AttendanceAssumption
<1>2. q \in Nat /\ q * DayLength \in Nat /\ q * DayLength <= m
  BY <1>1
<1>3. (q * DayLength) \div DayLength = q
  BY <1>1, <1>2
<1> QED
  BY <1>2, <1>3 DEF LastMidnight

\* What a request may be doing is a record with a moment of the clock.
LEMMA TapHasAMoment ==
  ASSUME AttendanceTypeOK, NEW s \in Taps, tap[s] # Empty
  PROVE  /\ tap[s] \in TapRecord
         /\ tap[s].at \in Nat
         /\ tap[s].op # "close" => tap[s].emp \in Clockers
<1>1. LastTick \in Nat
  BY AttendanceAssumption
<1>2. tap[s] \in TapRecord
  BY DEF AttendanceTypeOK
<1> QED
  BY <1>1, <1>2 DEF TapRecord

\* A row of the table is a record with its constraints.
LEMMA RowHasItsConstraints ==
  ASSUME AttendanceTypeOK, NEW id \in Records, record[id] # Empty
  PROVE  /\ record[id] \in [emp : Clockers, in : Nat, out : Nat \cup {Empty},
                            by : {"employee", "system", Empty}]
         /\ record[id].out = Empty <=> record[id].by = Empty
         /\ record[id].out # Empty => record[id].out >= record[id].in
BY DEF AttendanceTypeOK, AttendanceRecord

\* A row that is open and is given an end, not before its start, keeps its constraints.
LEMMA EndedRow ==
  ASSUME AttendanceTypeOK, NEW id \in Records, RecordIsOpen(id),
         NEW m \in Nat, m >= record[id].in, NEW who \in {"employee", "system"}
  PROVE  [record[id] EXCEPT !.out = m, !.by = who] \in AttendanceRecord
<1>1. record[id] \in [emp : Clockers, in : Nat, out : Nat \cup {Empty},
                      by : {"employee", "system", Empty}]
  BY RowHasItsConstraints DEF RecordIsOpen
<1>2. m # Empty /\ who # Empty
  BY AttendanceAssumption
<1> QED
  BY <1>1, <1>2 DEF AttendanceRecord

(***************************************************************************)
(* Types                                                                   *)
(***************************************************************************)
\* Every step keeps the types.
LEMMA TypesOfAStep ==
  AttendanceTypeOK /\ [AttendanceNext]_attendanceVars => AttendanceTypeOK'
<1> SUFFICES ASSUME AttendanceTypeOK, [AttendanceNext]_attendanceVars PROVE AttendanceTypeOK'
  OBVIOUS
<1>1. ASSUME NEW s \in Taps, NEW e \in Clockers, BeginClockIn(s, e) \/ BeginClockOut(s, e)
      PROVE  AttendanceTypeOK'
  BY <1>1 DEF BeginClockIn, BeginClockOut, AttendanceTypeOK, TapRecord
<1>2. ASSUME NEW s \in Taps, CreateOpenRecord(s) PROVE AttendanceTypeOK'
  <2>1. tap[s] \in TapRecord /\ tap[s].at \in Nat /\ tap[s].emp \in Clockers
    BY <1>2, TapHasAMoment DEF CreateOpenRecord
  <2>2. [emp |-> tap[s].emp, in |-> tap[s].at, out |-> Empty, by |-> Empty] \in AttendanceRecord
    BY <2>1 DEF AttendanceRecord
  <2>3. [tap[s] EXCEPT !.step = "reread"] \in TapRecord
    BY <1>2, <2>1 DEF CreateOpenRecord, TapRecord
  <2>4. record' \in [Records -> AttendanceRecord \cup {Empty}]
    BY <1>2, <2>2 DEF CreateOpenRecord, AttendanceTypeOK
  <2>5. tap' \in [Taps -> TapRecord \cup {Empty}]
    BY <1>2, <2>3 DEF CreateOpenRecord, AttendanceTypeOK
  <2> QED
    BY <1>2, <2>4, <2>5 DEF CreateOpenRecord, AttendanceTypeOK
<1>3. ASSUME NEW s \in Taps, AnswerWithOpenRecord(s) \/ AbandonTap(s) PROVE AttendanceTypeOK'
  BY <1>3 DEF AnswerWithOpenRecord, AbandonTap, AttendanceTypeOK
<1>4. ASSUME NEW s \in Taps, CloseOpenRecord(s) PROVE AttendanceTypeOK'
  <2>1. tap[s].at \in Nat
    BY <1>4, TapHasAMoment DEF CloseOpenRecord
  <2>2. ASSUME NEW id \in Records, id \in OpenRecords(tap[s].emp)
        PROVE  [record[id] EXCEPT !.out = LaterOf(tap[s].at, record[id].in), !.by = "employee"]
                 \in AttendanceRecord
    <3>1. RecordIsOpen(id) /\ record[id].in \in Nat
      BY <2>2, RowHasItsConstraints DEF OpenRecords, RecordIsOpen
    <3>2. LaterOf(tap[s].at, record[id].in) \in Nat /\ LaterOf(tap[s].at, record[id].in) >= record[id].in
      BY <2>1, <3>1 DEF LaterOf
    <3> QED
      BY <3>1, <3>2, EndedRow
  <2>3. record' \in [Records -> AttendanceRecord \cup {Empty}]
    BY <1>4, <2>2 DEF CloseOpenRecord, AttendanceTypeOK
  <2> QED
    BY <1>4, <2>3 DEF CloseOpenRecord, AttendanceTypeOK
<1>5. ASSUME NEW s \in Taps, BeginAutoClose(s) PROVE AttendanceTypeOK'
  <2>1. clock \in Nat /\ clock <= LastTick /\ LastTick \in Nat
    BY AttendanceAssumption DEF AttendanceTypeOK
  <2>2. LastMidnight(clock) \in 0 .. LastTick
    BY <2>1, MidnightIsPast
  <2> QED
    BY <1>5, <2>2 DEF BeginAutoClose, AttendanceTypeOK, TapRecord
<1>6. ASSUME NEW s \in Taps, CloseStaleOpenRecords(s) PROVE AttendanceTypeOK'
  <2>1. tap[s].at \in Nat
    BY <1>6, TapHasAMoment DEF CloseStaleOpenRecords
  <2>2. ASSUME NEW id \in Records, Stale(id, tap[s].at)
        PROVE  [record[id] EXCEPT !.out = tap[s].at, !.by = "system"] \in AttendanceRecord
    <3>1. RecordIsOpen(id) /\ record[id].in \in Nat /\ tap[s].at >= record[id].in
      BY <2>1, <2>2, RowHasItsConstraints DEF Stale, RecordIsOpen
    <3> QED
      BY <2>1, <3>1, EndedRow
  <2>3. record' \in [Records -> AttendanceRecord \cup {Empty}]
    BY <1>6, <2>2 DEF CloseStaleOpenRecords, AttendanceTypeOK
  <2> QED
    BY <1>6, <2>3 DEF CloseStaleOpenRecords, AttendanceTypeOK
<1>7. ASSUME NEW e \in Clockers, LeaveStaff(e) \/ ReturnToStaff(e) PROVE AttendanceTypeOK'
  BY <1>7 DEF LeaveStaff, ReturnToStaff, AttendanceTypeOK
<1>8. CASE TimePasses
  BY <1>8, AttendanceAssumption DEF TimePasses, AttendanceTypeOK
<1>9. CASE UNCHANGED attendanceVars
  BY <1>9 DEF attendanceVars, AttendanceTypeOK
<1> QED
  BY <1>1, <1>2, <1>3, <1>4, <1>5, <1>6, <1>7, <1>8, <1>9 DEF AttendanceNext

\* Records, people and requests are always of their types, for any number of each: an
\* end, when there is one, is a moment of the clock.
THEOREM TypeCorrect == AttendanceSpec => []AttendanceTypeOK
<1>1. AttendanceInit => AttendanceTypeOK
  BY AttendanceAssumption DEF AttendanceInit, AttendanceTypeOK
<1> QED
  BY <1>1, TypesOfAStep, PTL DEF AttendanceSpec

(***************************************************************************)
(* One open record                                                         *)
(***************************************************************************)
\* Every step keeps it: the insert looks for open records itself, and whatever else
\* is written leaves no record open that was not.
LEMMA OneOpenRecordStep ==
  OneOpenRecord /\ AttendanceTypeOK /\ [AttendanceNext]_attendanceVars => OneOpenRecord'
<1> SUFFICES ASSUME OneOpenRecord, AttendanceTypeOK, [AttendanceNext]_attendanceVars
             PROVE  OneOpenRecord'
  OBVIOUS
<1>1. ASSUME NEW s \in Taps, CreateOpenRecord(s) PROVE OneOpenRecord'
  <2>1. CASE UNCHANGED record
    BY <2>1 DEF OneOpenRecord, RecordIsOpen
  <2>2. CASE record' # record
    <3>1. PICK id \in Records :
            /\ OpenRecords(tap[s].emp) = {}
            /\ record' = [record EXCEPT ![id] =
                 [emp |-> tap[s].emp, in |-> tap[s].at, out |-> Empty, by |-> Empty]]
      BY <1>1, <2>2 DEF CreateOpenRecord
    <3>2. record'[id].emp = tap[s].emp /\ \A i \in Records \ {id} : record'[i] = record[i]
      BY <3>1 DEF AttendanceTypeOK
    <3>3. \A i \in Records \ {id} : RecordIsOpen(i)' => record'[i].emp # tap[s].emp
      BY <3>1, <3>2 DEF OpenRecords, RecordIsOpen
    <3> QED
      BY <3>2, <3>3 DEF OneOpenRecord, RecordIsOpen
  <2> QED
    BY <2>1, <2>2
<1>2. ASSUME NEW s \in Taps, CloseOpenRecord(s) \/ CloseStaleOpenRecords(s) PROVE OneOpenRecord'
  <2>1. ASSUME NEW i \in Records, RecordIsOpen(i)' PROVE record'[i] = record[i]
    <3>1. tap[s] \in TapRecord /\ tap[s].at \in Nat
      BY <1>2, TapHasAMoment DEF CloseOpenRecord, CloseStaleOpenRecords
    <3>2. RecordIsOpen(i) => record[i] \in [emp : Clockers, in : Nat, out : Nat \cup {Empty},
                                            by : {"employee", "system", Empty}]
      BY RowHasItsConstraints DEF RecordIsOpen
    <3>3. \A m \in Nat : m # Empty
      BY AttendanceAssumption
    <3>4. ASSUME CloseOpenRecord(s), record'[i] # record[i] PROVE FALSE
      <4>1. i \in OpenRecords(tap[s].emp)
            /\ record'[i] = [record[i] EXCEPT !.out = LaterOf(tap[s].at, record[i].in), !.by = "employee"]
        BY <3>4 DEF CloseOpenRecord
      <4>2. record'[i].out = LaterOf(tap[s].at, record[i].in) /\ record[i].in \in Nat
        BY <3>2, <4>1 DEF OpenRecords
      <4> QED
        BY <2>1, <3>1, <3>3, <4>2 DEF RecordIsOpen, LaterOf
    <3>5. ASSUME CloseStaleOpenRecords(s), record'[i] # record[i] PROVE FALSE
      <4>1. Stale(i, tap[s].at)
            /\ record'[i] = [record[i] EXCEPT !.out = tap[s].at, !.by = "system"]
        BY <3>5 DEF CloseStaleOpenRecords
      <4>2. record'[i].out = tap[s].at
        BY <3>2, <4>1 DEF Stale
      <4> QED
        BY <2>1, <3>1, <3>3, <4>2 DEF RecordIsOpen
    <3> QED
      BY <1>2, <3>4, <3>5
  <2> QED
    BY <2>1 DEF OneOpenRecord, RecordIsOpen
<1>3. CASE UNCHANGED record
  BY <1>3 DEF OneOpenRecord, RecordIsOpen
<1> QED
  BY <1>1, <1>2, <1>3
  DEF AttendanceNext, attendanceVars, BeginClockIn, BeginClockOut, AnswerWithOpenRecord, BeginAutoClose,
      AbandonTap, LeaveStaff, ReturnToStaff, TimePasses

\* Nobody is clocked in twice, whatever taps, clock-outs and auto-closes race.
THEOREM NobodyIsClockedInTwice == AttendanceSpec => []OneOpenRecord
<1>1. AttendanceInit => OneOpenRecord
  BY DEF AttendanceInit, OneOpenRecord, RecordIsOpen
<1> QED
  BY <1>1, OneOpenRecordStep, TypeCorrect, PTL DEF AttendanceSpec

(***************************************************************************)
(* Ends                                                                    *)
(***************************************************************************)
\* A step rewrites open records only.
LEMMA EndedRecordsStandStep ==
  ASSUME AttendanceTypeOK, [AttendanceNext]_attendanceVars,
         NEW id \in Records, record[id] # Empty, record[id].out # Empty
  PROVE  record'[id] = record[id]
<1>1. ~RecordIsOpen(id)
  BY DEF RecordIsOpen
<1>2. ASSUME NEW s \in Taps, CreateOpenRecord(s) PROVE record'[id] = record[id]
  BY <1>2 DEF CreateOpenRecord, AttendanceTypeOK
<1>3. ASSUME NEW s \in Taps, CloseOpenRecord(s) \/ CloseStaleOpenRecords(s)
      PROVE  record'[id] = record[id]
  BY <1>1, <1>3 DEF CloseOpenRecord, CloseStaleOpenRecords, OpenRecords, Stale
<1>4. CASE UNCHANGED record
  BY <1>4
<1> QED
  BY <1>2, <1>3, <1>4
  DEF AttendanceNext, attendanceVars, BeginClockIn, BeginClockOut, AnswerWithOpenRecord, BeginAutoClose,
      AbandonTap, LeaveStaff, ReturnToStaff, TimePasses

\* Whoever ends a record first has ended it: neither a clock-out nor the auto-close
\* rewrites an end.
THEOREM TheFirstEndStands == AttendanceSpec => EndedRecordsStand
<1>1. AttendanceTypeOK /\ [AttendanceNext]_attendanceVars =>
        [\A id \in Records :
           record[id] # Empty /\ record[id].out # Empty => record'[id] = record[id]]_attendanceVars
  BY EndedRecordsStandStep
<1> QED
  BY <1>1, TypeCorrect, PTL DEF AttendanceSpec, EndedRecordsStand

(***************************************************************************)
(* Midnights                                                               *)
(***************************************************************************)
\* The clock does not go back.
LEMMA ClockMovesOn ==
  ASSUME AttendanceTypeOK, [AttendanceNext]_attendanceVars
  PROVE  clock \in Nat /\ clock' \in Nat /\ clock <= clock'
<1>1. clock \in Nat
  BY AttendanceAssumption DEF AttendanceTypeOK
<1>2. clock' = clock + 1 \/ clock' = clock
  BY DEF AttendanceNext, attendanceVars, BeginClockIn, BeginClockOut, CreateOpenRecord, AnswerWithOpenRecord,
         CloseOpenRecord, BeginAutoClose, CloseStaleOpenRecords, AbandonTap, LeaveStaff, ReturnToStaff,
         TimePasses
<1> QED
  BY <1>1, <1>2

\* What an auto-close under way has taken stays past.
LEMMA CutoffsStep ==
  CutoffsArePast /\ AttendanceTypeOK /\ [AttendanceNext]_attendanceVars => CutoffsArePast'
<1> SUFFICES ASSUME CutoffsArePast, AttendanceTypeOK, [AttendanceNext]_attendanceVars
             PROVE  CutoffsArePast'
  OBVIOUS
<1>1. clock \in Nat /\ clock' \in Nat /\ clock <= clock'
  BY ClockMovesOn
<1>2. ASSUME NEW s \in Taps, tap'[s] # Empty, tap'[s].op = "close"
      PROVE  tap'[s].at = LastMidnight(tap'[s].at) /\ tap'[s].at <= clock'
  <2>1. CASE tap'[s] = tap[s]
    <3>1. tap[s].at \in Nat
      BY <1>2, <2>1, TapHasAMoment
    <3> QED
      BY <1>1, <1>2, <2>1, <3>1 DEF CutoffsArePast
  <2>2. CASE tap'[s] # tap[s]
    <3>1. ASSUME NEW r \in Taps, BeginAutoClose(r) PROVE tap'[s].at = LastMidnight(clock)
      BY <2>2, <3>1 DEF BeginAutoClose, AttendanceTypeOK
    <3>2. ASSUME NEW r \in Taps, NEW e \in Clockers, BeginClockIn(r, e) \/ BeginClockOut(r, e)
          PROVE  FALSE
      BY <1>2, <2>2, <3>2 DEF BeginClockIn, BeginClockOut, AttendanceTypeOK
    <3>3. ASSUME NEW r \in Taps, CreateOpenRecord(r) PROVE FALSE
      <4>1. tap[r] \in TapRecord /\ tap[r].op = "in"
        BY <3>3, TapHasAMoment DEF CreateOpenRecord
      <4>2. [tap[r] EXCEPT !.step = "reread"].op = "in"
        BY <4>1 DEF TapRecord
      <4> QED
        BY <1>2, <2>2, <3>3, <4>2 DEF CreateOpenRecord, AttendanceTypeOK
    <3>4. ASSUME NEW r \in Taps,
                 \/ AnswerWithOpenRecord(r) \/ CloseOpenRecord(r)
                 \/ CloseStaleOpenRecords(r) \/ AbandonTap(r)
          PROVE  FALSE
      BY <1>2, <2>2, <3>4
      DEF AnswerWithOpenRecord, CloseOpenRecord, CloseStaleOpenRecords, AbandonTap, AttendanceTypeOK
    <3>5. tap'[s].at = LastMidnight(clock)
      BY <2>2, <3>1, <3>2, <3>3, <3>4
      DEF AttendanceNext, attendanceVars, LeaveStaff, ReturnToStaff, TimePasses
    <3> QED
      BY <1>1, <3>5, MidnightIsPast
  <2> QED
    BY <2>1, <2>2
<1> QED
  BY <1>2 DEF CutoffsArePast, LastMidnight

\* What the system has ended it has ended at a midnight.
LEMMA SystemEndsStep ==
  SystemEndsAtMidnight /\ CutoffsArePast /\ AttendanceTypeOK /\ [AttendanceNext]_attendanceVars
    => SystemEndsAtMidnight'
<1> SUFFICES ASSUME SystemEndsAtMidnight, CutoffsArePast, AttendanceTypeOK,
                    [AttendanceNext]_attendanceVars,
                    NEW id \in Records, record'[id] # Empty, record'[id].by = "system"
             PROVE  /\ record'[id].out = LastMidnight(record'[id].out)
                    /\ record'[id].in < record'[id].out
                    /\ record'[id].out <= clock'
  BY DEF SystemEndsAtMidnight, LastMidnight
<1>1. clock \in Nat /\ clock' \in Nat /\ clock <= clock'
  BY ClockMovesOn
<1>2. CASE record'[id] = record[id]
  <2>1. record[id].out \in Nat
    BY <1>2, RowHasItsConstraints, AttendanceAssumption
  <2> QED
    BY <1>1, <1>2, <2>1 DEF SystemEndsAtMidnight
<1>3. CASE record'[id] # record[id]
  <2>1. PICK s \in Taps : CloseStaleOpenRecords(s)
    <3>1. ASSUME NEW s \in Taps, CreateOpenRecord(s) PROVE FALSE
      BY <1>3, <3>1, AttendanceAssumption DEF CreateOpenRecord, AttendanceTypeOK
    <3>2. ASSUME NEW s \in Taps, CloseOpenRecord(s) PROVE FALSE
      <4>1. id \in OpenRecords(tap[s].emp)
            /\ record'[id] = [record[id] EXCEPT !.out = LaterOf(tap[s].at, record[id].in), !.by = "employee"]
        BY <1>3, <3>2 DEF CloseOpenRecord
      <4>2. record[id] \in [emp : Clockers, in : Nat, out : Nat \cup {Empty},
                            by : {"employee", "system", Empty}]
        BY <4>1, RowHasItsConstraints DEF OpenRecords, RecordIsOpen
      <4> QED
        BY <4>1, <4>2
    <3> QED
      BY <1>3, <3>1, <3>2
      DEF AttendanceNext, attendanceVars, BeginClockIn, BeginClockOut, AnswerWithOpenRecord, BeginAutoClose,
          AbandonTap, LeaveStaff, ReturnToStaff, TimePasses
  <2>2. Stale(id, tap[s].at) /\ record'[id] = [record[id] EXCEPT !.out = tap[s].at, !.by = "system"]
    BY <1>3, <2>1 DEF CloseStaleOpenRecords
  <2>3. record[id] \in [emp : Clockers, in : Nat, out : Nat \cup {Empty},
                        by : {"employee", "system", Empty}]
    BY <2>2, RowHasItsConstraints DEF Stale, RecordIsOpen
  <2>4. record'[id].out = tap[s].at /\ record'[id].in = record[id].in /\ record[id].in < tap[s].at
    BY <2>2, <2>3 DEF Stale
  <2>5. tap[s].at \in Nat /\ tap[s].at = LastMidnight(tap[s].at) /\ tap[s].at <= clock
    BY <2>1, TapHasAMoment DEF CloseStaleOpenRecords, CutoffsArePast
  <2> QED
    BY <1>1, <2>4, <2>5
<1> QED
  BY <1>2, <1>3

\* The system ends a record at a midnight after its start that has passed.
THEOREM MidnightEnds == AttendanceSpec => []SystemEndsAtMidnight
<1>1. AttendanceInit => CutoffsArePast /\ SystemEndsAtMidnight
  BY DEF AttendanceInit, CutoffsArePast, SystemEndsAtMidnight
<1> QED
  BY <1>1, CutoffsStep, SystemEndsStep, TypeCorrect, PTL DEF AttendanceSpec

-----------------------------------------------------------------------------
(***************************************************************************)
(* Frozen figures, for any number of tasks, people, quarters and nightly   *)
(* runs that overlap: FrozenFiguresStand.                                  *)
(*                                                                         *)
(* A run works out its rows long before it commits them.  They are still   *)
(* right at the commit because nobody else has worked on that quarter in   *)
(* between: two runs never hold rows of the same quarter, and what a run   *)
(* holds leaves every frozen row as it is.                                 *)
(***************************************************************************)

\* The tables have a row for each quarter, and a run its fields: it works on the rows
\* of people and of the department together.
NightsAreSound ==
  /\ DOMAIN card = Quarters /\ DOMAIN board = Quarters /\ DOMAIN story = Quarters
  /\ night = [n \in Nights |-> night[n]]
  /\ \A n \in Nights : night[n] # NoRow =>
       /\ night[n] = [now |-> night[n].now, overtaken |-> night[n].overtaken, tally |-> night[n].tally,
                      card |-> night[n].card, board |-> night[n].board, todo |-> night[n].todo]
       /\ DOMAIN night[n].board = DOMAIN night[n].card

\* Two runs do not hold the same quarter.
NobodyShares ==
  \A n, m \in Nights, q \in Quarters :
    night[n] # NoRow /\ night[m] # NoRow /\ q \in DOMAIN night[n].card /\ q \in DOMAIN night[m].card
      => n = m

\* What a run holds leaves frozen rows as they are.
FrozenIsKept ==
  \A n \in Nights, q \in Quarters : night[n] # NoRow /\ q \in DOMAIN night[n].card =>
    /\ board[q] # NoRow /\ board[q].final => night[n].board[q] = board[q]
    /\ \A h \in Holders : card[q][h] # NoRow /\ card[q][h].final => night[n].card[q][h] = card[q][h]

ScoringInvariant == NightsAreSound /\ NobodyShares /\ FrozenIsKept

\* A row that is frozen is refreshed to itself.
LEMMA FrozenIsNotRefreshed ==
  ASSUME NEW row, row # NoRow, row.final, NEW marks, NEW final
  PROVE  Refreshed(row, marks, final) = row
BY DEF Refreshed

\* One run changes, and the tables do not.
LEMMA OneRunMoves ==
  ASSUME ScoringInvariant, UNCHANGED <<card, board, story>>, NEW n \in Nights,
         night' = [m \in Nights |-> night'[m]], \A m \in Nights \ {n} : night'[m] = night[m],
         night'[n] # NoRow =>
           /\ night'[n] = [now |-> night'[n].now, overtaken |-> night'[n].overtaken,
                           tally |-> night'[n].tally, card |-> night'[n].card,
                           board |-> night'[n].board, todo |-> night'[n].todo]
           /\ DOMAIN night'[n].board = DOMAIN night'[n].card,
         night'[n] # NoRow => \A q \in Quarters : q \in DOMAIN night'[n].card =>
           /\ \A m \in Nights \ {n} : night[m] # NoRow => q \notin DOMAIN night[m].card
           /\ board[q] # NoRow /\ board[q].final => night'[n].board[q] = board[q]
           /\ \A h \in Holders : card[q][h] # NoRow /\ card[q][h].final => night'[n].card[q][h] = card[q][h]
  PROVE  ScoringInvariant'
<1>1. NightsAreSound'
  BY DEF ScoringInvariant, NightsAreSound
<1>2. NobodyShares'
  BY DEF ScoringInvariant, NobodyShares
<1>3. FrozenIsKept'
  BY DEF ScoringInvariant, FrozenIsKept
<1> QED
  BY <1>1, <1>2, <1>3 DEF ScoringInvariant

\* What the invariant says of one quarter of one run.
LEMMA HeldRowsAreSound ==
  ASSUME ScoringInvariant, NEW n \in Nights, night[n] # NoRow, NEW q \in Quarters, q \in DOMAIN night[n].card
  PROVE  /\ \A m \in Nights \ {n} : night[m] # NoRow => q \notin DOMAIN night[m].card
         /\ board[q] # NoRow /\ board[q].final => night[n].board[q] = board[q]
         /\ \A h \in Holders : card[q][h] # NoRow /\ card[q][h].final => night[n].card[q][h] = card[q][h]
<1>1. \A m \in Nights \ {n} : night[m] # NoRow => q \notin DOMAIN night[m].card
  BY DEF ScoringInvariant, NobodyShares
<1>2. board[q] # NoRow /\ board[q].final => night[n].board[q] = board[q]
  BY DEF ScoringInvariant, FrozenIsKept
<1>3. ASSUME NEW h \in Holders, card[q][h] # NoRow, card[q][h].final
      PROVE  night[n].card[q][h] = card[q][h]
  BY <1>3 DEF ScoringInvariant, FrozenIsKept
<1> QED
  BY <1>1, <1>2, <1>3

\* A run takes up a quarter that nobody else holds, and refreshes what is not frozen.
LEMMA SaveMarksStep ==
  ASSUME ScoringInvariant, NEW n \in Nights, SaveMarks(n)
  PROVE  ScoringInvariant'
<1> DEFINE x     == Head(night[n].todo).of
           found == MarkedTasks(job, x, night[n].now)
           Of(h) == {m \in found : job[m[1]].who = h}
           cards == [h \in Holders |-> IF card[x][h] = NoRow /\ Of(h) = {} THEN NoRow
                                       ELSE Refreshed(card[x][h], Of(h), Closes(n, x))]
           row   == Refreshed(board[x], found, Closes(n, x))
           todo  == Tail(night[n].todo)
<1>1a. /\ night[n] # NoRow /\ ~Waits(n, x, "card")
       /\ night' = [night EXCEPT ![n].card = With(@, x, cards), ![n].board = With(@, x, row),
                                 ![n].todo = Tail(@)]
       /\ UNCHANGED <<card, board, story>>
  BY DEF SaveMarks, Due, scoreTables
<1>1b. ASSUME NEW h \in Holders, card[x][h] # NoRow, card[x][h].final PROVE cards[h] = card[x][h]
  BY <1>1b, FrozenIsNotRefreshed
<1>1c. board[x] # NoRow /\ board[x].final => row = board[x]
  BY FrozenIsNotRefreshed
<1>2. /\ night[n] = [now |-> night[n].now, overtaken |-> night[n].overtaken, tally |-> night[n].tally,
                     card |-> night[n].card, board |-> night[n].board, todo |-> night[n].todo]
      /\ DOMAIN night[n].board = DOMAIN night[n].card
  BY <1>1a DEF ScoringInvariant, NightsAreSound
<1> HIDE DEF x, cards, row
<1>3. /\ night' = [m \in Nights |-> night'[m]]
      /\ \A m \in Nights \ {n} : night'[m] = night[m]
      /\ night'[n] = [night[n] EXCEPT !.card = With(@, x, cards), !.board = With(@, x, row), !.todo = todo]
  BY <1>1a, <1>2 DEF ScoringInvariant, NightsAreSound
<1>4. night'[n] = [now |-> night[n].now, overtaken |-> night[n].overtaken, tally |-> night[n].tally,
                   card |-> With(night[n].card, x, cards), board |-> With(night[n].board, x, row),
                   todo |-> todo]
  BY <1>2, <1>3
<1>5. /\ night'[n].card = With(night[n].card, x, cards) /\ night'[n].board = With(night[n].board, x, row)
      /\ night'[n].now = night[n].now /\ night'[n].overtaken = night[n].overtaken
      /\ night'[n].tally = night[n].tally /\ night'[n].todo = todo
  BY <1>4
<1>6. /\ DOMAIN With(night[n].card, x, cards) = DOMAIN night[n].card \cup {x}
      /\ DOMAIN With(night[n].board, x, row) = DOMAIN night[n].card \cup {x}
      /\ With(night[n].card, x, cards)[x] = cards /\ With(night[n].board, x, row)[x] = row
      /\ \A q \in DOMAIN night[n].card : q # x =>
           With(night[n].card, x, cards)[q] = night[n].card[q] /\ With(night[n].board, x, row)[q] = night[n].board[q]
  BY <1>2 DEF With
<1>7. \A m \in Nights \ {n} : night[m] # NoRow => x \notin DOMAIN night[m].card
  BY <1>1a DEF Waits
<1>8. ASSUME NEW q \in Quarters, q \in DOMAIN night'[n].card
      PROVE  /\ \A m \in Nights \ {n} : night[m] # NoRow => q \notin DOMAIN night[m].card
             /\ board[q] # NoRow /\ board[q].final => night'[n].board[q] = board[q]
             /\ \A h \in Holders : card[q][h] # NoRow /\ card[q][h].final => night'[n].card[q][h] = card[q][h]
  <2>1. CASE q = x
    <3>1. night'[n].board[q] = row /\ night'[n].card[q] = cards
      BY <1>5, <1>6, <2>1
    <3>2. board[q] # NoRow /\ board[q].final => night'[n].board[q] = board[q]
      BY <1>1c, <2>1, <3>1
    <3>3. ASSUME NEW h \in Holders, card[q][h] # NoRow, card[q][h].final
          PROVE  night'[n].card[q][h] = card[q][h]
      <4>1. card[x][h] # NoRow /\ card[x][h].final
        BY <2>1, <3>3
      <4>2. cards[h] = card[x][h]
        BY <4>1, <1>1b
      <4> QED
        BY <2>1, <3>1, <4>2
    <3> QED
      BY <1>7, <2>1, <3>2, <3>3
  <2>2. CASE q # x
    <3>1. q \in DOMAIN night[n].card
          /\ night'[n].card[q] = night[n].card[q] /\ night'[n].board[q] = night[n].board[q]
      BY <1>5, <1>6, <1>8, <2>2
    <3>2. /\ \A m \in Nights \ {n} : night[m] # NoRow => q \notin DOMAIN night[m].card
          /\ board[q] # NoRow /\ board[q].final => night[n].board[q] = board[q]
          /\ \A h \in Holders : card[q][h] # NoRow /\ card[q][h].final => night[n].card[q][h] = card[q][h]
      BY <1>1a, <3>1, HeldRowsAreSound
    <3>3. night'[n].card[q] = night[n].card[q] /\ night'[n].board[q] = night[n].board[q]
      BY <3>1
    <3>4. ASSUME NEW h \in Holders, card[q][h] # NoRow, card[q][h].final
          PROVE  night'[n].card[q][h] = card[q][h]
      BY <3>2, <3>3, <3>4
    <3>5. board[q] # NoRow /\ board[q].final => night'[n].board[q] = board[q]
      BY <3>2, <3>3
    <3> QED
      BY <3>2, <3>4, <3>5
  <2> QED
    BY <2>1, <2>2
<1>9. DOMAIN night'[n].board = DOMAIN night'[n].card
  BY <1>5, <1>6
<1>10. night'[n] = [now |-> night'[n].now, overtaken |-> night'[n].overtaken, tally |-> night'[n].tally,
                    card |-> night'[n].card, board |-> night'[n].board, todo |-> night'[n].todo]
  BY <1>4, <1>5
<1> QED
  BY <1>1a, <1>3, <1>8, <1>9, <1>10, OneRunMoves

\* What a commit does: the quarters the run holds get its rows, and the others keep
\* theirs; and so a frozen row stays.
LEMMA CommitNightRows ==
  ASSUME ScoringInvariant, NEW n \in Nights, CommitNight(n)
  PROVE  /\ night[n] # NoRow /\ DOMAIN board' = Quarters /\ DOMAIN card' = Quarters
         /\ \A q \in Quarters : q \notin DOMAIN night[n].card => board'[q] = board[q] /\ card'[q] = card[q]
         /\ \A q \in Quarters : board[q] # NoRow /\ board[q].final => board'[q] = board[q]
         /\ \A q \in Quarters, h \in Holders :
              card[q][h] # NoRow /\ card[q][h].final => card'[q][h] = card[q][h]
<1>1. /\ night[n] # NoRow
      /\ card' = Merged(card, night[n].card) /\ board' = Merged(board, night[n].board)
  BY DEF CommitNight
<1>2. DOMAIN card = Quarters /\ DOMAIN board = Quarters /\ DOMAIN night[n].board = DOMAIN night[n].card
  BY <1>1 DEF ScoringInvariant, NightsAreSound
<1>3. /\ DOMAIN board' = Quarters /\ DOMAIN card' = Quarters
      /\ \A q \in Quarters :
           /\ board'[q] = IF q \in DOMAIN night[n].card THEN night[n].board[q] ELSE board[q]
           /\ card'[q] = IF q \in DOMAIN night[n].card THEN night[n].card[q] ELSE card[q]
  BY <1>1, <1>2 DEF Merged
<1> QED
  BY <1>1, <1>3 DEF ScoringInvariant, FrozenIsKept

\* The other runs hold other quarters, whose rows a commit leaves alone.
LEMMA CommitNightStep ==
  ASSUME ScoringInvariant, NEW n \in Nights, CommitNight(n)
  PROVE  ScoringInvariant'
<1>1. /\ night' = [m \in Nights |-> IF m = n \/ night[m] = NoRow THEN NoRow
                                    ELSE [night[m] EXCEPT !.overtaken = TRUE]]
      /\ UNCHANGED story
  BY DEF CommitNight
<1>2. ASSUME NEW m \in Nights, night'[m] # NoRow
      PROVE  /\ m # n /\ night[m] # NoRow
             /\ night'[m].card = night[m].card /\ night'[m].board = night[m].board
             /\ night'[m] = [now |-> night'[m].now, overtaken |-> night'[m].overtaken, tally |-> night'[m].tally,
                             card |-> night'[m].card, board |-> night'[m].board, todo |-> night'[m].todo]
  <2>1. m # n /\ night[m] # NoRow /\ night'[m] = [night[m] EXCEPT !.overtaken = TRUE]
    BY <1>1, <1>2
  <2>2. night[m] = [now |-> night[m].now, overtaken |-> night[m].overtaken, tally |-> night[m].tally,
                    card |-> night[m].card, board |-> night[m].board, todo |-> night[m].todo]
    BY <2>1 DEF ScoringInvariant, NightsAreSound
  <2>3. night'[m] = [now |-> night[m].now, overtaken |-> TRUE, tally |-> night[m].tally,
                     card |-> night[m].card, board |-> night[m].board, todo |-> night[m].todo]
    BY <2>1, <2>2
  <2>4. /\ night'[m].card = night[m].card /\ night'[m].board = night[m].board
        /\ night'[m].now = night[m].now /\ night'[m].overtaken = TRUE
        /\ night'[m].tally = night[m].tally /\ night'[m].todo = night[m].todo
    BY <2>3
  <2>5. night'[m] = [now |-> night'[m].now, overtaken |-> night'[m].overtaken, tally |-> night'[m].tally,
                     card |-> night'[m].card, board |-> night'[m].board, todo |-> night'[m].todo]
    BY <2>3, <2>4
  <2> QED
    BY <2>1, <2>4, <2>5
<1>3. /\ night[n] # NoRow /\ DOMAIN board' = Quarters /\ DOMAIN card' = Quarters
      /\ \A q \in Quarters : q \notin DOMAIN night[n].card => board'[q] = board[q] /\ card'[q] = card[q]
  BY CommitNightRows
<1>4. \A m \in Nights, q \in Quarters : night'[m] # NoRow /\ q \in DOMAIN night'[m].card =>
        q \notin DOMAIN night[n].card
  BY <1>2, <1>3 DEF ScoringInvariant, NobodyShares
<1>5. NightsAreSound'
  <2>1. night' = [m \in Nights |-> night'[m]]
    BY <1>1
  <2>2. \A m \in Nights : night'[m] # NoRow => DOMAIN night'[m].board = DOMAIN night'[m].card
    BY <1>2 DEF ScoringInvariant, NightsAreSound
  <2> QED
    BY <1>1, <1>2, <1>3, <2>1, <2>2 DEF ScoringInvariant, NightsAreSound
<1>6. NobodyShares'
  BY <1>2 DEF ScoringInvariant, NobodyShares
<1>7. FrozenIsKept'
  <2> SUFFICES ASSUME NEW m \in Nights, NEW q \in Quarters, night'[m] # NoRow, q \in DOMAIN night'[m].card
               PROVE  /\ board'[q] # NoRow /\ board'[q].final => night'[m].board[q] = board'[q]
                      /\ \A h \in Holders : card'[q][h] # NoRow /\ card'[q][h].final
                                              => night'[m].card[q][h] = card'[q][h]
    BY DEF FrozenIsKept
  <2>1. night[m] # NoRow /\ night'[m].card = night[m].card /\ night'[m].board = night[m].board
    BY <1>2
  <2>2. board'[q] = board[q] /\ card'[q] = card[q]
    BY <1>3, <1>4
  <2>3. /\ board[q] # NoRow /\ board[q].final => night[m].board[q] = board[q]
        /\ \A h \in Holders : card[q][h] # NoRow /\ card[q][h].final => night[m].card[q][h] = card[q][h]
    BY <2>1, HeldRowsAreSound
  <2>4. board'[q] # NoRow /\ board'[q].final => night'[m].board[q] = board'[q]
    BY <2>1, <2>2, <2>3
  <2>5. ASSUME NEW h \in Holders, card'[q][h] # NoRow, card'[q][h].final
        PROVE  night'[m].card[q][h] = card'[q][h]
    <3>1. card[q][h] # NoRow /\ card[q][h].final
      BY <2>2, <2>5
    <3> QED
      BY <2>1, <2>2, <2>3, <3>1
  <2> QED
    BY <2>4, <2>5
<1> QED
  BY <1>5, <1>6, <1>7 DEF ScoringInvariant

\* Every step keeps the invariant.
LEMMA ScoringStep == ScoringInvariant /\ [ScoringNext]_scoringVars => ScoringInvariant'
<1> SUFFICES ASSUME ScoringInvariant, [ScoringNext]_scoringVars PROVE ScoringInvariant'
  OBVIOUS
<1>1. ASSUME NEW n \in Nights, BeginNight(n) PROVE ScoringInvariant'
  <2>1. PICK todo :
          /\ night' = [night EXCEPT ![n] =
               [now |-> hour, overtaken |-> FALSE, tally |-> <<>>, card |-> <<>>, board |-> <<>>,
                todo |-> todo]]
          /\ UNCHANGED <<card, board, story>>
    BY <1>1 DEF BeginNight, scoreTables
  <2>2. /\ night' = [m \in Nights |-> night'[m]]
        /\ \A m \in Nights \ {n} : night'[m] = night[m]
        /\ night'[n] = [now |-> hour, overtaken |-> FALSE, tally |-> <<>>, card |-> <<>>, board |-> <<>>,
                        todo |-> todo]
    BY <2>1 DEF ScoringInvariant, NightsAreSound
  <2>3. \A q \in Quarters : q \notin DOMAIN <<>>
    OBVIOUS
  <2>4. night'[n].card = <<>> /\ night'[n].board = <<>> /\ night'[n].todo = todo
        /\ night'[n].now = hour /\ night'[n].overtaken = FALSE /\ night'[n].tally = <<>>
    BY <2>2
  <2> QED
    BY <2>1, <2>2, <2>3, <2>4, OneRunMoves
<1>2. ASSUME NEW n \in Nights, SaveTaskCount(n) PROVE ScoringInvariant'
  <2>1. PICK tallies, todo :
          /\ night[n] # NoRow
          /\ night' = [night EXCEPT ![n].tally = tallies, ![n].todo = todo]
          /\ UNCHANGED <<card, board, story>>
    BY <1>2 DEF SaveTaskCount, Due, scoreTables
  <2>2. /\ night[n] = [now |-> night[n].now, overtaken |-> night[n].overtaken, tally |-> night[n].tally,
                       card |-> night[n].card, board |-> night[n].board, todo |-> night[n].todo]
        /\ DOMAIN night[n].board = DOMAIN night[n].card
    BY <2>1 DEF ScoringInvariant, NightsAreSound
  <2>3. /\ night' = [m \in Nights |-> night'[m]]
        /\ \A m \in Nights \ {n} : night'[m] = night[m]
        /\ night'[n] = [night[n] EXCEPT !.tally = tallies, !.todo = todo]
    BY <2>1 DEF ScoringInvariant, NightsAreSound
  <2>4. night'[n] = [now |-> night[n].now, overtaken |-> night[n].overtaken, tally |-> tallies,
                     card |-> night[n].card, board |-> night[n].board, todo |-> todo]
    BY <2>2, <2>3
  <2>5. /\ night'[n].card = night[n].card /\ night'[n].board = night[n].board /\ night'[n].todo = todo
        /\ night'[n].now = night[n].now /\ night'[n].overtaken = night[n].overtaken
        /\ night'[n].tally = tallies
    BY <2>4
  <2>6. ASSUME NEW q \in Quarters, q \in DOMAIN night'[n].card
        PROVE  /\ \A m \in Nights \ {n} : night[m] # NoRow => q \notin DOMAIN night[m].card
               /\ board[q] # NoRow /\ board[q].final => night'[n].board[q] = board[q]
               /\ \A h \in Holders : card[q][h] # NoRow /\ card[q][h].final => night'[n].card[q][h] = card[q][h]
    <3>1. q \in DOMAIN night[n].card
      BY <2>5, <2>6
    <3>2. /\ \A m \in Nights \ {n} : night[m] # NoRow => q \notin DOMAIN night[m].card
          /\ board[q] # NoRow /\ board[q].final => night[n].board[q] = board[q]
          /\ \A h \in Holders : card[q][h] # NoRow /\ card[q][h].final => night[n].card[q][h] = card[q][h]
      BY <2>1, <3>1, HeldRowsAreSound
    <3>3. night'[n].card[q] = night[n].card[q] /\ night'[n].board[q] = night[n].board[q]
      BY <2>5
    <3>4. ASSUME NEW h \in Holders, card[q][h] # NoRow, card[q][h].final
          PROVE  night'[n].card[q][h] = card[q][h]
      BY <3>2, <3>3, <3>4
    <3>5. board[q] # NoRow /\ board[q].final => night'[n].board[q] = board[q]
      BY <3>2, <3>3
    <3> QED
      BY <3>2, <3>4, <3>5
  <2>7. DOMAIN night'[n].board = DOMAIN night'[n].card
    BY <2>2, <2>5
  <2>8. night'[n] = [now |-> night'[n].now, overtaken |-> night'[n].overtaken, tally |-> night'[n].tally,
                     card |-> night'[n].card, board |-> night'[n].board, todo |-> night'[n].todo]
    BY <2>4, <2>5
  <2> QED
    BY <2>1, <2>3, <2>6, <2>7, <2>8, OneRunMoves
<1>3. ASSUME NEW n \in Nights, AbandonNight(n) PROVE ScoringInvariant'
  <2>1. night' = [m \in Nights |-> night'[m]] /\ night'[n] = NoRow
        /\ \A m \in Nights \ {n} : night'[m] = night[m]
    BY <1>3 DEF AbandonNight, ScoringInvariant, NightsAreSound
  <2> QED
    BY <1>3, <2>1, OneRunMoves DEF AbandonNight, scoreTables
<1>4. ASSUME NEW n \in Nights, SaveMarks(n) PROVE ScoringInvariant'
  BY <1>4, SaveMarksStep
<1>5. ASSUME NEW n \in Nights, CommitNight(n) PROVE ScoringInvariant'
  BY <1>5, CommitNightStep
<1>6. ASSUME UNCHANGED <<card, board, night>>, DOMAIN story' = Quarters PROVE ScoringInvariant'
  BY <1>6 DEF ScoringInvariant, NightsAreSound, NobodyShares, FrozenIsKept
<1>7. DOMAIN story = Quarters
  BY DEF ScoringInvariant, NightsAreSound
<1>8. ASSUME FinishStory PROVE ScoringInvariant'
  BY <1>6, <1>7, <1>8 DEF FinishStory
<1> QED
  BY <1>1, <1>2, <1>3, <1>4, <1>5, <1>6, <1>7, <1>8
  DEF ScoringNext, scoringVars, CompleteJob, CancelJob, HoldJob, ReassignJob, MoveDeadline, ReviewHold,
      ChangeTask, SetJob, HourPasses, BeginStory, scoreTables, workers

\* A step leaves frozen rows as they are.
LEMMA FrozenFiguresStep ==
  ASSUME ScoringInvariant, [ScoringNext]_scoringVars, NEW q \in Quarters
  PROVE  /\ board[q] # NoRow /\ board[q].final => board'[q] = board[q]
         /\ story[q] # NoRow /\ story[q].final => story'[q] = story[q]
         /\ \A h \in Holders : card[q][h] # NoRow /\ card[q][h].final => card'[q][h] = card[q][h]
<1>1. ASSUME NEW n \in Nights, CommitNight(n)
      PROVE  /\ board[q] # NoRow /\ board[q].final => board'[q] = board[q]
             /\ story'[q] = story[q]
             /\ \A h \in Holders : card[q][h] # NoRow /\ card[q][h].final => card'[q][h] = card[q][h]
  BY <1>1, CommitNightRows DEF CommitNight
<1>2. ASSUME FinishStory, story[q] # NoRow, story[q].final PROVE story'[q] = story[q]
  BY <1>2, FrozenIsNotRefreshed DEF FinishStory, ScoringInvariant, NightsAreSound
<1> QED
  BY <1>1, <1>2
  DEF ScoringNext, scoringVars, CompleteJob, CancelJob, HoldJob, ReassignJob, MoveDeadline, ReviewHold,
      ChangeTask, SetJob, HourPasses, BeginStory, FinishStory, BeginNight, SaveTaskCount, SaveMarks,
      AbandonNight, scoreTables, workers

\* A closed quarter stays as it was closed, whatever nightly runs overlap, are given
\* up, retried or late, and whatever becomes of the tasks.
THEOREM ClosedQuartersStand == ScoringSpec => FrozenFiguresStand
<1>1. ScoringInit => ScoringInvariant
  BY DEF ScoringInit, ScoringInvariant, NightsAreSound, NobodyShares, FrozenIsKept
<1>2. ScoringInvariant /\ [ScoringNext]_scoringVars =>
        [\A q \in Quarters :
           /\ board[q] # NoRow /\ board[q].final => board'[q] = board[q]
           /\ story[q] # NoRow /\ story[q].final => story'[q] = story[q]
           /\ \A h \in Holders : card[q][h] # NoRow /\ card[q][h].final
                                   => card'[q][h] = card[q][h]]_scoringVars
  BY FrozenFiguresStep
<1> QED
  BY <1>1, <1>2, ScoringStep, PTL DEF ScoringSpec, FrozenFiguresStand

-----------------------------------------------------------------------------
(* KPIs. *)

\* What the requests of KPIs and of their figures are about to write.
KpiTodo ==
  [op : {"create", "update"}, k : Kpi, w : Weights]
    \cup [op : {"reconcile"}, list : Submissions,
          gone : SUBSET Kpi, new : SUBSET Kpi, same : SUBSET Kpi]
    \cup [op : {"score"}, k : Kpi, p : Periods, a : Amounts, row : SUBSET Figures]

KpiRequest == [overtaken : BOOLEAN, todo : KpiTodo]

\* The KPIs in force in a version t of the table, and what all but X of them weigh.
LiveIn(t)       == {k \in Kpi : t[k] # Unset /\ t[k].live}
WeightIn(t)     == [k \in Kpi |-> t[k].weight]
GroupSum(t, X)  == SumOver(WeightIn(t), LiveIn(t) \ X)

\* What a list names the KPIs with, all in all.
Asked(list) == [k \in Kpi |-> list[k].weight + list[k].before]

\* Rows that a request is about to change are there.
NamesRows(r) ==
  /\ r.op = "update" => kpi[r.k] # Unset
  /\ r.op = "reconcile" => 
       /\ r.new \subseteq DOMAIN r.list
       /\ \A k \in (DOMAIN r.list \ r.new) \cup r.gone : kpi[k] # Unset

\* What a request that nobody has overtaken has checked is still so.
StillHolds(r) ==
  /\ r.op = "create" => GroupSum(kpi, {r.k}) * Grain + r.w <= Whole * Grain
  /\ r.op = "update" => r.k \in KpisInGroup /\ GroupSum(kpi, {r.k}) * Grain + r.w <= Whole * Grain
  /\ r.op = "reconcile" =>
       /\ SumOver(Asked(r.list), DOMAIN r.list) = Whole * Grain
       /\ DOMAIN r.list \subseteq KpisInGroup \cup r.new
       /\ r.gone = KpisInGroup \ DOMAIN r.list
       /\ \A k \in r.same \ r.new : kpi[k].weight * Grain = r.list[k].weight
  /\ r.op = "score" => r.row = FiguresFor(r.k, r.p) /\ PeriodIsOpen(r.p)

\* A KPI has one figure for a period.
OneFigureEach ==
  \A f, g \in Figures :
    figure[f] # Unset /\ figure[g] # Unset /\ figure[f].kpi = figure[g].kpi
      /\ figure[f].period = figure[g].period => f = g

\* The invariant: the types; what the requests have checked; and, as long as no two
\* requests have raced, that no figure is there twice.
KpiInvariant ==
  /\ KpiTypeOK
  /\ planner \in [Planners -> KpiRequest \cup {Unset}]
  /\ \A s \in Planners : planner[s] # Unset =>
       /\ NamesRows(planner[s].todo)
       /\ ~planner[s].overtaken => StillHolds(planner[s].todo)
  /\ ~kpiRaced => OneFigureEach

\* The weights that the code adds up are those sums.
LEMMA WeightsAreSums ==
  ASSUME NEW CONSTANT X
  PROVE  SumWeights(X) = GroupSum(kpi, X) /\ SumWeights(X)' = GroupSum(kpi', X)
<1>1. SumWeights(X) = GroupSum(kpi, X)
  BY DEF SumWeights, GroupSum, KpisInGroup, LiveIn, WeightIn, SumOver, MapThenSumSet, MapThenFoldSet
<1>2. SumWeights(X)' = GroupSum(kpi', X)
  BY DEF SumWeights, GroupSum, KpisInGroup, LiveIn, WeightIn, SumOver, MapThenSumSet, MapThenFoldSet
<1> QED BY <1>1, <1>2

\* What is kept of a weight is a number, and the half of a kept unit at most from it.
LEMMA StoredIsClose ==
  ASSUME NEW w \in Int
  PROVE  /\ Stored(w) \in Int
         /\ (2 * Grain) * Stored(w) <= 2 * w + Grain
         /\ 2 * w - Grain <= (2 * Grain) * Stored(w)
<1> DEFINE d == 2 * Grain
<1>1. d \in Nat \ {0} /\ Grain \in Nat
  BY KpiAssumption
<1>2. CASE w >= 0
  <2> DEFINE q == (2 * w + Grain) \div d
  <2>1. q \in Int /\ d * q <= 2 * w + Grain /\ 2 * w + Grain < d * q + d
    <3> 2 * w + Grain \in Int
      BY <1>1
    <3> HIDE DEF d
    <3> QED BY <1>1, Quotient
  <2>2. Stored(w) = q
    BY <1>2 DEF Stored
  <2>3. d * q \in Int /\ d = 2 * Grain
    BY <1>1, <2>1
  <2> HIDE DEF q, d
  <2> QED BY <1>1, <2>1, <2>2, <2>3
<1>3. CASE w < 0
  <2> DEFINE q == (Grain - 2 * w) \div d
  <2>1. q \in Int /\ d * q <= Grain - 2 * w /\ Grain - 2 * w < d * q + d
    <3> Grain - 2 * w \in Int
      BY <1>1
    <3> HIDE DEF d
    <3> QED BY <1>1, Quotient
  <2>2. Stored(w) = 0 - q
    BY <1>3 DEF Stored
  <2>3. d * q \in Int /\ d * (0 - q) = 0 - d * q /\ d = 2 * Grain
    BY <1>1, <2>1
  <2> HIDE DEF q, d
  <2> QED BY <1>1, <2>1, <2>2, <2>3
<1> QED BY <1>2, <1>3

\* A check of the weight that is asked for is good for the one that is kept.
LEMMA StoredFits ==
  ASSUME NEW e \in Int, NEW w \in Int, e * Grain + w <= Whole * Grain
  PROVE  e + Stored(w) <= Whole
<1>1. Grain \in Nat \ {0} /\ Whole \in Int
  BY KpiAssumption
<1>2. PICK n \in Int : n = Stored(w)
  BY StoredIsClose
<1>3. (2 * Grain) * n <= 2 * w + Grain
  BY <1>2, StoredIsClose
<1>4. /\ (2 * Grain) * n = 2 * (Grain * n) /\ Grain * (2 * (n + e - Whole)) = 2 * (Grain * n) + 2 * (e * Grain) - 2 * (Whole * Grain)
      /\ Grain * n \in Int /\ e * Grain \in Int /\ Whole * Grain \in Int
  BY <1>1
<1>5. Grain * (2 * (n + e - Whole)) <= Grain * 1
  BY <1>1, <1>3, <1>4
<1>6. 2 * (n + e - Whole) <= 1
  <2>1. 2 * (n + e - Whole) \in Int /\ 1 \in Int
    BY <1>1
  <2> QED BY <1>1, <1>5, <2>1, Cancels
<1> QED BY <1>1, <1>2, <1>6

\* Kept weights are numbers.
LEMMA RowWeightIsInt ==
  ASSUME NEW row \in KpiRow
  PROVE  row.weight \in Int
<1>1. PICK w \in Weights : row.weight = Stored(w)
  BY DEF KpiRow
<1>2. w \in Int
  BY KpiAssumption
<1> QED BY <1>1, <1>2, StoredIsClose

\* One KPI is given a weight: the sum is what the check added up.
LEMMA WeightReplaced ==
  ASSUME NEW t \in [Kpi -> KpiRow \cup {Unset}], NEW u \in [Kpi -> KpiRow \cup {Unset}],
         NEW k \in LiveIn(u), LiveIn(u) \ {k} = LiveIn(t) \ {k},
         \A j \in LiveIn(t) \ {k} : u[j].weight = t[j].weight
  PROVE  GroupSum(u, {}) = u[k].weight + GroupSum(t, {k})
<1>1. IsFiniteSet(LiveIn(u)) /\ IsFiniteSet(LiveIn(t) \ {k})
  BY KpiAssumption, FS_Subset DEF LiveIn
<1>2. /\ \A x \in LiveIn(u) : WeightIn(u)[x] \in Int
      /\ WeightIn(u)[k] = u[k].weight
  <2>1. \A x \in LiveIn(u) : x \in Kpi /\ u[x] \in KpiRow
    BY DEF LiveIn
  <2>2. \A x \in LiveIn(u) : WeightIn(u)[x] = u[x].weight
    BY <2>1 DEF WeightIn
  <2> QED BY <2>1, <2>2, RowWeightIsInt
<1>3. SumOver(WeightIn(u), LiveIn(u)) = WeightIn(u)[k] + SumOver(WeightIn(u), LiveIn(u) \ {k})
  BY <1>1, <1>2, SumRemove
<1>4. SumOver(WeightIn(u), LiveIn(t) \ {k}) = SumOver(WeightIn(t), LiveIn(t) \ {k})
  <2>1. \A x \in LiveIn(t) \ {k} : WeightIn(u)[x] = WeightIn(t)[x]
    BY DEF LiveIn, WeightIn
  <2> QED BY <1>1, <2>1, SumsAgree
<1>5. LiveIn(u) \ {} = LiveIn(u)
  OBVIOUS
<1> QED BY <1>2, <1>3, <1>4, <1>5 DEF GroupSum

\* The sums are numbers.
LEMMA GroupSumIsInt ==
  ASSUME NEW t \in [Kpi -> KpiRow \cup {Unset}], NEW X
  PROVE  GroupSum(t, X) \in Int
<1>1. IsFiniteSet(LiveIn(t) \ X)
  BY KpiAssumption, FS_Subset DEF LiveIn
<1>2. \A x \in LiveIn(t) \ X : WeightIn(t)[x] = t[x].weight /\ t[x] \in KpiRow
  BY DEF LiveIn, WeightIn
<1>3. \A x \in LiveIn(t) \ X : WeightIn(t)[x] \in Int
  BY <1>2, RowWeightIsInt
<1> QED BY <1>1, <1>3, SumIsInt DEF GroupSum

\* A group that is replaced by a list weighs what the list asks for, but for what
\* rounding does to each of its KPIs.
LEMMA GroupReplaced ==
  ASSUME NEW u \in [Kpi -> KpiRow \cup {Unset}], NEW list \in Submissions,
         LiveIn(u) = DOMAIN list,
         SumOver(Asked(list), DOMAIN list) = Whole * Grain,
         \A k \in DOMAIN list :
           /\ list[k].before = 0
           /\ u[k].weight = Stored(list[k].weight) \/ u[k].weight * Grain = list[k].weight
  PROVE  /\ 2 * GroupSum(u, {}) <= 2 * Whole + Cardinality(LiveIn(u))
         /\ 2 * GroupSum(u, {}) >= 2 * Whole - Cardinality(LiveIn(u))
<1> DEFINE f == WeightIn(u)
           a == Asked(list)
           S == LiveIn(u)
<1>1. IsFiniteSet(S) /\ Cardinality(S) \in Nat
  <2>1. IsFiniteSet(S)
    BY KpiAssumption, FS_Subset DEF LiveIn
  <2> QED BY <2>1, FS_CardinalityType
<1>2. Grain \in Nat \ {0} /\ Whole \in Int
  BY KpiAssumption
<1>3. ASSUME NEW k \in S
      PROVE  /\ f[k] \in Int /\ a[k] \in Int
             /\ (2 * Grain) * f[k] <= 2 * a[k] + Grain
             /\ (0 - 2 * Grain) * f[k] <= (0 - 2) * a[k] + Grain
  <2>1. k \in Kpi /\ u[k] \in KpiRow /\ f[k] = u[k].weight
    BY DEF LiveIn, WeightIn
  <2>2. list[k].weight \in Int /\ list[k].before = 0
    <3>1. list[k] \in [weight : Weights, before : Repeats \cup {0}]
      BY DEF Submissions
    <3> QED BY <3>1, KpiAssumption
  <2>3. a[k] = list[k].weight
    BY <2>1, <2>2 DEF Asked
  <2>4. f[k] \in Int
    BY <2>1, RowWeightIsInt
  <2>5. (0 - 2 * Grain) * f[k] = 0 - (2 * Grain) * f[k] /\ (2 * Grain) * f[k] \in Int
        /\ (2 * Grain) * f[k] = 2 * (f[k] * Grain) /\ f[k] * Grain \in Int
    BY <1>2, <2>4
  <2>6. CASE u[k].weight = Stored(list[k].weight)
    <3>1. (2 * Grain) * f[k] <= 2 * a[k] + Grain /\ 2 * a[k] - Grain <= (2 * Grain) * f[k]
      BY <2>1, <2>2, <2>3, <2>6, StoredIsClose
    <3> HIDE DEF f, a
    <3> QED BY <1>2, <2>2, <2>3, <2>4, <2>5, <3>1
  <2>7. CASE u[k].weight * Grain = list[k].weight
    <3>1. f[k] * Grain = a[k]
      BY <2>1, <2>3, <2>7
    <3> HIDE DEF f, a
    <3> QED BY <1>2, <2>2, <2>3, <2>4, <2>5, <3>1
  <2> QED BY <2>6, <2>7
<1> HIDE DEF f, a
<1>4. SumOver(f, S) \in Int /\ SumOver(a, S) = Whole * Grain
  <2>1. SumOver(f, S) \in Int
    <3> HIDE DEF S
    <3> QED BY <1>1, <1>3, SumIsInt
  <2> QED BY <2>1 DEF a
<1>5. (2 * Grain) * SumOver(f, S) <= 2 * SumOver(a, S) + Grain * Cardinality(S)
  <2> 2 * Grain \in Int /\ 2 \in Int /\ Grain \in Int
    BY <1>2
  <2> HIDE DEF S
  <2> QED BY <1>1, <1>3, SumsCompare
<1>6. (0 - 2 * Grain) * SumOver(f, S) <= (0 - 2) * SumOver(a, S) + Grain * Cardinality(S)
  <2> 0 - 2 * Grain \in Int /\ 0 - 2 \in Int /\ Grain \in Int
    BY <1>2
  <2> HIDE DEF S
  <2> QED BY <1>1, <1>3, SumsCompare
<1> DEFINE x == SumOver(f, S)
           n == Cardinality(S)
<1>7. GroupSum(u, {}) = x
  <2>1. LiveIn(u) \ {} = LiveIn(u)
    OBVIOUS
  <2> QED BY <2>1 DEF GroupSum, f
<1>8. /\ (2 * Grain) * x <= 2 * (Whole * Grain) + Grain * n
      /\ (0 - 2 * Grain) * x <= (0 - 2) * (Whole * Grain) + Grain * n
      /\ x \in Int /\ n \in Int
  BY <1>1, <1>4, <1>5, <1>6
<1> HIDE DEF x, n
<1>9. Grain * (2 * x) <= Grain * (2 * Whole + n) /\ Grain * (2 * Whole - n) <= Grain * (2 * x)
  <2>1. /\ (2 * Grain) * x = Grain * (2 * x) /\ (0 - 2 * Grain) * x = 0 - Grain * (2 * x)
        /\ Grain * (2 * x) \in Int /\ Grain * n \in Int /\ Whole * Grain \in Int
        /\ Grain * (2 * Whole + n) = 2 * (Whole * Grain) + Grain * n
        /\ Grain * (2 * Whole - n) = 2 * (Whole * Grain) - Grain * n
    BY <1>2, <1>8
  <2> QED BY <1>8, <2>1
<1>10. 2 * x <= 2 * Whole + n /\ 2 * Whole - n <= 2 * x
  <2>1. 2 * x \in Int /\ 2 * Whole + n \in Int /\ 2 * Whole - n \in Int
    BY <1>2, <1>8
  <2> QED BY <1>2, <1>9, <2>1, Cancels
<1> QED BY <1>7, <1>10, <1>2, <1>8 DEF n

\* After a commit every request that goes on has been overtaken.
LEMMA OthersAreOvertaken ==
  ASSUME planner \in [Planners -> KpiRequest \cup {Unset}], NEW s
  PROVE  LET after == Committed(planner, s, Unset) IN
         /\ after \in [Planners -> KpiRequest \cup {Unset}]
         /\ \A t \in Planners : after[t] # Unset =>
              planner[t] # Unset /\ after[t].overtaken /\ after[t].todo = planner[t].todo
BY DEF Committed, KpiRequest

\* Init => Inv.
LEMMA KpiInvariantAtFirst == KpiInit => KpiInvariant
<1> SUFFICES ASSUME KpiInit PROVE KpiInvariant
  OBVIOUS
<1>3. KpiTypeOK
  <2>1. day \in Periods
    BY KpiAssumption DEF KpiInit, Periods
  <2> QED BY <2>1 DEF KpiInit, KpiTypeOK
<1>4. planner \in [Planners -> KpiRequest \cup {Unset}] /\ \A s \in Planners : planner[s] = Unset
  BY DEF KpiInit
<1>5. OneFigureEach
  BY DEF KpiInit, OneFigureEach
<1> QED BY <1>3, <1>4, <1>5 DEF KpiInvariant

\* A request that has checked leaves the tables as they are.
LEMMA ChecksKeepKpis ==
  ASSUME KpiInvariant, NEW s \in Planners, NEW r \in KpiTodo, NamesRows(r), StillHolds(r),
         PlannerReady(s, r)
  PROVE  KpiInvariant'
<1> USE DEF KpiInvariant
<1>1. UNCHANGED <<kpi, figure, day, kpiRaced>> /\ planner' = Checked(planner, s, r)
  BY DEF PlannerReady
<1>2. planner' \in [Planners -> KpiRequest \cup {Unset}]
  BY <1>1 DEF Checked, KpiRequest
<1>3. ASSUME NEW t \in Planners, planner'[t] # Unset
      PROVE  NamesRows(planner[t].todo)' /\ (~planner'[t].overtaken => StillHolds(planner[t].todo)')
  <2>1. CASE t = s
    <3>1. planner'[t].todo = r
      BY <1>1, <2>1 DEF Checked
    <3> QED BY <1>1, <3>1 DEF NamesRows, StillHolds, KpisInGroup, FiguresFor, PeriodIsOpen
  <2>2. CASE t # s
    <3>1. planner'[t] = planner[t]
      BY <1>1, <2>2 DEF Checked
    <3>2. planner[t] # Unset /\ NamesRows(planner[t].todo) /\ (~planner[t].overtaken => StillHolds(planner[t].todo))
      BY <1>3, <3>1
    <3> QED BY <1>1, <3>1, <3>2 DEF NamesRows, StillHolds, KpisInGroup, FiguresFor, PeriodIsOpen
  <2> QED BY <2>1, <2>2
<1>4. KpiTypeOK' /\ (~kpiRaced' => OneFigureEach')
  BY <1>1 DEF KpiTypeOK, OneFigureEach
<1> QED BY <1>2, <1>3, <1>4

\* A commit keeps the invariant if the tables come out right and rows stay.
LEMMA CommitsKeepKpis ==
  ASSUME KpiInvariant, NEW s, planner' = Committed(planner, s, Unset), KpiTypeOK',
         \A k \in Kpi : kpi[k] # Unset => kpi'[k] # Unset,
         ~kpiRaced' => OneFigureEach'
  PROVE  KpiInvariant'
<1> USE DEF KpiInvariant
<1>1. /\ planner' \in [Planners -> KpiRequest \cup {Unset}]
      /\ \A t \in Planners : planner'[t] # Unset =>
           planner[t] # Unset /\ planner'[t].overtaken /\ planner'[t].todo = planner[t].todo
  BY OthersAreOvertaken
<1>2. ASSUME NEW t \in Planners, planner'[t] # Unset
      PROVE  NamesRows(planner[t].todo)' /\ planner'[t].overtaken
  <2>1. planner[t].todo \in KpiTodo /\ NamesRows(planner[t].todo)
    BY <1>1, <1>2 DEF KpiRequest
  <2>2. planner'[t].todo = planner[t].todo
    BY <1>1, <1>2
  <2>3. ASSUME planner[t].todo.op = "update" PROVE kpi'[planner[t].todo.k] # Unset
    BY <2>1, <2>3 DEF NamesRows, KpiTodo
  <2>4. ASSUME planner[t].todo.op = "reconcile"
        PROVE  LET r == planner[t].todo IN
               r.new \subseteq DOMAIN r.list /\ \A k \in (DOMAIN r.list \ r.new) \cup r.gone : kpi'[k] # Unset
    <3> DEFINE r == planner[t].todo
    <3>1. r.list \in Submissions /\ r.gone \subseteq Kpi
      BY <2>1, <2>4 DEF KpiTodo
    <3>2. DOMAIN r.list \subseteq Kpi
      BY <3>1 DEF Submissions
    <3> QED BY <2>1, <2>4, <3>1, <3>2 DEF NamesRows
  <2> QED BY <1>1, <1>2, <2>2, <2>3, <2>4 DEF NamesRows
<1> QED BY <1>1, <1>2

\* create_kpi, from its insert to its commit.
LEMMA CreatingKeepsKpis ==
  ASSUME KpiInvariant, NEW s \in Planners, FinishCreateKpi(s)
  PROVE  KpiInvariant' /\ (~planner[s].overtaken => GroupSum(kpi', {}) <= Whole)
<1> DEFINE r == planner[s].todo
<1>1. /\ r \in KpiTodo /\ r.op = "create" /\ r.k \in Kpi /\ r.w \in Weights /\ r.w \in Int
      /\ ~planner[s].overtaken => StillHolds(r)
  BY KpiAssumption DEF KpiInvariant, FinishCreateKpi, PlannerDoes, KpiRequest, KpiTodo
<1>2. /\ kpi[r.k] = Unset /\ kpi' = [kpi EXCEPT ![r.k] = [weight |-> Stored(r.w), live |-> TRUE]]
      /\ planner' = Committed(planner, s, Unset) /\ UNCHANGED <<figure, day>>
      /\ kpiRaced' = (kpiRaced \/ Overtaken(planner, s, Unset))
  BY DEF FinishCreateKpi, PlannerCommits
<1>3. kpi \in [Kpi -> KpiRow \cup {Unset}] /\ [weight |-> Stored(r.w), live |-> TRUE] \in KpiRow
  BY <1>1 DEF KpiInvariant, KpiTypeOK, KpiRow
<1>4. KpiTypeOK'
  BY <1>2, <1>3 DEF KpiInvariant, KpiTypeOK, Overtaken
<1>5. ASSUME ~planner[s].overtaken PROVE GroupSum(kpi', {}) <= Whole
  <2>1. GroupSum(kpi, {r.k}) * Grain + r.w <= Whole * Grain
    BY <1>1, <1>5 DEF StillHolds
  <2>2. /\ kpi' \in [Kpi -> KpiRow \cup {Unset}] /\ kpi'[r.k].weight = Stored(r.w)
        /\ r.k \in LiveIn(kpi') /\ LiveIn(kpi') \ {r.k} = LiveIn(kpi) \ {r.k}
        /\ \A j \in LiveIn(kpi) \ {r.k} : kpi'[j].weight = kpi[j].weight
    BY <1>1, <1>2, <1>3, KpiAssumption DEF LiveIn
  <2>3. GroupSum(kpi', {}) = Stored(r.w) + GroupSum(kpi, {r.k})
    BY <1>3, <2>2, WeightReplaced
  <2>4. GroupSum(kpi, {r.k}) \in Int /\ Stored(r.w) \in Int
    BY <1>1, <1>3, GroupSumIsInt, StoredIsClose
  <2>5. GroupSum(kpi, {r.k}) + Stored(r.w) <= Whole
    BY <1>1, <2>1, <2>4, StoredFits
  <2> QED BY <2>3, <2>4, <2>5
<1>6. \A k \in Kpi : kpi[k] # Unset => kpi'[k] # Unset
  BY <1>2, <1>3
<1>7. ~kpiRaced' => OneFigureEach'
  BY <1>2 DEF KpiInvariant, OneFigureEach
<1> QED BY <1>2, <1>4, <1>5, <1>6, <1>7, CommitsKeepKpis

\* update_kpi.
LEMMA UpdatingKeepsKpis ==
  ASSUME KpiInvariant, NEW s \in Planners, FinishUpdateKpi(s)
  PROVE  KpiInvariant' /\ (~planner[s].overtaken => GroupSum(kpi', {}) <= Whole)
<1> DEFINE r == planner[s].todo
<1>1. /\ r \in KpiTodo /\ r.op = "update" /\ r.k \in Kpi /\ r.w \in Weights /\ r.w \in Int
      /\ ~planner[s].overtaken => StillHolds(r)
      /\ NamesRows(r)
  BY KpiAssumption DEF KpiInvariant, FinishUpdateKpi, PlannerDoes, KpiRequest, KpiTodo
<1>2. /\ kpi' = [kpi EXCEPT ![r.k].weight = Stored(r.w)]
      /\ planner' = Committed(planner, s, Unset) /\ UNCHANGED <<figure, day>>
      /\ kpiRaced' = (kpiRaced \/ Overtaken(planner, s, Unset))
  BY DEF FinishUpdateKpi, PlannerCommits
<1>3. kpi \in [Kpi -> KpiRow \cup {Unset}] /\ kpi[r.k] \in KpiRow
  BY <1>1 DEF KpiInvariant, KpiTypeOK, NamesRows
<1>4. [kpi[r.k] EXCEPT !.weight = Stored(r.w)] \in KpiRow
  BY <1>1, <1>3 DEF KpiRow
<1>5. /\ kpi' \in [Kpi -> KpiRow \cup {Unset}]
      /\ \A k \in Kpi : k # r.k => kpi'[k] = kpi[k]
      /\ kpi'[r.k] = [kpi[r.k] EXCEPT !.weight = Stored(r.w)]
  BY <1>1, <1>2, <1>3, <1>4
<1>6. KpiTypeOK'
  BY <1>2, <1>5 DEF KpiInvariant, KpiTypeOK, Overtaken
<1>7. ASSUME ~planner[s].overtaken PROVE GroupSum(kpi', {}) <= Whole
  <2>1. r.k \in KpisInGroup /\ GroupSum(kpi, {r.k}) * Grain + r.w <= Whole * Grain
    BY <1>1, <1>7 DEF StillHolds
  <2>2. kpi'[r.k].weight = Stored(r.w) /\ kpi'[r.k].live = kpi[r.k].live /\ kpi'[r.k] # Unset
    BY <1>3, <1>4, <1>5, KpiAssumption DEF KpiRow
  <2>3. /\ r.k \in LiveIn(kpi') /\ LiveIn(kpi') \ {r.k} = LiveIn(kpi) \ {r.k}
        /\ \A j \in LiveIn(kpi) \ {r.k} : kpi'[j].weight = kpi[j].weight
    BY <1>5, <2>1, <2>2 DEF LiveIn, KpisInGroup
  <2>4. GroupSum(kpi', {}) = Stored(r.w) + GroupSum(kpi, {r.k})
    <3>1. kpi \in [Kpi -> KpiRow \cup {Unset}] /\ kpi' \in [Kpi -> KpiRow \cup {Unset}]
      BY <1>3, <1>5
    <3>2. r.k \in LiveIn(kpi') /\ kpi'[r.k].weight = Stored(r.w)
      BY <2>2, <2>3
    <3> HIDE DEF r
    <3> QED BY <2>3, <3>1, <3>2, WeightReplaced
  <2>5. GroupSum(kpi, {r.k}) \in Int /\ Stored(r.w) \in Int
    BY <1>1, <1>3, GroupSumIsInt, StoredIsClose
  <2>6. GroupSum(kpi, {r.k}) + Stored(r.w) <= Whole
    BY <1>1, <2>1, <2>5, StoredFits
  <2> QED BY <2>4, <2>5, <2>6
<1>8. \A k \in Kpi : kpi[k] # Unset => kpi'[k] # Unset
  BY <1>4, <1>5, KpiAssumption
<1>9. ~kpiRaced' => OneFigureEach'
  BY <1>2 DEF KpiInvariant, OneFigureEach
<1> QED BY <1>2, <1>6, <1>7, <1>8, <1>9, CommitsKeepKpis

\* reconcile_kpis: the whole list at once.
LEMMA ReconcilingKeepsKpis ==
  ASSUME KpiInvariant, NEW s \in Planners, FinishReconcile(s)
  PROVE  /\ KpiInvariant'
         /\ ~planner[s].overtaken /\ (\A k \in DOMAIN planner[s].todo.list : planner[s].todo.list[k].before = 0)
              => /\ 2 * GroupSum(kpi', {}) <= 2 * Whole + Cardinality(LiveIn(kpi'))
                 /\ 2 * GroupSum(kpi', {}) >= 2 * Whole - Cardinality(LiveIn(kpi'))
<1> DEFINE r == planner[s].todo
<1>1. /\ r \in KpiTodo /\ r.op = "reconcile"
      /\ ~planner[s].overtaken => StillHolds(r)
      /\ NamesRows(r)
  BY DEF KpiInvariant, FinishReconcile, PlannerDoes, KpiRequest, KpiTodo
<1>2. /\ r.list \in Submissions
      /\ r.gone \subseteq Kpi /\ r.new \subseteq Kpi /\ r.same \subseteq Kpi
  BY <1>1 DEF KpiTodo
<1>3. DOMAIN r.list \subseteq Kpi /\ \A k \in DOMAIN r.list : r.list[k].weight \in Weights
  BY <1>2 DEF Submissions
<1>4. /\ \A k \in r.new : kpi[k] = Unset
      /\ kpi' = [k \in Kpi |->
            IF k \in r.new THEN [weight |-> Stored(r.list[k].weight), live |-> TRUE]
            ELSE IF k \in DOMAIN r.list \ r.same
              THEN [kpi[k] EXCEPT !.weight = Stored(r.list[k].weight)]
            ELSE IF k \in r.gone THEN [kpi[k] EXCEPT !.live = FALSE]
            ELSE kpi[k]]
      /\ planner' = Committed(planner, s, Unset) /\ UNCHANGED <<figure, day>>
      /\ kpiRaced' = (kpiRaced \/ Overtaken(planner, s, Unset))
  BY DEF FinishReconcile, PlannerCommits
<1>5. /\ r.new \subseteq DOMAIN r.list
      /\ \A k \in (DOMAIN r.list \ r.new) \cup r.gone : kpi[k] \in KpiRow
      /\ kpi \in [Kpi -> KpiRow \cup {Unset}]
  BY <1>1, <1>2, <1>3 DEF KpiInvariant, KpiTypeOK, NamesRows
<1>6. ASSUME NEW k \in Kpi
      PROVE  /\ kpi'[k] \in KpiRow \cup {Unset}
             /\ kpi[k] # Unset => kpi'[k] # Unset
             /\ k \in r.new => kpi'[k] \in KpiRow /\ kpi'[k].weight = Stored(r.list[k].weight) /\ kpi'[k].live
             /\ k \in (DOMAIN r.list \ r.same) \ r.new =>
                  kpi'[k] \in KpiRow /\ kpi'[k].weight = Stored(r.list[k].weight) /\ kpi'[k].live = kpi[k].live
             /\ k \in (DOMAIN r.list \cap r.same) \ r.new /\ k \notin r.gone => kpi'[k] = kpi[k]
             /\ k \notin DOMAIN r.list /\ k \in r.gone => ~kpi'[k].live
             /\ k \notin DOMAIN r.list /\ k \notin r.gone => kpi'[k] = kpi[k]
  <2>1. CASE k \in r.new
    <3>1. kpi'[k] = [weight |-> Stored(r.list[k].weight), live |-> TRUE]
      BY <1>4, <2>1
    <3>2. k \in DOMAIN r.list /\ r.list[k].weight \in Weights
      BY <1>3, <1>5, <2>1
    <3>3. kpi'[k] \in KpiRow /\ kpi'[k].weight = Stored(r.list[k].weight) /\ kpi'[k].live
      BY <3>1, <3>2 DEF KpiRow
    <3> QED BY <1>4, <2>1, <3>2, <3>3
  <2>2. CASE k \in (DOMAIN r.list \ r.same) \ r.new
    <3>1. kpi'[k] = [kpi[k] EXCEPT !.weight = Stored(r.list[k].weight)] /\ kpi[k] \in KpiRow
      BY <1>4, <1>5, <2>2
    <3>2. kpi'[k] \in KpiRow /\ kpi'[k].weight = Stored(r.list[k].weight) /\ kpi'[k].live = kpi[k].live
      BY <1>3, <2>2, <3>1 DEF KpiRow
    <3> QED BY <2>2, <3>2, KpiAssumption
  <2>3. CASE k \notin r.new /\ k \notin (DOMAIN r.list \ r.same) /\ k \in r.gone
    <3>1. kpi'[k] = [kpi[k] EXCEPT !.live = FALSE] /\ kpi[k] \in KpiRow
      BY <1>4, <1>5, <2>3
    <3>2. kpi'[k] \in KpiRow /\ ~kpi'[k].live
      BY <3>1 DEF KpiRow
    <3> QED BY <2>3, <3>1, <3>2, KpiAssumption
  <2>4. CASE k \notin r.new /\ k \notin (DOMAIN r.list \ r.same) /\ k \notin r.gone
    BY <1>4, <1>5, <2>4
  <2> QED BY <2>1, <2>2, <2>3, <2>4
<1>7. kpi' \in [Kpi -> KpiRow \cup {Unset}]
  <2>1. kpi' = [k \in Kpi |-> kpi'[k]]
    BY <1>4
  <2> QED BY <1>6, <2>1
<1>8. KpiTypeOK'
  BY <1>4, <1>7 DEF KpiInvariant, KpiTypeOK, Overtaken
<1>9. ASSUME ~planner[s].overtaken, \A k \in DOMAIN r.list : r.list[k].before = 0
      PROVE  /\ 2 * GroupSum(kpi', {}) <= 2 * Whole + Cardinality(LiveIn(kpi'))
             /\ 2 * GroupSum(kpi', {}) >= 2 * Whole - Cardinality(LiveIn(kpi'))
  <2>1. /\ SumOver(Asked(r.list), DOMAIN r.list) = Whole * Grain
        /\ DOMAIN r.list \subseteq KpisInGroup \cup r.new
        /\ r.gone = KpisInGroup \ DOMAIN r.list
        /\ \A k \in r.same \ r.new : kpi[k].weight * Grain = r.list[k].weight
    BY <1>1, <1>9 DEF StillHolds
  <2>2. ASSUME NEW k \in DOMAIN r.list
        PROVE  /\ k \in LiveIn(kpi')
               /\ kpi'[k].weight = Stored(r.list[k].weight) \/ kpi'[k].weight * Grain = r.list[k].weight
    <3>1. k \in Kpi /\ k \notin r.gone
      BY <1>3, <2>1
    <3>2. CASE k \in r.new
      BY <1>6, <3>1, <3>2, KpiAssumption DEF LiveIn
    <3>3. CASE k \in (DOMAIN r.list \ r.same) \ r.new
      BY <1>6, <2>1, <3>1, <3>3, KpiAssumption DEF LiveIn, KpisInGroup
    <3>4. CASE k \in (DOMAIN r.list \cap r.same) \ r.new
      BY <1>6, <2>1, <3>1, <3>4 DEF LiveIn, KpisInGroup
    <3> QED BY <3>2, <3>3, <3>4
  <2>3. ASSUME NEW k \in LiveIn(kpi'), k \notin DOMAIN r.list PROVE FALSE
    <3>1. k \in Kpi /\ kpi'[k] # Unset /\ kpi'[k].live
      BY <2>3 DEF LiveIn
    <3>2. k \notin r.gone /\ kpi'[k] = kpi[k]
      BY <1>6, <2>3, <3>1
    <3> QED BY <2>1, <2>3, <3>1, <3>2 DEF KpisInGroup
  <2>4. LiveIn(kpi') = DOMAIN r.list
    BY <2>2, <2>3
  <2> HIDE DEF r
  <2> QED BY <1>2, <1>7, <1>9, <2>1, <2>2, <2>4, GroupReplaced
<1>10. ~kpiRaced' => OneFigureEach'
  BY <1>4 DEF KpiInvariant, OneFigureEach
<1> QED BY <1>4, <1>6, <1>8, <1>9, <1>10, CommitsKeepKpis

\* upsert_kpi_score: the only writer of figures, and of no past one.
LEMMA ScoringKeepsKpis ==
  ASSUME KpiInvariant, NEW s \in Planners, FinishUpsertScore(s)
  PROVE  /\ KpiInvariant'
         /\ ~kpiRaced' => \A f \in Figures : figure'[f] # figure[f] => figure'[f].period >= day
<1> DEFINE r == planner[s].todo
<1>1. /\ r \in KpiTodo /\ r.op = "score" /\ r.k \in Kpi /\ r.p \in Periods /\ r.a \in Amounts
      /\ ~planner[s].overtaken => StillHolds(r)
  BY DEF KpiInvariant, FinishUpsertScore, PlannerDoes, KpiRequest, KpiTodo
<1> DEFINE row == [kpi |-> r.k, period |-> r.p, amount |-> r.a]
<1>2. PICK f \in Figures :
        /\ IF r.row = {} THEN figure[f] = Unset ELSE f \in r.row
        /\ figure' = [figure EXCEPT ![f] = row]
  BY DEF FinishUpsertScore
<1>3. /\ planner' = Committed(planner, s, Unset) /\ UNCHANGED <<kpi, day>>
      /\ kpiRaced' = (kpiRaced \/ Overtaken(planner, s, Unset))
  BY DEF FinishUpsertScore, PlannerCommits
<1>4. figure \in [Figures -> FigureRow \cup {Unset}] /\ row \in FigureRow
  BY <1>1 DEF KpiInvariant, KpiTypeOK, FigureRow
<1>5. KpiTypeOK'
  BY <1>2, <1>3, <1>4 DEF KpiInvariant, KpiTypeOK, Overtaken
<1>6. ASSUME ~kpiRaced'
      PROVE  /\ OneFigureEach'
             /\ \A g \in Figures : figure'[g] # figure[g] => figure'[g].period >= day
  <2>1. ~kpiRaced /\ ~planner[s].overtaken
    BY <1>3, <1>6 DEF Overtaken, FinishUpsertScore, PlannerDoes
  <2>2. r.row = FiguresFor(r.k, r.p) /\ r.p >= day
    BY <1>1, <2>1 DEF StillHolds, PeriodIsOpen
  <2>3. /\ figure'[f] = row /\ \A g \in Figures : g # f => figure'[g] = figure[g]
    BY <1>2, <1>4
  <2>4. OneFigureEach
    BY <2>1 DEF KpiInvariant
  <2>5. \A g \in FiguresFor(r.k, r.p) : g = f
    BY <1>2, <2>2, <2>4 DEF OneFigureEach, FiguresFor
  <2>6. row.kpi = r.k /\ row.period = r.p
    OBVIOUS
  <2>7. ASSUME NEW g \in Figures, g # f, figure'[g] # Unset, figure'[g].kpi = row.kpi,
               figure'[g].period = row.period
        PROVE  FALSE
    <3> HIDE DEF row
    <3>1. figure[g] # Unset /\ figure[g].kpi = r.k /\ figure[g].period = r.p
      BY <2>3, <2>6, <2>7
    <3> QED BY <2>5, <2>7, <3>1 DEF FiguresFor
  <2>8. OneFigureEach'
    <3> HIDE DEF row
    <3> SUFFICES ASSUME NEW g \in Figures, NEW h \in Figures, figure'[g] # Unset, figure'[h] # Unset,
                        figure'[g].kpi = figure'[h].kpi, figure'[g].period = figure'[h].period
                 PROVE  g = h
      BY DEF OneFigureEach
    <3>1. CASE g = f \/ h = f
      BY <2>3, <2>7, <3>1
    <3>2. CASE g # f /\ h # f
      BY <2>3, <2>4, <3>2 DEF OneFigureEach
    <3> QED BY <3>1, <3>2
  <2>9. \A g \in Figures : figure'[g] # figure[g] => figure'[g].period >= day
    <3> HIDE DEF row
    <3> QED BY <2>2, <2>3, <2>6
  <2> QED BY <2>8, <2>9
<1>7. KpiInvariant'
  BY <1>3, <1>5, <1>6, CommitsKeepKpis
<1> QED BY <1>6, <1>7
\* The reads and checks of create_kpi, ...
LEMMA AskingToCreateKeepsKpis ==
  ASSUME KpiInvariant, NEW s \in Planners, NEW k \in Kpi, NEW w \in Weights, BeginCreateKpi(s, k, w)
  PROVE  KpiInvariant'
<1> DEFINE r == [op |-> "create", k |-> k, w |-> w]
<1>1. r \in KpiTodo /\ NamesRows(r)
  BY DEF KpiTodo, NamesRows
<1>2. GroupSum(kpi, {k}) * Grain + w <= Whole * Grain
  BY WeightsAreSums DEF BeginCreateKpi, Fits
<1>3. StillHolds(r)
  BY <1>2 DEF StillHolds
<1>4. PlannerReady(s, r)
  BY DEF BeginCreateKpi
<1> HIDE DEF r
<1> QED BY <1>1, <1>3, <1>4, ChecksKeepKpis

\* ... of update_kpi ...
LEMMA AskingToUpdateKeepsKpis ==
  ASSUME KpiInvariant, NEW s \in Planners, NEW k \in Kpi, NEW w \in Weights, BeginUpdateKpi(s, k, w)
  PROVE  KpiInvariant'
<1> DEFINE r == [op |-> "update", k |-> k, w |-> w]
<1>1. r \in KpiTodo
  BY DEF KpiTodo
<1>2. GroupSum(kpi, {k}) * Grain + w <= Whole * Grain /\ k \in KpisInGroup
  BY WeightsAreSums DEF BeginUpdateKpi, Fits
<1>3. StillHolds(r) /\ NamesRows(r)
  BY <1>2 DEF StillHolds, NamesRows, KpisInGroup
<1>4. PlannerReady(s, r)
  BY DEF BeginUpdateKpi
<1> HIDE DEF r
<1> QED BY <1>1, <1>3, <1>4, ChecksKeepKpis

\* ... and of upsert_kpi_score.
LEMMA AskingToScoreKeepsKpis ==
  ASSUME KpiInvariant, NEW s \in Planners, NEW k \in Kpi, NEW p \in Periods, NEW a \in Amounts,
         BeginUpsertScore(s, k, p, a)
  PROVE  KpiInvariant'
<1> DEFINE r == [op |-> "score", k |-> k, p |-> p, a |-> a, row |-> FiguresFor(k, p)]
<1>1. r \in KpiTodo
  BY DEF KpiTodo, FiguresFor
<1>2. PeriodIsOpen(p) /\ PlannerReady(s, r)
  BY DEF BeginUpsertScore
<1>3. StillHolds(r) /\ NamesRows(r)
  BY <1>2 DEF StillHolds, NamesRows
<1> HIDE DEF r
<1> QED BY <1>1, <1>2, <1>3, ChecksKeepKpis

\* The weights of a submitted list are such a sum.
LEMMA ListsAreSums ==
  ASSUME NEW list, DOMAIN list \subseteq Kpi
  PROVE  MapThenSumSet(LAMBDA k : list[k].weight + list[k].before, DOMAIN list)
           = SumOver(Asked(list), DOMAIN list)
BY DEF SumOver, Asked, MapThenSumSet, MapThenFoldSet

\* A submitted list that adds up to the whole.
LEMMA SubmittingKeepsKpis ==
  ASSUME KpiInvariant, NEW s \in Planners, NEW list \in Submissions, BeginReconcile(s, list)
  PROVE  KpiInvariant'
<1> DEFINE old  == KpisInGroup \ DOMAIN list
           new  == {k \in DOMAIN list : kpi[k] = Unset}
           same == {k \in KpisInGroup \cap DOMAIN list :
                      list[k] = [weight |-> kpi[k].weight * Grain, before |-> 0]}
           r == [op |-> "reconcile", list |-> list, gone |-> old, new |-> new, same |-> same]
<1>1. DOMAIN list \subseteq Kpi /\ \A k \in DOMAIN list : k \in KpisInGroup \/ kpi[k] = Unset
  BY DEF BeginReconcile, Submissions
<1>2. old \in SUBSET Kpi /\ new \in SUBSET Kpi /\ same \in SUBSET Kpi
  BY <1>1 DEF KpisInGroup
<1>3. r \in KpiTodo
  BY <1>2 DEF KpiTodo
<1>4. SumOver(Asked(list), DOMAIN list) = Whole * Grain
  BY <1>1, ListsAreSums DEF BeginReconcile
<1>5. DOMAIN list \subseteq KpisInGroup \cup new
  BY <1>1
<1>6. NamesRows(r)
  BY <1>1 DEF NamesRows, KpisInGroup
<1>7. \A k \in same : kpi[k].weight * Grain = list[k].weight
  OBVIOUS
<1>8. StillHolds(r)
  <2>1. old = KpisInGroup \ DOMAIN list
    OBVIOUS
  <2> HIDE DEF old, new, same
  <2> QED BY <1>4, <1>5, <1>7, <2>1 DEF StillHolds
<1>9. PlannerReady(s, r)
  BY DEF BeginReconcile
<1> HIDE DEF r
<1> QED BY <1>3, <1>6, <1>8, <1>9, ChecksKeepKpis

\* A request that fails.
LEMMA AbandoningKeepsKpis ==
  ASSUME KpiInvariant, NEW s \in Planners, AbandonPlanner(s)
  PROVE  KpiInvariant'
<1>1. UNCHANGED <<kpi, figure, day, kpiRaced>> /\ planner' = [planner EXCEPT ![s] = Unset]
  BY DEF AbandonPlanner
<1>2. planner' \in [Planners -> KpiRequest \cup {Unset}]
  BY <1>1 DEF KpiInvariant
<1>3. ASSUME NEW t \in Planners, planner'[t] # Unset
      PROVE  NamesRows(planner[t].todo)' /\ (~planner'[t].overtaken => StillHolds(planner[t].todo)')
  <2>1. planner'[t] = planner[t]
    BY <1>1, <1>3 DEF KpiInvariant
  <2>2. NamesRows(planner[t].todo) /\ (~planner[t].overtaken => StillHolds(planner[t].todo))
    BY <1>3, <2>1 DEF KpiInvariant
  <2> QED BY <1>1, <2>1, <2>2 DEF NamesRows, StillHolds, KpisInGroup, FiguresFor, PeriodIsOpen
<1>4. KpiTypeOK' /\ (~kpiRaced' => OneFigureEach')
  BY <1>1 DEF KpiInvariant, KpiTypeOK, OneFigureEach
<1> QED BY <1>2, <1>3, <1>4 DEF KpiInvariant

\* The next day.
LEMMA MidnightKeepsKpis ==
  ASSUME KpiInvariant, Midnight
  PROVE  KpiInvariant'
<1>1. KpiTypeOK'
  BY KpiAssumption DEF KpiInvariant, KpiTypeOK, Midnight, Periods
<1>2. \A k \in Kpi : kpi[k] # Unset => kpi'[k] # Unset
  BY DEF Midnight
<1>3. ~kpiRaced' => OneFigureEach'
  BY DEF KpiInvariant, Midnight, OneFigureEach
<1> QED BY <1>1, <1>2, <1>3, CommitsKeepKpis DEF Midnight

\* Inv /\ [Next]_vars => Inv'.
LEMMA KpiInvariantIsInductive ==
  ASSUME KpiInvariant, [KpiNext]_kpiVars
  PROVE  KpiInvariant'
<1>1. CASE UNCHANGED kpiVars
  <2>1. UNCHANGED <<kpi, figure, planner, day, kpiRaced>>
    BY <1>1 DEF kpiVars
  <2>2. ASSUME NEW t \in Planners, planner'[t] # Unset
        PROVE  NamesRows(planner[t].todo)' /\ (~planner'[t].overtaken => StillHolds(planner[t].todo)')
    <3>1. NamesRows(planner[t].todo) /\ (~planner[t].overtaken => StillHolds(planner[t].todo))
      BY <2>1, <2>2 DEF KpiInvariant
    <3> QED BY <2>1, <3>1 DEF NamesRows, StillHolds, KpisInGroup, FiguresFor, PeriodIsOpen
  <2>3. KpiTypeOK' /\ (~kpiRaced' => OneFigureEach')
    BY <2>1 DEF KpiInvariant, KpiTypeOK, OneFigureEach
  <2>4. planner' \in [Planners -> KpiRequest \cup {Unset}]
    BY <2>1 DEF KpiInvariant
  <2> QED BY <2>2, <2>3, <2>4 DEF KpiInvariant
<1>2. CASE KpiNext
  BY <1>2, AskingToCreateKeepsKpis, AskingToUpdateKeepsKpis,
     AskingToScoreKeepsKpis, SubmittingKeepsKpis, CreatingKeepsKpis, UpdatingKeepsKpis,
     ReconcilingKeepsKpis, ScoringKeepsKpis, AbandoningKeepsKpis, MidnightKeepsKpis DEF KpiNext
<1> QED BY <1>1, <1>2

\* So it always holds.
LEMMA KpiInvariantHolds == KpiSpec => []KpiInvariant
<1>1. KpiInvariant /\ [KpiNext]_kpiVars => KpiInvariant'
  BY KpiInvariantIsInductive
<1> QED BY <1>1, KpiInvariantAtFirst, PTL DEF KpiSpec

\* A KPI that is created or reweighed by a request nobody overtook leaves the weights
\* of its department's KPIs within the whole, and so does a reconciliation leave exactly
\* the whole, but for half of a hundredth for each KPI (create_kpi, update_kpi,
\* reconcile_kpis), whatever has been asked for, and whatever races came before.
THEOREM KpiWeightsFit == KpiSpec => WeightsFit
<1>1. ASSUME KpiInvariant, NEW s \in Planners, planner[s] # Unset, ~planner[s].overtaken
      PROVE  /\ FinishCreateKpi(s) \/ FinishUpdateKpi(s) => SumWeights({})' <= Whole
             /\ FinishReconcile(s) /\ (\A k \in DOMAIN planner[s].todo.list : planner[s].todo.list[k].before = 0)
                  => /\ 2 * SumWeights({})' <= 2 * Whole + Cardinality(KpisInGroup')
                     /\ 2 * SumWeights({})' >= 2 * Whole - Cardinality(KpisInGroup')
  <2>1. SumWeights({})' = GroupSum(kpi', {}) /\ KpisInGroup' = LiveIn(kpi')
    BY WeightsAreSums DEF KpisInGroup, LiveIn
  <2> QED BY <1>1, <2>1, CreatingKeepsKpis, UpdatingKeepsKpis, ReconcilingKeepsKpis
<1>2. KpiInvariant /\ [KpiNext]_kpiVars =>
        [\A s \in Planners : planner[s] # Unset /\ ~planner[s].overtaken =>
           /\ FinishCreateKpi(s) \/ FinishUpdateKpi(s) => SumWeights({})' <= Whole
           /\ FinishReconcile(s) /\ (\A k \in DOMAIN planner[s].todo.list : planner[s].todo.list[k].before = 0)
                => /\ 2 * SumWeights({})' <= 2 * Whole + Cardinality(KpisInGroup')
                   /\ 2 * SumWeights({})' >= 2 * Whole - Cardinality(KpisInGroup')]_kpiVars
  BY <1>1
<1> QED BY <1>2, KpiInvariantHolds, PTL DEF KpiSpec, WeightsFit

\* A set whose elements are equal has at most one.
LEMMA AtMostOne ==
  ASSUME NEW S, \A f, g \in S : f = g
  PROVE  Cardinality(S) <= 1
<1>1. CASE S = {}
  BY <1>1, FS_EmptySet
<1>2. CASE S # {}
  <2>1. PICK f \in S : S = {f}
    BY <1>2
  <2>2. Cardinality({f}) = 1
    BY FS_Singleton
  <2> QED BY <2>1, <2>2
<1> QED BY <1>1, <1>2

\* Who changes a figure is upsert_kpi_score, of a period that has not ended.
LEMMA FiguresOnlyScored ==
  ASSUME KpiInvariant, [KpiNext]_kpiVars, ~kpiRaced', NEW f \in Figures, figure'[f] # figure[f]
  PROVE  figure'[f].period >= day
<1>1. ASSUME UNCHANGED figure PROVE FALSE
  BY <1>1
<1>2. PICK s \in Planners : FinishUpsertScore(s)
  BY <1>1 DEF KpiNext, kpiVars, BeginCreateKpi, BeginUpdateKpi, BeginReconcile, BeginUpsertScore,
     PlannerReady, FinishCreateKpi, FinishUpdateKpi, FinishReconcile, AbandonPlanner, Midnight
<1> QED BY <1>2, ScoringKeepsKpis

\* A figure is there once for its KPI and period, and one of a period that has ended
\* stands (upsert_kpi_score), unless two requests have raced, or one and midnight.
THEOREM PastFigures == KpiSpec => PastFiguresStand
<1>1. KpiInvariant /\ [KpiNext]_kpiVars =>
        [~kpiRaced' =>
           /\ \A k \in Kpi, p \in Periods :
                Cardinality({f \in Figures : figure'[f] # Unset /\ figure'[f].kpi = k
                                               /\ figure'[f].period = p}) <= 1
           /\ \A f \in Figures : figure'[f] # figure[f] => figure'[f].period >= day]_kpiVars
  <2> SUFFICES ASSUME KpiInvariant, [KpiNext]_kpiVars, ~kpiRaced'
               PROVE  /\ \A k \in Kpi, p \in Periods :
                            Cardinality({f \in Figures : figure'[f] # Unset /\ figure'[f].kpi = k
                                                           /\ figure'[f].period = p}) <= 1
                      /\ \A f \in Figures : figure'[f] # figure[f] => figure'[f].period >= day
    OBVIOUS
  <2>1. OneFigureEach'
    BY KpiInvariantIsInductive DEF KpiInvariant
  <2>2. ASSUME NEW k \in Kpi, NEW p \in Periods
        PROVE  Cardinality({f \in Figures : figure'[f] # Unset /\ figure'[f].kpi = k
                                           /\ figure'[f].period = p}) <= 1
    <3> DEFINE S == {f \in Figures : figure'[f] # Unset /\ figure'[f].kpi = k /\ figure'[f].period = p}
    <3>1. \A f, g \in S : f = g
      BY <2>1 DEF OneFigureEach
    <3> HIDE DEF S
    <3>2. Cardinality(S) <= 1
      BY <3>1, AtMostOne
    <3> QED BY <3>2 DEF S
  <2>3. \A f \in Figures : figure'[f] # figure[f] => figure'[f].period >= day
    BY FiguresOnlyScored
  <2> QED BY <2>2, <2>3
<1> QED BY <1>1, KpiInvariantHolds, PTL DEF KpiSpec, PastFiguresStand

-----------------------------------------------------------------------------
(* Objectives. *)

\* What the requests of objectives are about to write.
OkrTodo ==
  [op : {"create"}, k : KeyResults, o : Okrs]
    \cup [op : {"delete okr"}, o : Okrs, results : SUBSET KeyResults]
    \cup [op : {"delete key result"}, k : KeyResults]

OkrRequest == [overtaken : BOOLEAN, todo : OkrTodo]

\* What a request of an objective or a key result is about to delete has been there.
NamesObjectives(r) ==
  /\ r.op = "delete okr" =>
       okr[r.o] # Missing /\ \A k \in r.results : keyResult[k] # Missing
  /\ r.op = "delete key result" => keyResult[r.k] # Missing

\* What a request that nobody has overtaken has found out is still so.
StillMeasured(r) ==
  /\ r.op = "create" => LiveOkr(r.o)
  /\ r.op = "delete okr" =>
       r.results = KeyResultsOf(r.o) /\ KpisOnKeyResults(KeyResultsOf(r.o)) = {}
  /\ r.op = "delete key result" => KpisOnKeyResults({r.k}) = {}

\* The table of requests.
OkrRequestsOK ==
  /\ strategist \in [Strategists -> OkrRequest \cup {Missing}]
  /\ \A s \in Strategists : strategist[s] # Missing =>
       /\ NamesObjectives(strategist[s].todo)
       /\ ~strategist[s].overtaken => StillMeasured(strategist[s].todo)

\* The invariant.
OkrInvariant == OkrTypeOK /\ OkrRequestsOK /\ KpisMeasureSomething

\* A request that goes on over the same rows still has what it found out.
LEMMA SameRowsSameFindings ==
  ASSUME UNCHANGED <<okr, keyResult, measure>>, NEW t,
         strategist'[t].todo = strategist[t].todo,
         NamesObjectives(strategist[t].todo)
  PROVE  /\ NamesObjectives(strategist[t].todo)'
         /\ StillMeasured(strategist[t].todo) => StillMeasured(strategist[t].todo)'
<1>1. NamesObjectives(strategist[t].todo)'
  BY DEF NamesObjectives
<1>2. ASSUME StillMeasured(strategist[t].todo), strategist'[t].todo.op = "create"
      PROVE  LiveOkr(strategist[t].todo.o)'
  BY <1>2 DEF StillMeasured, LiveOkr
<1>3. ASSUME StillMeasured(strategist[t].todo), strategist'[t].todo.op = "delete okr"
      PROVE  /\ strategist'[t].todo.results = KeyResultsOf(strategist[t].todo.o)'
             /\ KpisOnKeyResults(KeyResultsOf(strategist[t].todo.o))' = {}
  BY <1>3 DEF StillMeasured, KeyResultsOf, LiveKeyResult, KpisOnKeyResults, LiveMeasure
<1>4. ASSUME StillMeasured(strategist[t].todo), strategist'[t].todo.op = "delete key result"
      PROVE  KpisOnKeyResults({strategist[t].todo.k})' = {}
  BY <1>4 DEF StillMeasured, KpisOnKeyResults, LiveMeasure
<1> QED BY <1>1, <1>2, <1>3, <1>4 DEF StillMeasured

\* A request that has made its checks.
LEMMA ChecksKeepObjectives ==
  ASSUME OkrInvariant, NEW s \in Strategists, NEW r \in OkrTodo, NamesObjectives(r),
         StillMeasured(r), StrategistReady(s, r)
  PROVE  OkrInvariant'
<1>1. /\ UNCHANGED <<okr, keyResult, measure, okrRaced, lateMeasures>>
      /\ strategist' = Checked(strategist, s, r)
  BY DEF StrategistReady
<1>2. strategist \in [Strategists -> OkrRequest \cup {Missing}]
  BY DEF OkrInvariant, OkrRequestsOK
<1>3. strategist' \in [Strategists -> OkrRequest \cup {Missing}]
  BY <1>1, <1>2 DEF Checked, OkrRequest
<1>4. ASSUME NEW t \in Strategists, strategist'[t] # Missing
      PROVE  /\ NamesObjectives(strategist[t].todo)'
             /\ ~strategist'[t].overtaken => StillMeasured(strategist[t].todo)'
  <2>1. CASE t = s
    <3>1. strategist'[t].todo = r
      BY <1>1, <1>2, <2>1 DEF Checked
    <3>2. NamesObjectives(strategist[t].todo)'
      BY <1>1, <3>1 DEF NamesObjectives
    <3>3. ASSUME strategist'[t].todo.op = "create" PROVE LiveOkr(strategist[t].todo.o)'
      BY <1>1, <3>1, <3>3 DEF StillMeasured, LiveOkr
    <3>4. ASSUME strategist'[t].todo.op = "delete okr"
          PROVE  /\ strategist'[t].todo.results = KeyResultsOf(strategist[t].todo.o)'
                 /\ KpisOnKeyResults(KeyResultsOf(strategist[t].todo.o))' = {}
      BY <1>1, <3>1, <3>4 DEF StillMeasured, KeyResultsOf, LiveKeyResult, KpisOnKeyResults, LiveMeasure
    <3>5. ASSUME strategist'[t].todo.op = "delete key result" PROVE KpisOnKeyResults({strategist[t].todo.k})' = {}
      BY <1>1, <3>1, <3>5 DEF StillMeasured, KpisOnKeyResults, LiveMeasure
    <3> QED BY <3>2, <3>3, <3>4, <3>5 DEF StillMeasured
  <2>2. CASE t # s
    <3>1. strategist'[t] = strategist[t]
      BY <1>1, <1>2, <2>2 DEF Checked
    <3>2. /\ NamesObjectives(strategist[t].todo)
          /\ ~strategist[t].overtaken => StillMeasured(strategist[t].todo)
      BY <1>4, <3>1 DEF OkrInvariant, OkrRequestsOK
    <3> QED BY <1>1, <3>1, <3>2, SameRowsSameFindings
  <2> QED BY <2>1, <2>2
<1>5. OkrTypeOK' /\ KpisMeasureSomething'
  BY <1>1 DEF OkrInvariant, OkrTypeOK, KpisMeasureSomething, LiveOkr, LiveKeyResult, LiveMeasure
<1> QED BY <1>3, <1>4, <1>5 DEF OkrInvariant, OkrRequestsOK

\* A commit keeps the requests in order as long as rows stay.
LEMMA CommitsKeepOkrRequests ==
  ASSUME OkrInvariant, NEW s, strategist' = Committed(strategist, s, Missing),
         \A o \in Okrs : okr[o] # Missing => okr'[o] # Missing,
         \A k \in KeyResults : keyResult[k] # Missing => keyResult'[k] # Missing
  PROVE  OkrRequestsOK'
<1>1. strategist \in [Strategists -> OkrRequest \cup {Missing}]
  BY DEF OkrInvariant, OkrRequestsOK
<1>2. strategist' \in [Strategists -> OkrRequest \cup {Missing}]
  BY <1>1 DEF Committed, OkrRequest
<1>3. ASSUME NEW t \in Strategists, strategist'[t] # Missing
      PROVE  NamesObjectives(strategist[t].todo)' /\ strategist'[t].overtaken
  <2>1. /\ strategist[t] \in OkrRequest /\ strategist[t] # Missing
        /\ strategist'[t].todo = strategist[t].todo /\ strategist'[t].overtaken
    BY <1>1, <1>3 DEF Committed, OkrRequest
  <2>2. strategist[t].todo \in OkrTodo /\ NamesObjectives(strategist[t].todo)
    BY <2>1 DEF OkrInvariant, OkrRequestsOK, OkrRequest
  <2>3. NamesObjectives(strategist[t].todo)'
    BY <2>1, <2>2 DEF NamesObjectives, OkrTodo
  <2> QED BY <2>1, <2>3
<1> QED BY <1>2, <1>3 DEF OkrRequestsOK

\* Init => Inv.
LEMMA OkrInvariantAtFirst == OkrInit => OkrInvariant
BY DEF OkrInit, OkrInvariant, OkrTypeOK, OkrRequestsOK, KpisMeasureSomething, LiveKeyResult, LiveMeasure

\* create_key_result.
LEMMA CreatingKeyResultsKeepsOkrs ==
  ASSUME OkrInvariant, NEW s \in Strategists, FinishCreateKeyResult(s)
  PROVE  OkrInvariant'
<1> DEFINE r == strategist[s].todo
           row == [okr |-> r.o, live |-> TRUE]
<1>1. /\ r \in OkrTodo /\ r.op = "create" /\ r.k \in KeyResults /\ r.o \in Okrs
      /\ ~strategist[s].overtaken => StillMeasured(r)
  BY DEF OkrInvariant, OkrRequestsOK, FinishCreateKeyResult, StrategistDoes, OkrRequest, OkrTodo
<1>2. /\ keyResult[r.k] = Missing /\ keyResult' = [keyResult EXCEPT ![r.k] = row]
      /\ strategist' = Committed(strategist, s, Missing) /\ UNCHANGED <<okr, measure, lateMeasures>>
      /\ okrRaced' = (okrRaced \/ Overtaken(strategist, s, Missing))
  BY DEF FinishCreateKeyResult, StrategistCommits
<1>3. row \in KeyResultRow /\ keyResult \in [KeyResults -> KeyResultRow \cup {Missing}]
  BY <1>1 DEF KeyResultRow, OkrInvariant, OkrTypeOK
<1>4. OkrTypeOK'
  BY <1>2, <1>3 DEF OkrInvariant, OkrTypeOK, Overtaken
<1>5. OkrRequestsOK'
  BY <1>2, <1>3, OkrAssumption, CommitsKeepOkrRequests
<1>6. ASSUME ~okrRaced' PROVE KpisMeasureSomething'
  <2>1. ~okrRaced /\ ~strategist[s].overtaken
    BY <1>2, <1>6 DEF Overtaken, FinishCreateKeyResult, StrategistDoes
  <2>2. LiveOkr(r.o) /\ row.okr = r.o /\ row.live
    BY <1>1, <2>1 DEF StillMeasured
  <2>3. keyResult'[r.k] = row /\ \A k \in KeyResults : k # r.k => keyResult'[k] = keyResult[k]
    BY <1>1, <1>2, <1>3
  <2>4. ASSUME NEW k \in KeyResults, LiveKeyResult(k)' PROVE LiveOkr(keyResult[k].okr)'
    <3> HIDE DEF row
    <3>1. CASE k = r.k
      BY <1>2, <2>2, <2>3, <3>1 DEF LiveOkr
    <3>2. CASE k # r.k
      BY <1>2, <2>1, <2>3, <2>4, <3>2 DEF LiveOkr, LiveKeyResult, OkrInvariant, KpisMeasureSomething
    <3> QED BY <3>1, <3>2
  <2>5. ASSUME NEW m \in Measures, LiveMeasure(m), m \notin lateMeasures, measure[m].of # Missing
        PROVE  LiveKeyResult(measure[m].of)'
    <3>1. measure[m].of \in KeyResults
      BY <2>5 DEF OkrInvariant, OkrTypeOK, MeasureRow, LiveMeasure
    <3>2. LiveKeyResult(measure[m].of)
      BY <2>1, <2>5 DEF OkrInvariant, KpisMeasureSomething
    <3>3. measure[m].of # r.k
      BY <1>2, <3>2 DEF LiveKeyResult
    <3> QED BY <1>2, <2>3, <3>1, <3>2, <3>3 DEF LiveKeyResult
  <2> QED BY <1>2, <2>4, <2>5 DEF KpisMeasureSomething, LiveMeasure
<1> QED BY <1>4, <1>5, <1>6 DEF OkrInvariant, KpisMeasureSomething

\* delete_okr: with its key results.
LEMMA DeletingOkrsKeepsOkrs ==
  ASSUME OkrInvariant, NEW s \in Strategists, FinishDeleteOkr(s)
  PROVE  OkrInvariant'
<1> DEFINE r == strategist[s].todo
<1>1. /\ r \in OkrTodo /\ r.op = "delete okr" /\ r.o \in Okrs /\ r.results \subseteq KeyResults
      /\ NamesObjectives(r)
      /\ ~strategist[s].overtaken => StillMeasured(r)
  BY DEF OkrInvariant, OkrRequestsOK, FinishDeleteOkr, StrategistDoes, OkrRequest, OkrTodo
<1>2. /\ okr' = [okr EXCEPT ![r.o].live = FALSE]
      /\ keyResult' = [k \in KeyResults |->
            IF k \in r.results THEN [keyResult[k] EXCEPT !.live = FALSE] ELSE keyResult[k]]
      /\ strategist' = Committed(strategist, s, Missing) /\ UNCHANGED <<measure, lateMeasures>>
      /\ okrRaced' = (okrRaced \/ Overtaken(strategist, s, Missing))
  BY DEF FinishDeleteOkr, StrategistCommits
<1>3. /\ okr \in [Okrs -> OkrRow \cup {Missing}] /\ okr[r.o] \in OkrRow
      /\ keyResult \in [KeyResults -> KeyResultRow \cup {Missing}]
      /\ \A k \in r.results : keyResult[k] \in KeyResultRow
  BY <1>1 DEF OkrInvariant, OkrTypeOK, NamesObjectives
<1>4. [okr[r.o] EXCEPT !.live = FALSE] \in OkrRow
  BY <1>3 DEF OkrRow
<1>5. /\ okr' \in [Okrs -> OkrRow \cup {Missing}]
      /\ okr'[r.o] = [okr[r.o] EXCEPT !.live = FALSE]
      /\ \A o \in Okrs : o # r.o => okr'[o] = okr[o]
  BY <1>1, <1>2, <1>3, <1>4
<1>6. ASSUME NEW k \in r.results
      PROVE  /\ keyResult'[k] \in KeyResultRow /\ ~keyResult'[k].live
             /\ keyResult'[k].okr = keyResult[k].okr
  <2>1. keyResult'[k] = [keyResult[k] EXCEPT !.live = FALSE] /\ keyResult[k] \in KeyResultRow
    BY <1>1, <1>2, <1>3
  <2> QED BY <2>1 DEF KeyResultRow
<1>7. \A k \in KeyResults : k \notin r.results => keyResult'[k] = keyResult[k]
  BY <1>2
<1>8. keyResult' \in [KeyResults -> KeyResultRow \cup {Missing}]
  <2>1. keyResult' = [k \in KeyResults |-> keyResult'[k]]
    BY <1>2
  <2>2. \A k \in KeyResults : keyResult'[k] \in KeyResultRow \cup {Missing}
    BY <1>3, <1>6, <1>7
  <2> QED BY <2>1, <2>2
<1>9. OkrTypeOK'
  BY <1>2, <1>5, <1>8 DEF OkrInvariant, OkrTypeOK, Overtaken
<1>10. OkrRequestsOK'
  <2>1. \A o \in Okrs : okr[o] # Missing => okr'[o] # Missing
    BY <1>4, <1>5, OkrAssumption
  <2>2. \A k \in KeyResults : keyResult[k] # Missing => keyResult'[k] # Missing
    BY <1>6, <1>7, OkrAssumption
  <2> QED BY <1>2, <2>1, <2>2, CommitsKeepOkrRequests
<1>11. ASSUME ~okrRaced' PROVE KpisMeasureSomething'
  <2>1. ~okrRaced /\ ~strategist[s].overtaken
    BY <1>2, <1>11 DEF Overtaken, FinishDeleteOkr, StrategistDoes
  <2>2. r.results = KeyResultsOf(r.o) /\ KpisOnKeyResults(r.results) = {}
    BY <1>1, <2>1 DEF StillMeasured
  <2>3. ASSUME NEW k \in KeyResults, LiveKeyResult(k)' PROVE LiveOkr(keyResult[k].okr)'
    <3>1. k \notin r.results /\ LiveKeyResult(k) /\ keyResult'[k] = keyResult[k]
      BY <1>6, <1>7, <2>3 DEF LiveKeyResult
    <3>2. keyResult[k].okr # r.o /\ LiveOkr(keyResult[k].okr)
      BY <2>1, <2>2, <3>1 DEF KeyResultsOf, OkrInvariant, KpisMeasureSomething
    <3>3. keyResult[k].okr \in Okrs
      BY <1>3, <3>1 DEF LiveKeyResult, KeyResultRow
    <3> QED BY <1>5, <3>1, <3>2, <3>3 DEF LiveOkr
  <2>4. ASSUME NEW m \in Measures, LiveMeasure(m), m \notin lateMeasures, measure[m].of # Missing
        PROVE  LiveKeyResult(measure[m].of)'
    <3>1. measure[m].of \in KeyResults
      BY <2>4 DEF OkrInvariant, OkrTypeOK, MeasureRow, LiveMeasure
    <3>2. LiveKeyResult(measure[m].of)
      BY <2>1, <2>4 DEF OkrInvariant, KpisMeasureSomething
    <3>3. measure[m].of \notin r.results
      BY <2>2, <2>4 DEF KpisOnKeyResults
    <3> QED BY <1>2, <1>7, <3>1, <3>2, <3>3 DEF LiveKeyResult
  <2> QED BY <1>2, <2>3, <2>4 DEF KpisMeasureSomething, LiveMeasure
<1> QED BY <1>9, <1>10, <1>11 DEF OkrInvariant, KpisMeasureSomething

\* delete_key_result.
LEMMA DeletingKeyResultsKeepsOkrs ==
  ASSUME OkrInvariant, NEW s \in Strategists, FinishDeleteKeyResult(s)
  PROVE  OkrInvariant'
<1> DEFINE r == strategist[s].todo
<1>1. /\ r \in OkrTodo /\ r.op = "delete key result" /\ r.k \in KeyResults
      /\ NamesObjectives(r)
      /\ ~strategist[s].overtaken => StillMeasured(r)
  BY DEF OkrInvariant, OkrRequestsOK, FinishDeleteKeyResult, StrategistDoes, OkrRequest, OkrTodo
<1>2. /\ keyResult' = [keyResult EXCEPT ![r.k].live = FALSE]
      /\ strategist' = Committed(strategist, s, Missing) /\ UNCHANGED <<okr, measure, lateMeasures>>
      /\ okrRaced' = (okrRaced \/ Overtaken(strategist, s, Missing))
  BY DEF FinishDeleteKeyResult, StrategistCommits
<1>3. keyResult \in [KeyResults -> KeyResultRow \cup {Missing}] /\ keyResult[r.k] \in KeyResultRow
  BY <1>1 DEF OkrInvariant, OkrTypeOK, NamesObjectives
<1>4. [keyResult[r.k] EXCEPT !.live = FALSE] \in KeyResultRow
  BY <1>3 DEF KeyResultRow
<1>5. /\ keyResult' \in [KeyResults -> KeyResultRow \cup {Missing}]
      /\ keyResult'[r.k] = [keyResult[r.k] EXCEPT !.live = FALSE]
      /\ \A k \in KeyResults : k # r.k => keyResult'[k] = keyResult[k]
  BY <1>1, <1>2, <1>3, <1>4
<1>6. ~keyResult'[r.k].live
  BY <1>3, <1>5 DEF KeyResultRow
<1>7. OkrTypeOK'
  BY <1>2, <1>5 DEF OkrInvariant, OkrTypeOK, Overtaken
<1>8. OkrRequestsOK'
  <2>1. \A k \in KeyResults : keyResult[k] # Missing => keyResult'[k] # Missing
    BY <1>4, <1>5, OkrAssumption
  <2> QED BY <1>2, <2>1, CommitsKeepOkrRequests
<1>9. ASSUME ~okrRaced' PROVE KpisMeasureSomething'
  <2>1. ~okrRaced /\ ~strategist[s].overtaken
    BY <1>2, <1>9 DEF Overtaken, FinishDeleteKeyResult, StrategistDoes
  <2>2. KpisOnKeyResults({r.k}) = {}
    BY <1>1, <2>1 DEF StillMeasured
  <2>3. ASSUME NEW k \in KeyResults, LiveKeyResult(k)' PROVE LiveOkr(keyResult[k].okr)'
    BY <1>2, <1>5, <1>6, <2>1, <2>3 DEF LiveKeyResult, LiveOkr, OkrInvariant, KpisMeasureSomething
  <2>4. ASSUME NEW m \in Measures, LiveMeasure(m), m \notin lateMeasures, measure[m].of # Missing
        PROVE  LiveKeyResult(measure[m].of)'
    <3>1. measure[m].of \in KeyResults
      BY <2>4 DEF OkrInvariant, OkrTypeOK, MeasureRow, LiveMeasure
    <3>2. LiveKeyResult(measure[m].of)
      BY <2>1, <2>4 DEF OkrInvariant, KpisMeasureSomething
    <3>3. measure[m].of # r.k
      BY <2>2, <2>4 DEF KpisOnKeyResults
    <3> QED BY <1>2, <1>5, <3>1, <3>2, <3>3 DEF LiveKeyResult
  <2> QED BY <1>2, <2>3, <2>4 DEF KpisMeasureSomething, LiveMeasure
<1> QED BY <1>7, <1>8, <1>9 DEF OkrInvariant, KpisMeasureSomething

\* What the three of them find out first.
LEMMA AskingKeepsOkrs ==
  ASSUME OkrInvariant, NEW s \in Strategists,
         \/ \E k \in KeyResults, o \in Okrs : BeginCreateKeyResult(s, k, o)
         \/ \E o \in Okrs : BeginDeleteOkr(s, o)
         \/ \E k \in KeyResults : BeginDeleteKeyResult(s, k)
  PROVE  OkrInvariant'
<1>1. ASSUME NEW k \in KeyResults, NEW o \in Okrs, BeginCreateKeyResult(s, k, o)
      PROVE  OkrInvariant'
  <2> DEFINE r == [op |-> "create", k |-> k, o |-> o]
  <2>1. r \in OkrTodo /\ NamesObjectives(r) /\ StillMeasured(r) /\ StrategistReady(s, r)
    BY <1>1 DEF OkrTodo, NamesObjectives, StillMeasured, BeginCreateKeyResult
  <2> HIDE DEF r
  <2> QED BY <2>1, ChecksKeepObjectives
<1>2. ASSUME NEW o \in Okrs, BeginDeleteOkr(s, o) PROVE OkrInvariant'
  <2> DEFINE r == [op |-> "delete okr", o |-> o, results |-> KeyResultsOf(o)]
  <2>1. r \in OkrTodo /\ StrategistReady(s, r)
    BY <1>2 DEF OkrTodo, KeyResultsOf, BeginDeleteOkr
  <2>2. NamesObjectives(r)
    BY <1>2 DEF NamesObjectives, KeyResultsOf, LiveOkr, LiveKeyResult, BeginDeleteOkr
  <2>3. StillMeasured(r)
    BY <1>2 DEF StillMeasured, BeginDeleteOkr
  <2> HIDE DEF r
  <2> QED BY <2>1, <2>2, <2>3, ChecksKeepObjectives
<1>3. ASSUME NEW k \in KeyResults, BeginDeleteKeyResult(s, k) PROVE OkrInvariant'
  <2> DEFINE r == [op |-> "delete key result", k |-> k]
  <2>1. r \in OkrTodo /\ NamesObjectives(r) /\ StillMeasured(r) /\ StrategistReady(s, r)
    BY <1>3 DEF OkrTodo, NamesObjectives, LiveKeyResult, StillMeasured, BeginDeleteKeyResult
  <2> HIDE DEF r
  <2> QED BY <2>1, ChecksKeepObjectives
<1> QED BY <1>1, <1>2, <1>3

\* A request that fails.
LEMMA AbandoningKeepsOkrs ==
  ASSUME OkrInvariant, NEW s \in Strategists,
         AbandonStrategist(s) \/ UNCHANGED okrVars
  PROVE  OkrInvariant'
<1>1. UNCHANGED <<okr, keyResult, measure, okrRaced, lateMeasures>>
  BY DEF AbandonStrategist, okrVars
<1>2. strategist' \in [Strategists -> OkrRequest \cup {Missing}]
  BY DEF OkrInvariant, OkrRequestsOK, AbandonStrategist, okrVars
<1>3. ASSUME NEW t \in Strategists, strategist'[t] # Missing
      PROVE  /\ NamesObjectives(strategist[t].todo)'
             /\ ~strategist'[t].overtaken => StillMeasured(strategist[t].todo)'
  <2>1. strategist'[t] = strategist[t]
    BY <1>3 DEF OkrInvariant, OkrRequestsOK, AbandonStrategist, okrVars
  <2>2. /\ NamesObjectives(strategist[t].todo)
        /\ ~strategist[t].overtaken => StillMeasured(strategist[t].todo)
    BY <1>3, <2>1 DEF OkrInvariant, OkrRequestsOK
  <2> QED BY <1>1, <2>1, <2>2, SameRowsSameFindings
<1>4. OkrTypeOK' /\ KpisMeasureSomething'
  BY <1>1 DEF OkrInvariant, OkrTypeOK, KpisMeasureSomething, LiveOkr, LiveKeyResult, LiveMeasure
<1> QED BY <1>2, <1>3, <1>4 DEF OkrInvariant, OkrRequestsOK

\* create_okr.
LEMMA CreatingOkrsKeepsOkrs ==
  ASSUME OkrInvariant, NEW o \in Okrs, CreateOkr(o)
  PROVE  OkrInvariant'
<1>1. /\ okr[o] = Missing /\ okr' = [okr EXCEPT ![o] = [live |-> TRUE]]
      /\ strategist' = Committed(strategist, Missing, Missing)
      /\ UNCHANGED <<keyResult, measure, okrRaced, lateMeasures>>
  BY DEF CreateOkr, AtOnce
<1>2. okr \in [Okrs -> OkrRow \cup {Missing}] /\ [live |-> TRUE] \in OkrRow
  BY DEF OkrInvariant, OkrTypeOK, OkrRow
<1>3. OkrTypeOK'
  BY <1>1, <1>2 DEF OkrInvariant, OkrTypeOK
<1>4. OkrRequestsOK'
  BY <1>1, <1>2, OkrAssumption, CommitsKeepOkrRequests
<1>5. \A x \in Okrs : LiveOkr(x) => LiveOkr(x)'
  BY <1>1, <1>2 DEF LiveOkr
<1>6. ASSUME ~okrRaced' PROVE KpisMeasureSomething'
  <2>1. ASSUME NEW k \in KeyResults, LiveKeyResult(k) PROVE LiveOkr(keyResult[k].okr)'
    <3>1. LiveOkr(keyResult[k].okr)
      BY <1>1, <1>6, <2>1 DEF OkrInvariant, KpisMeasureSomething
    <3>2. keyResult[k].okr \in Okrs
      BY <2>1 DEF OkrInvariant, OkrTypeOK, KeyResultRow, LiveKeyResult
    <3> QED BY <1>1, <1>5, <3>1, <3>2 DEF LiveOkr
  <2> QED BY <1>1, <1>6, <2>1 DEF OkrInvariant, KpisMeasureSomething, LiveKeyResult, LiveMeasure
<1> QED BY <1>3, <1>4, <1>6 DEF OkrInvariant, KpisMeasureSomething

\* The KPIs that are attached to key results, and leave them.
LEMMA MeasuringKeepsOkrs ==
  ASSUME OkrInvariant, NEW m \in Measures,
         (\E k \in KeyResults \cup {Missing} : LinkMeasure(m, k)) \/ DropMeasure(m)
  PROVE  OkrInvariant'
<1>1. /\ strategist' = Committed(strategist, Missing, Missing)
      /\ UNCHANGED <<okr, keyResult, okrRaced>>
  BY DEF LinkMeasure, DropMeasure, AtOnce
<1>2. OkrRequestsOK'
  BY <1>1, CommitsKeepOkrRequests
<1>3. measure \in [Measures -> MeasureRow \cup {Missing}]
  BY DEF OkrInvariant, OkrTypeOK
<1>4. ASSUME NEW k \in KeyResults \cup {Missing}, LinkMeasure(m, k)
      PROVE  OkrInvariant'
  <2> DEFINE row == [of |-> k, live |-> TRUE]
  <2>1. measure' = [measure EXCEPT ![m] = row] /\ row \in MeasureRow
    BY <1>4 DEF LinkMeasure, MeasureRow
  <2>2. lateMeasures' = IF k \in {x \in KeyResults : ~LiveKeyResult(x)}
                          THEN lateMeasures \cup {m} ELSE lateMeasures \ {m}
    BY <1>4 DEF LinkMeasure
  <2>3. OkrTypeOK'
    BY <1>1, <1>3, <2>1, <2>2 DEF OkrInvariant, OkrTypeOK
  <2>4. row.of = k
    OBVIOUS
  <2> HIDE DEF row
  <2>5. measure'[m] = row /\ \A x \in Measures : x # m => measure'[x] = measure[x]
    BY <1>3, <2>1
  <2>6. ASSUME ~okrRaced', NEW x \in Measures, LiveMeasure(x)', x \notin lateMeasures',
               measure'[x].of # Missing
        PROVE  LiveKeyResult(measure[x].of)'
    <3>1. CASE x = m
      <4>1. k \in KeyResults /\ LiveKeyResult(k)
        BY <2>2, <2>4, <2>5, <2>6, <3>1
      <4> QED BY <1>1, <2>4, <2>5, <3>1, <4>1 DEF LiveKeyResult
    <3>2. CASE x # m
      <4>1. measure'[x] = measure[x] /\ x \notin lateMeasures
        BY <2>2, <2>5, <2>6, <3>2
      <4>2. LiveKeyResult(measure[x].of)
        BY <1>1, <2>6, <4>1 DEF OkrInvariant, KpisMeasureSomething, LiveMeasure
      <4> QED BY <1>1, <4>1, <4>2 DEF LiveKeyResult
    <3> QED BY <3>1, <3>2
  <2>7. ASSUME ~okrRaced', NEW x \in KeyResults, LiveKeyResult(x)' PROVE LiveOkr(keyResult[x].okr)'
    BY <1>1, <2>7 DEF OkrInvariant, KpisMeasureSomething, LiveKeyResult, LiveOkr
  <2> QED BY <1>2, <2>3, <2>6, <2>7 DEF OkrInvariant, KpisMeasureSomething
<1>5. CASE DropMeasure(m)
  <2>1. /\ measure' = [measure EXCEPT ![m].live = FALSE] /\ measure[m] \in MeasureRow
        /\ lateMeasures' = lateMeasures
    BY <1>3, <1>5 DEF DropMeasure, LiveMeasure
  <2>2. [measure[m] EXCEPT !.live = FALSE] \in MeasureRow
    BY <2>1 DEF MeasureRow
  <2>3. /\ measure' \in [Measures -> MeasureRow \cup {Missing}]
        /\ measure'[m] = [measure[m] EXCEPT !.live = FALSE]
        /\ \A x \in Measures : x # m => measure'[x] = measure[x]
    BY <1>3, <2>1, <2>2
  <2>4. ~measure'[m].live
    BY <2>1, <2>3 DEF MeasureRow
  <2>5. OkrTypeOK'
    BY <1>1, <2>1, <2>3 DEF OkrInvariant, OkrTypeOK
  <2>6. ASSUME ~okrRaced', NEW x \in Measures, LiveMeasure(x)', x \notin lateMeasures',
               measure'[x].of # Missing
        PROVE  LiveKeyResult(measure[x].of)'
    <3>1. measure'[x] = measure[x] /\ x \notin lateMeasures
      BY <2>1, <2>3, <2>4, <2>6 DEF LiveMeasure
    <3>2. LiveKeyResult(measure[x].of)
      BY <1>1, <2>6, <3>1 DEF OkrInvariant, KpisMeasureSomething, LiveMeasure
    <3> QED BY <1>1, <3>1, <3>2 DEF LiveKeyResult
  <2>7. ASSUME ~okrRaced', NEW x \in KeyResults, LiveKeyResult(x)' PROVE LiveOkr(keyResult[x].okr)'
    BY <1>1, <2>7 DEF OkrInvariant, KpisMeasureSomething, LiveKeyResult, LiveOkr
  <2> QED BY <1>2, <2>5, <2>6, <2>7 DEF OkrInvariant, KpisMeasureSomething
<1> QED BY <1>4, <1>5

\* Inv /\ [Next]_vars => Inv'.
LEMMA OkrInvariantIsInductive ==
  ASSUME OkrInvariant, [OkrNext]_okrVars
  PROVE  OkrInvariant'
<1>1. ASSUME UNCHANGED okrVars PROVE OkrInvariant'
  <2>1. CASE Strategists = {}
    BY <1>1, <2>1 DEF okrVars, OkrInvariant, OkrTypeOK, OkrRequestsOK, KpisMeasureSomething, LiveOkr,
       LiveKeyResult, LiveMeasure
  <2> QED BY <1>1, <2>1, AbandoningKeepsOkrs
<1> QED BY <1>1, AskingKeepsOkrs, AbandoningKeepsOkrs, CreatingKeyResultsKeepsOkrs, DeletingOkrsKeepsOkrs,
        DeletingKeyResultsKeepsOkrs, CreatingOkrsKeepsOkrs, MeasuringKeepsOkrs DEF OkrNext

\* However objectives, key results and KPIs are created, linked and deleted.
THEOREM KpisAlwaysMeasureSomething == OkrSpec => []KpisMeasureSomething
<1>1. OkrInvariant /\ [OkrNext]_okrVars => OkrInvariant'
  BY OkrInvariantIsInductive
<1>2. OkrInvariant => KpisMeasureSomething
  BY DEF OkrInvariant
<1> QED BY <1>1, <1>2, OkrInvariantAtFirst, PTL DEF OkrSpec

-----------------------------------------------------------------------------
(* The Business DNA. *)

\* The rows, and what of them a save may send.
OrgRow  == [OrgFields -> Texts \cup {Unwritten}]
Columns == UNION {[D -> Texts \cup {Unwritten}] : D \in SUBSET (DnaFields \cup OrgFields)}

\* The two kinds of request.
SaveRequest ==
  [pc : {"insert", "update", "organization", "name", "commit"}, form : Forms,
   seen : BusinessDNA \cup {Unwritten}, seenOrg : OrgRow, sent : Columns]

CoreValueRequest == [pc : {"core value"}, c : CoreValues, text : Texts, seen : Texts]

\* A save that has not come to a row of business_dna has sent nothing; after that it has
\* sent what it had to: a new row as a whole, else what differs from the row it loaded.
SentDna(e) ==
  \A f \in DnaFields :
    IF e.pc \in {"insert", "update"} THEN f \notin DOMAIN e.sent
    ELSE IF e.seen = Unwritten
      THEN /\ f \in DOMAIN e.sent
           /\ e.sent[f] = IF f \in DOMAIN e.form THEN e.form[f] ELSE Unwritten
    ELSE /\ f \in DOMAIN e.sent <=> f \in DOMAIN e.form /\ e.form[f] # e.seen[f]
         /\ f \in DOMAIN e.sent => e.sent[f] = e.form[f]

\* The same of the organization, which comes last.
SentOrg(e) ==
  \A f \in OrgFields :
    IF e.pc # "commit" THEN f \notin DOMAIN e.sent
    ELSE /\ f \in DOMAIN e.sent <=> f \in DOMAIN e.form /\ e.form[f] # e.seenOrg[f]
         /\ f \in DOMAIN e.sent => e.sent[f] = e.form[f]

\* A request that has inserted the row, and has not committed.
HasInserted(e) == e.pc \in {"organization", "name", "commit"} /\ e.seen = Unwritten

\* What is known of a save under way.
SaveOK(e) ==
  /\ e \in SaveRequest /\ SentDna(e) /\ SentOrg(e)
  /\ e.pc = "insert" => e.seen = Unwritten
  /\ e.pc = "update" => e.seen # Unwritten
  /\ e.seen # Unwritten => dna # Unwritten
  /\ HasInserted(e) => dna = Unwritten

\* Two requests do not both hold the uncommitted row: the key is unique.
OneInserts ==
  \A r, s \in Editors :
    r # s /\ Saves(r) /\ Saves(s) => ~(HasInserted(editor[r]) /\ HasInserted(editor[s]))

\* The table of requests.
EditorsOK ==
  /\ editor \in [Editors -> SaveRequest \cup CoreValueRequest \cup {Unwritten}]
  /\ \A s \in Editors : Saves(s) => SaveOK(editor[s])

\* The invariant.
DnaInvariant == DnaTypeOK /\ EditorsOK /\ OneInserts

\* Init => Inv.
LEMMA DnaInvariantAtFirst == DnaInit => DnaInvariant
<1> SUFFICES ASSUME DnaInit PROVE DnaInvariant
  OBVIOUS
<1>1. /\ dna = Unwritten /\ org \in OrgRow /\ coreValue \in [CoreValues -> Texts \cup {Unwritten, Removed}]
      /\ editor \in [Editors -> {Unwritten}]
  BY DEF DnaInit, OrgRow
<1>2. DnaTypeOK
  BY <1>1 DEF DnaTypeOK, OrgRow
<1>3. \A s \in Editors : ~Saves(s)
  BY <1>1 DEF Saves
<1> QED BY <1>1, <1>2, <1>3 DEF DnaInvariant, EditorsOK, OneInserts

\* One request goes on, and the tables stay as they are.
LEMMA OneSaveGoesOn ==
  ASSUME DnaInvariant, NEW s \in Editors, NEW e \in SaveRequest,
         UNCHANGED <<dna, org, coreValue>>, editor' = [editor EXCEPT ![s] = e],
         SaveOK(e),
         HasInserted(e) => \A r \in Editors : r # s /\ Saves(r) => ~HasInserted(editor[r])
  PROVE  DnaInvariant'
<1>1. DnaTypeOK'
  BY DEF DnaInvariant, DnaTypeOK
<1>2. editor' \in [Editors -> SaveRequest \cup CoreValueRequest \cup {Unwritten}]
  BY DEF DnaInvariant, EditorsOK
<1>3. editor'[s] = e /\ \A r \in Editors : r # s => editor'[r] = editor[r]
  BY DEF DnaInvariant, EditorsOK
<1>4. ASSUME NEW r \in Editors, Saves(r)' PROVE SaveOK(editor[r])'
  <2>1. CASE r = s
    BY <1>3, <2>1 DEF SaveOK
  <2>2. CASE r # s
    BY <1>3, <1>4, <2>2 DEF DnaInvariant, EditorsOK, Saves, SaveOK
  <2> QED BY <2>1, <2>2
<1>5. OneInserts'
  <2> SUFFICES ASSUME NEW r \in Editors, NEW t \in Editors, r # t, Saves(r)', Saves(t)',
                      HasInserted(editor[r])', HasInserted(editor[t])'
               PROVE  FALSE
    BY DEF OneInserts
  <2>1. CASE r = s \/ t = s
    BY <1>3, <2>1 DEF Saves
  <2>2. CASE r # s /\ t # s
    BY <1>3, <2>2 DEF DnaInvariant, OneInserts, Saves
  <2> QED BY <2>1, <2>2
<1> QED BY <1>1, <1>2, <1>4, <1>5 DEF DnaInvariant, EditorsOK

\* A save that begins has sent nothing.
LEMMA SavesBegin ==
  ASSUME DnaInvariant, NEW s \in Editors, NEW form \in Forms, BeginUpsert(s, form)
  PROVE  DnaInvariant'
<1> DEFINE e == [pc |-> IF dna = Unwritten THEN "insert" ELSE "update",
                 form |-> form, seen |-> dna, seenOrg |-> org, sent |-> << >>]
<1>1. << >> \in Columns /\ DOMAIN << >> = {}
  <2>1. << >> \in [{} -> Texts \cup {Unwritten}]
    OBVIOUS
  <2> QED BY <2>1 DEF Columns
<1>2. e \in SaveRequest
  BY <1>1 DEF SaveRequest, DnaInvariant, DnaTypeOK, OrgRow
<1>3. SaveOK(e) /\ ~HasInserted(e)
  BY <1>1, <1>2 DEF SaveOK, SentDna, SentOrg, HasInserted
<1>4. editor' = [editor EXCEPT ![s] = e] /\ UNCHANGED <<dna, org, coreValue>>
  BY DEF BeginUpsert
<1> HIDE DEF e
<1> QED BY <1>2, <1>3, <1>4, OneSaveGoesOn

\* The insert, which may find that somebody else was first.
LEMMA Inserting ==
  ASSUME DnaInvariant, NEW s \in Editors, InsertDna(s)
  PROVE  DnaInvariant'
<1> DEFINE old == editor[s]
           row == [f \in DnaFields |-> IF f \in DOMAIN old.form THEN old.form[f] ELSE Unwritten]
<1>1. /\ old \in SaveRequest /\ SaveOK(old) /\ Saves(s) /\ old.pc = "insert" /\ old.form \in Forms
  <2>1. old.pc = "insert" /\ old # Unwritten
    BY DEF InsertDna, Edits
  <2>2. Saves(s)
    BY <2>1 DEF Saves
  <2> QED BY <2>1, <2>2 DEF DnaInvariant, EditorsOK, SaveOK, SaveRequest
<1>2. CASE dna = Unwritten
  <2> DEFINE e == [old EXCEPT !.pc = "organization", !.seen = dna, !.sent = row]
  <2>1. editor' = [editor EXCEPT ![s] = e] /\ UNCHANGED <<dna, org, coreValue>>
    BY <1>2 DEF InsertDna, GoesOn
  <2>2. row \in Columns
    <3>1. row \in [DnaFields -> Texts \cup {Unwritten}]
      BY <1>1, DnaAssumption
    <3> QED BY <3>1 DEF Columns
  <2>3. /\ e \in SaveRequest /\ e.pc = "organization" /\ e.seen = Unwritten /\ e.sent = row
        /\ e.form = old.form
    <3> HIDE DEF row
    <3> QED BY <1>1, <1>2, <2>2 DEF SaveRequest
  <2>4. SaveOK(e)
    <3>1. SentDna(e)
      <4> HIDE DEF e
      <4> QED BY <2>3 DEF SentDna
    <3>2. SentOrg(e)
      <4> HIDE DEF e
      <4> QED BY <2>3, DnaAssumption DEF SentOrg
    <3> HIDE DEF e
    <3> QED BY <1>2, <2>3, <3>1, <3>2 DEF SaveOK
  <2>5. ASSUME NEW r \in Editors, r # s, Saves(r) PROVE ~HasInserted(editor[r])
    <3>1. SaveOK(editor[r])
      BY <2>5 DEF DnaInvariant, EditorsOK
    <3>2. DOMAIN editor[r].sent \cap DnaFields = {}
      BY <2>5 DEF InsertDna, HeldByAnother
    <3> QED BY <3>1, <3>2, DnaAssumption DEF SaveOK, SentDna, HasInserted
  <2> HIDE DEF e
  <2> QED BY <2>1, <2>3, <2>4, <2>5, OneSaveGoesOn
<1>3. CASE dna # Unwritten
  <2> DEFINE e == [old EXCEPT !.pc = "update", !.seen = dna, !.sent = << >>]
  <2>1. editor' = [editor EXCEPT ![s] = e] /\ UNCHANGED <<dna, org, coreValue>>
    BY <1>3 DEF InsertDna, GoesOn
  <2>2. << >> \in Columns /\ DOMAIN << >> = {}
    <3>1. << >> \in [{} -> Texts \cup {Unwritten}]
      OBVIOUS
    <3> QED BY <3>1 DEF Columns
  <2>3. e \in SaveRequest /\ e.pc = "update" /\ e.seen = dna /\ e.sent = << >> /\ e.form = old.form
    BY <1>1, <2>2 DEF SaveRequest, DnaInvariant, DnaTypeOK
  <2> HIDE DEF e
  <2>4. SaveOK(e) /\ ~HasInserted(e)
    BY <1>3, <2>2, <2>3 DEF SaveOK, SentDna, SentOrg, HasInserted
  <2> QED BY <2>1, <2>3, <2>4, OneSaveGoesOn
<1> QED BY <1>2, <1>3

\* What differs between a form and a loaded row.
LEMMA Differences ==
  ASSUME NEW form \in Forms, NEW row \in Columns
  PROVE  /\ Differing(form, row) \in Columns
         /\ DOMAIN Differing(form, row) = {f \in DOMAIN form \cap DOMAIN row : form[f] # row[f]}
         /\ \A f \in DOMAIN Differing(form, row) : Differing(form, row)[f] = form[f]
<1> DEFINE D == {f \in DOMAIN form \cap DOMAIN row : form[f] # row[f]}
<1>1. Differing(form, row) = [f \in D |-> form[f]]
  BY DEF Differing
<1>2. D \in SUBSET (DnaFields \cup OrgFields)
  BY DnaAssumption
<1>3. Differing(form, row) \in [D -> Texts \cup {Unwritten}]
  BY <1>1, DnaAssumption
<1> HIDE DEF D
<1>4. Differing(form, row) \in Columns
  BY <1>2, <1>3 DEF Columns
<1> QED BY <1>1, <1>3, <1>4 DEF D

\* The update of a row that was there.
LEMMA Updating ==
  ASSUME DnaInvariant, NEW s \in Editors, UpdateDna(s)
  PROVE  DnaInvariant'
<1> DEFINE old == editor[s]
           written == Differing(old.form, old.seen)
           e == [old EXCEPT !.pc = "organization", !.seen = old.seen, !.sent = written]
<1>1. /\ old \in SaveRequest /\ SaveOK(old) /\ old.pc = "update" /\ old.form \in Forms
      /\ old.seen \in BusinessDNA /\ old.seen # Unwritten /\ dna # Unwritten
  <2>1. old.pc = "update" /\ old # Unwritten
    BY DEF UpdateDna, Edits
  <2>2. Saves(s)
    BY <2>1 DEF Saves
  <2> QED BY <2>1, <2>2 DEF DnaInvariant, EditorsOK, SaveOK, SaveRequest
<1>2. editor' = [editor EXCEPT ![s] = e] /\ UNCHANGED <<dna, org, coreValue>>
  BY DEF UpdateDna, GoesOn
<1>3. old.seen \in Columns /\ DOMAIN old.seen = DnaFields
  BY <1>1 DEF Columns, BusinessDNA
<1>4. /\ written \in Columns
      /\ DOMAIN written = {f \in DOMAIN old.form \cap DnaFields : old.form[f] # old.seen[f]}
      /\ \A f \in DOMAIN written : written[f] = old.form[f]
  BY <1>1, <1>3, Differences
<1>5. /\ e \in SaveRequest /\ e.pc = "organization" /\ e.seen = old.seen /\ e.sent = written
      /\ e.form = old.form
  <2> HIDE DEF written
  <2> QED BY <1>1, <1>4 DEF SaveRequest
<1> HIDE DEF written, e
<1>6. SentDna(e) /\ SentOrg(e)
  BY <1>1, <1>4, <1>5, DnaAssumption DEF SentDna, SentOrg
<1>7. SaveOK(e) /\ ~HasInserted(e)
  BY <1>1, <1>5, <1>6 DEF SaveOK, HasInserted
<1> QED BY <1>2, <1>5, <1>7, OneSaveGoesOn

\* The read of the organization.
LEMMA Reading ==
  ASSUME DnaInvariant, NEW s \in Editors, ReadOrganization(s)
  PROVE  DnaInvariant'
<1> DEFINE old == editor[s]
           next == IF DOMAIN old.form \cap OrgFields = {} THEN "commit" ELSE "name"
           e == [old EXCEPT !.seenOrg = org, !.pc = next]
<1>1. old \in SaveRequest /\ SaveOK(old) /\ old.pc = "organization" /\ Saves(s)
  <2>1. old.pc = "organization" /\ old # Unwritten
    BY DEF ReadOrganization, Edits
  <2>2. Saves(s)
    BY <2>1 DEF Saves
  <2> QED BY <2>1, <2>2 DEF DnaInvariant, EditorsOK, SaveOK
<1>2. editor' = [editor EXCEPT ![s] = e] /\ UNCHANGED <<dna, org, coreValue>>
  BY DEF ReadOrganization
<1>3. /\ e \in SaveRequest /\ e.pc = next /\ e.seen = old.seen /\ e.sent = old.sent
      /\ e.form = old.form /\ e.seenOrg = org
  BY <1>1 DEF SaveRequest, DnaInvariant, DnaTypeOK, OrgRow
<1>4. next \in {"commit", "name"} /\ (next = "commit" => DOMAIN old.form \cap OrgFields = {})
  OBVIOUS
<1> HIDE DEF next, e
<1>5. SentDna(e)
  BY <1>1, <1>3, <1>4 DEF SaveOK, SentDna
<1>6. SentOrg(e)
  BY <1>1, <1>3, <1>4 DEF SaveOK, SentOrg
<1>7. SaveOK(e)
  BY <1>1, <1>3, <1>4, <1>5, <1>6 DEF SaveOK, HasInserted
<1>8. ASSUME HasInserted(e), NEW r \in Editors, r # s, Saves(r) PROVE ~HasInserted(editor[r])
  BY <1>1, <1>3, <1>8 DEF HasInserted, DnaInvariant, OneInserts
<1> QED BY <1>2, <1>3, <1>7, <1>8, OneSaveGoesOn

\* The write of the organization.
LEMMA Naming ==
  ASSUME DnaInvariant, NEW s \in Editors, UpdateOrganization(s)
  PROVE  DnaInvariant'
<1> DEFINE old == editor[s]
           written == Differing(old.form, old.seenOrg)
           sent == [f \in DOMAIN written \cup DOMAIN old.sent |->
                      IF f \in DOMAIN written THEN written[f] ELSE old.sent[f]]
           e == [old EXCEPT !.pc = "commit", !.seen = old.seen, !.sent = sent]
<1>1. /\ old \in SaveRequest /\ SaveOK(old) /\ old.pc = "name" /\ Saves(s) /\ old.form \in Forms
      /\ old.seenOrg \in OrgRow /\ old.sent \in Columns
  <2>1. old.pc = "name" /\ old # Unwritten
    BY DEF UpdateOrganization, Edits
  <2>2. Saves(s)
    BY <2>1 DEF Saves
  <2> QED BY <2>1, <2>2 DEF DnaInvariant, EditorsOK, SaveOK, SaveRequest
<1>2. editor' = [editor EXCEPT ![s] = e] /\ UNCHANGED <<dna, org, coreValue>>
  BY DEF UpdateOrganization, GoesOn
<1>3. old.seenOrg \in Columns /\ DOMAIN old.seenOrg = OrgFields
  BY <1>1 DEF Columns, OrgRow
<1>4. /\ written \in Columns
      /\ DOMAIN written = {f \in DOMAIN old.form \cap OrgFields : old.form[f] # old.seenOrg[f]}
      /\ \A f \in DOMAIN written : written[f] = old.form[f]
  BY <1>1, <1>3, Differences
<1> HIDE DEF written
<1>5. sent \in Columns
  <2>1. /\ DOMAIN written \subseteq DnaFields \cup OrgFields
        /\ \A f \in DOMAIN written : written[f] \in Texts \cup {Unwritten}
    BY <1>4 DEF Columns
  <2>2. /\ DOMAIN old.sent \subseteq DnaFields \cup OrgFields
        /\ \A f \in DOMAIN old.sent : old.sent[f] \in Texts \cup {Unwritten}
    BY <1>1 DEF Columns
  <2>3. sent \in [DOMAIN written \cup DOMAIN old.sent -> Texts \cup {Unwritten}]
    BY <2>1, <2>2
  <2>4. DOMAIN written \cup DOMAIN old.sent \in SUBSET (DnaFields \cup OrgFields)
    BY <2>1, <2>2
  <2> QED BY <2>3, <2>4 DEF Columns
<1>6. /\ DOMAIN sent = DOMAIN written \cup DOMAIN old.sent
      /\ \A f \in DOMAIN sent : sent[f] = IF f \in DOMAIN written THEN written[f] ELSE old.sent[f]
  OBVIOUS
<1> HIDE DEF sent
<1>7. /\ e \in SaveRequest /\ e.pc = "commit" /\ e.seen = old.seen /\ e.sent = sent
      /\ e.form = old.form /\ e.seenOrg = old.seenOrg
  BY <1>1, <1>5 DEF SaveRequest
<1> HIDE DEF e
<1>8. SentDna(e)
  <2>1. \A f \in DnaFields : /\ f \in DOMAIN sent <=> f \in DOMAIN old.sent
                             /\ f \in DOMAIN sent => sent[f] = old.sent[f]
    BY <1>4, <1>6, DnaAssumption
  <2> QED BY <1>1, <1>7, <2>1 DEF SaveOK, SentDna
<1>9. SentOrg(e)
  <2>1. \A f \in OrgFields : f \notin DOMAIN old.sent
    BY <1>1 DEF SaveOK, SentOrg
  <2>2. \A f \in OrgFields : f \in DOMAIN sent <=> f \in DOMAIN written
    BY <1>6, <2>1
  <2>3. \A f \in DOMAIN written : sent[f] = old.form[f]
    BY <1>4, <1>6
  <2> QED BY <1>4, <1>7, <2>2, <2>3 DEF SentOrg
<1>10. SaveOK(e)
  BY <1>1, <1>7, <1>8, <1>9 DEF SaveOK, HasInserted
<1>11. ASSUME HasInserted(e), NEW r \in Editors, r # s, Saves(r) PROVE ~HasInserted(editor[r])
  BY <1>1, <1>7, <1>11 DEF HasInserted, DnaInvariant, OneInserts
<1> QED BY <1>2, <1>7, <1>10, <1>11, OneSaveGoesOn

\* What a commit writes.
LEMMA CommitWrites ==
  ASSUME DnaInvariant, NEW s \in Editors, CommitUpsert(s)
  PROVE  /\ SaveOK(editor[s]) /\ editor[s].pc = "commit" /\ Saves(s)
         /\ dna' \in BusinessDNA /\ org' \in OrgRow
         /\ dna' = Written(s, DnaFields, dna) /\ org' = Written(s, OrgFields, org)
<1> DEFINE e == editor[s]
<1>1. e.pc = "commit" /\ Saves(s) /\ SaveOK(e)
  <2>1. e.pc = "commit" /\ e # Unwritten
    BY DEF CommitUpsert, Edits
  <2>2. Saves(s)
    BY <2>1 DEF Saves
  <2> QED BY <2>1, <2>2 DEF DnaInvariant, EditorsOK
<1>2. dna' = Written(s, DnaFields, dna) /\ org' = Written(s, OrgFields, org)
  BY DEF CommitUpsert
<1>3. \A f \in DOMAIN e.sent : e.sent[f] \in Texts \cup {Unwritten}
  BY <1>1 DEF SaveOK, SaveRequest, Columns
<1>4. org' \in OrgRow
  BY <1>2, <1>3 DEF Written, OrgRow, DnaInvariant, DnaTypeOK
<1>5. dna' \in BusinessDNA
  <2>1. ASSUME NEW f \in DnaFields, f \notin DOMAIN e.sent PROVE dna[f] \in Texts \cup {Unwritten}
    <3>1. e.seen # Unwritten
      BY <1>1, <2>1 DEF SaveOK, SentDna
    <3>2. dna \in BusinessDNA
      BY <1>1, <3>1 DEF SaveOK, DnaInvariant, DnaTypeOK
    <3> QED BY <3>2 DEF BusinessDNA
  <2> QED BY <1>2, <1>3, <2>1 DEF Written, BusinessDNA
<1> QED BY <1>1, <1>2, <1>4, <1>5

\* The commit.
LEMMA Committing ==
  ASSUME DnaInvariant, NEW s \in Editors, CommitUpsert(s)
  PROVE  DnaInvariant'
<1>1. /\ SaveOK(editor[s]) /\ editor[s].pc = "commit" /\ Saves(s)
      /\ dna' \in BusinessDNA /\ org' \in OrgRow
  BY CommitWrites
<1>2. editor' = [editor EXCEPT ![s] = Unwritten] /\ UNCHANGED coreValue
  BY DEF CommitUpsert
<1>3. DnaTypeOK'
  BY <1>1, <1>2 DEF DnaInvariant, DnaTypeOK, OrgRow
<1>4. editor' \in [Editors -> SaveRequest \cup CoreValueRequest \cup {Unwritten}]
  BY <1>2 DEF DnaInvariant, EditorsOK
<1>5. editor'[s] = Unwritten /\ \A r \in Editors : r # s => editor'[r] = editor[r]
  BY <1>2 DEF DnaInvariant, EditorsOK
<1>6. ASSUME NEW r \in Editors, Saves(r)'
      PROVE  r # s /\ Saves(r) /\ editor'[r] = editor[r] /\ SaveOK(editor[r])'
  <2>1. r # s /\ Saves(r) /\ editor'[r] = editor[r]
    BY <1>5, <1>6 DEF Saves
  <2>2. SaveOK(editor[r])
    BY <2>1 DEF DnaInvariant, EditorsOK
  <2>3. dna' # Unwritten
    BY <1>1, DnaAssumption
  <2>4. ~HasInserted(editor[r])
    BY <1>1, <2>1, <2>2 DEF SaveOK, HasInserted, DnaInvariant, OneInserts
  <2> QED BY <2>1, <2>2, <2>3, <2>4 DEF SaveOK
<1>7. OneInserts'
  BY <1>6 DEF DnaInvariant, OneInserts
<1> QED BY <1>3, <1>4, <1>6, <1>7 DEF DnaInvariant, EditorsOK

\* What is done to core values, and giving up, leaves the saves that go on alone.
LEMMA SavesLeftAlone ==
  ASSUME DnaInvariant, UNCHANGED <<dna, org>>,
         coreValue' \in [CoreValues -> Texts \cup {Unwritten, Removed}],
         editor' \in [Editors -> SaveRequest \cup CoreValueRequest \cup {Unwritten}],
         \A r \in Editors : Saves(r)' => Saves(r) /\ editor'[r] = editor[r]
  PROVE  DnaInvariant'
<1>1. DnaTypeOK'
  BY DEF DnaInvariant, DnaTypeOK
<1>2. ASSUME NEW r \in Editors, Saves(r)' PROVE SaveOK(editor[r])'
  BY <1>2 DEF DnaInvariant, EditorsOK, SaveOK
<1>3. OneInserts'
  BY DEF DnaInvariant, OneInserts
<1> QED BY <1>1, <1>2, <1>3 DEF DnaInvariant, EditorsOK

\* The requests of core values, and a request that fails.
LEMMA CoreValuesAndGivingUp ==
  ASSUME DnaInvariant,
         \/ \E s \in Editors :
              \/ AbandonEditor(s) \/ FinishUpdateCoreValue(s)
              \/ \E c \in CoreValues, text \in Texts : BeginUpdateCoreValue(s, c, text)
         \/ \E c \in CoreValues :
              (\E text \in Texts : CreateCoreValue(c, text)) \/ DeleteCoreValue(c)
         \/ UNCHANGED dnaVars
  PROVE  DnaInvariant'
<1>1. /\ editor \in [Editors -> SaveRequest \cup CoreValueRequest \cup {Unwritten}]
      /\ coreValue \in [CoreValues -> Texts \cup {Unwritten, Removed}]
  BY DEF DnaInvariant, EditorsOK, DnaTypeOK
<1>2. ASSUME NEW s \in Editors, AbandonEditor(s) PROVE DnaInvariant'
  BY <1>1, <1>2, SavesLeftAlone DEF AbandonEditor, Saves
<1>3. ASSUME NEW s \in Editors, FinishUpdateCoreValue(s) PROVE DnaInvariant'
  <2>1. editor[s] \in CoreValueRequest
    BY <1>1, <1>3 DEF FinishUpdateCoreValue, Edits, SaveRequest
  <2>2. coreValue' \in [CoreValues -> Texts \cup {Unwritten, Removed}]
    BY <1>1, <1>3, <2>1 DEF FinishUpdateCoreValue, CoreValueRequest
  <2> QED BY <1>1, <1>3, <2>2, SavesLeftAlone DEF FinishUpdateCoreValue, Saves
<1>4. ASSUME NEW s \in Editors, NEW c \in CoreValues, NEW text \in Texts, BeginUpdateCoreValue(s, c, text)
      PROVE  DnaInvariant'
  <2> DEFINE e == [pc |-> "core value", c |-> c, text |-> text, seen |-> coreValue[c]]
  <2>1. e \in CoreValueRequest /\ e.pc = "core value"
    BY <1>4 DEF BeginUpdateCoreValue, CoreValueRequest
  <2>2. editor' = [editor EXCEPT ![s] = e] /\ UNCHANGED <<dna, org, coreValue>>
    BY <1>4 DEF BeginUpdateCoreValue
  <2> HIDE DEF e
  <2>3. \A r \in Editors : Saves(r)' => Saves(r) /\ editor'[r] = editor[r]
    BY <1>1, <2>1, <2>2 DEF Saves
  <2>4. editor' \in [Editors -> SaveRequest \cup CoreValueRequest \cup {Unwritten}]
    BY <1>1, <2>1, <2>2
  <2> QED BY <1>1, <2>2, <2>3, <2>4, SavesLeftAlone
<1>5. ASSUME NEW c \in CoreValues,
             (\E text \in Texts : CreateCoreValue(c, text)) \/ DeleteCoreValue(c)
      PROVE  DnaInvariant'
  <2>1. UNCHANGED <<dna, org, editor>>
    BY <1>5 DEF CreateCoreValue, DeleteCoreValue
  <2>2. coreValue' \in [CoreValues -> Texts \cup {Unwritten, Removed}]
    BY <1>1, <1>5 DEF CreateCoreValue, DeleteCoreValue
  <2>3. \A r \in Editors : Saves(r)' => Saves(r) /\ editor'[r] = editor[r]
    BY <2>1 DEF Saves
  <2> QED BY <1>1, <2>1, <2>2, <2>3, SavesLeftAlone
<1>6. CASE UNCHANGED dnaVars
  <2>1. UNCHANGED <<dna, org, coreValue, editor>>
    BY <1>6 DEF dnaVars
  <2>2. \A r \in Editors : Saves(r)' => Saves(r) /\ editor'[r] = editor[r]
    BY <2>1 DEF Saves
  <2> QED BY <1>1, <2>1, <2>2, SavesLeftAlone
<1> QED BY <1>2, <1>3, <1>4, <1>5, <1>6

\* Inv /\ [Next]_vars => Inv'.
LEMMA DnaInvariantIsInductive ==
  ASSUME DnaInvariant, [DnaNext]_dnaVars
  PROVE  DnaInvariant'
BY SavesBegin, Inserting, Updating, Reading, Naming, Committing, CoreValuesAndGivingUp DEF DnaNext

\* What a save shows that commits now.
LEMMA ACommitShows ==
  ASSUME DnaInvariant, NEW s \in Editors, CommitUpsert(s)
  PROVE  LET e == editor[s] IN
         /\ \A f \in DnaFields :
              IF f \in DOMAIN e.form
                THEN dna'[f] = e.form[f] \/ (e.seen # Unwritten /\ e.form[f] = e.seen[f])
                ELSE dna'[f] = IF dna = Unwritten THEN Unwritten ELSE dna[f]
         /\ \A f \in OrgFields :
              IF f \in DOMAIN e.form
                THEN org'[f] = e.form[f] \/ e.form[f] = e.seenOrg[f]
                ELSE org'[f] = org[f]
<1> DEFINE e == editor[s]
<1>1. /\ SaveOK(e) /\ e.pc = "commit"
      /\ dna' = Written(s, DnaFields, dna) /\ org' = Written(s, OrgFields, org)
  BY CommitWrites
<1>2. ASSUME NEW f \in DnaFields
      PROVE  IF f \in DOMAIN e.form
                THEN dna'[f] = e.form[f] \/ (e.seen # Unwritten /\ e.form[f] = e.seen[f])
                ELSE dna'[f] = IF dna = Unwritten THEN Unwritten ELSE dna[f]
  <2>1. dna'[f] = IF f \in DOMAIN e.sent THEN e.sent[f] ELSE dna[f]
    BY <1>1 DEF Written
  <2> QED BY <1>1, <2>1 DEF SaveOK, SentDna, HasInserted
<1>3. ASSUME NEW f \in OrgFields
      PROVE  IF f \in DOMAIN e.form
                THEN org'[f] = e.form[f] \/ e.form[f] = e.seenOrg[f]
                ELSE org'[f] = org[f]
  <2>1. org'[f] = IF f \in DOMAIN e.sent THEN e.sent[f] ELSE org[f]
    BY <1>1 DEF Written
  <2> QED BY <1>1, <2>1 DEF SaveOK, SentOrg
<1> QED BY <1>2, <1>3

\* What an accepted save was asked to write is in the rows when it commits, and nothing
\* else has changed (upsert_business_dna); the one exception is a value that the request
\* had found there, for which nothing is sent.
THEOREM SavesShow == DnaSpec => AcceptedSavesShow
<1>1. DnaInvariant /\ [DnaNext]_dnaVars =>
        [\A s \in Editors : CommitUpsert(s) =>
       LET e == editor[s] IN
       /\ \A f \in DnaFields :
            IF f \in DOMAIN e.form
              THEN dna'[f] = e.form[f] \/ (e.seen # Unwritten /\ e.form[f] = e.seen[f])
              ELSE dna'[f] = IF dna = Unwritten THEN Unwritten ELSE dna[f]
       /\ \A f \in OrgFields :
            IF f \in DOMAIN e.form
              THEN org'[f] = e.form[f] \/ e.form[f] = e.seenOrg[f]
              ELSE org'[f] = org[f]]_dnaVars
  BY ACommitShows
<1>2. DnaInvariant /\ [DnaNext]_dnaVars => DnaInvariant'
  BY DnaInvariantIsInductive
<1> QED BY <1>1, <1>2, DnaInvariantAtFirst, PTL DEF DnaSpec, AcceptedSavesShow

-----------------------------------------------------------------------------
(***************************************************************************)
(* Lists read page by page, for any number of rows, jobs and rows to a     *)
(* page: EveryItemOnce.                                                    *)
(*                                                                         *)
(* A page is cut out of a list that is put in order anew each time, and    *)
(* rows of the same moment in any order.  A row that shares its moment     *)
(* with none has its place all the same: one more than there are rows of   *)
(* earlier moments.  It stays there as long as none of those comes or      *)
(* goes, and so the pages, which follow one another, have it once.         *)
(***************************************************************************)
\* No other row has the moment of this one.
Alone(x) == \A y \in Present \ {x} : createdAt[y] # createdAt[x]

\* The rows listed before this one, and its place in the list.
Prior(order, x) == {y \in Present \ {x} : NotAfter(order, createdAt[y], createdAt[x])}
Place(order, x) == Cardinality(Prior(order, x)) + 1

\* A list has a row once, or not at all.
Once(s, x)  == \E i \in DOMAIN s : s[i] = x /\ \A k \in DOMAIN s : s[k] = x => k = i
Never(s, x) == \A i \in DOMAIN s : s[i] # x

\* A job has collected the rows before the page it is at, as far as nothing upset them.
JobOK(j) ==
  /\ j.whole \subseteq Present
  /\ \A x \in j.whole \ j.upset :
       /\ Alone(x)
       /\ j.pc # "done" => IF Place(j.order, x) <= Offset(j.page) THEN Once(j.items, x)
                           ELSE Never(j.items, x)
       /\ j.pc = "fetch" => Place(j.order, x) <= j.total
       /\ j.pc = "done" => Once(j.items, x)

ListsInvariant ==
  /\ ListsTypeOK
  /\ IsFiniteSet(Present)
  /\ \A r \in Readers : reader[r] # Vacant => JobOK(reader[r])

\* Pages follow one another, and all of them together have room for every row.
LEMMA Pages ==
  /\ Offset(1) = 0
  /\ \A n \in Nat \ {0} : Offset(n) \in Nat /\ Offset(n + 1) = Offset(n) + PageLimit
  /\ \A n \in Nat \ {0}, total \in Nat : TotalPages(total) <= n => total <= Offset(n) + PageLimit
<1>1. PageLimit \in Nat /\ PageLimit > 0
  BY ListsAssumption
<1>2. Offset(1) = 0
  BY <1>1 DEF Offset
<1>3. ASSUME NEW n \in Nat \ {0} PROVE Offset(n) \in Nat /\ Offset(n + 1) = Offset(n) + PageLimit
  <2>1. n - 1 \in Nat /\ (n + 1) - 1 = (n - 1) + 1
    OBVIOUS
  <2>2. \A k \in Nat : k * PageLimit \in Nat /\ (k + 1) * PageLimit = k * PageLimit + PageLimit
    BY <1>1
  <2> QED BY <2>1, <2>2 DEF Offset
<1>4. ASSUME NEW n \in Nat \ {0}, NEW total \in Nat, TotalPages(total) <= n
      PROVE  total <= Offset(n) + PageLimit
  <2> DEFINE a == total + PageLimit - 1
             d == a \div PageLimit
  <2>1. Offset(n) + PageLimit = n * PageLimit
    <3>1. \A k \in Int : (k - 1) * PageLimit = k * PageLimit - PageLimit
      BY <1>1
    <3>2. n * PageLimit \in Int
      BY <1>1
    <3> QED BY <1>1, <3>1, <3>2 DEF Offset
  <2>2. CASE total = 0
    <3>1. n * PageLimit \in Nat
      BY <1>1
    <3> QED BY <2>1, <2>2, <3>1
  <2>3. CASE total > 0
    <3>1. a \in Nat /\ d \in Int /\ d <= n
      BY <1>1, <1>4, <2>3 DEF TotalPages
    <3>2. a = d * PageLimit + (a % PageLimit) /\ a % PageLimit \in 0 .. (PageLimit - 1)
      BY <1>1, <3>1
    <3> HIDE DEF d
    <3>3. d * PageLimit <= n * PageLimit
      BY <1>1, <3>1
    <3>4. d * PageLimit \in Int /\ n * PageLimit \in Int
      BY <1>1, <3>1
    <3> HIDE DEF a
    <3>5. a = total + PageLimit - 1
      BY DEF a
    <3> QED BY <1>1, <2>1, <3>1, <3>2, <3>3, <3>4, <3>5
  <2> QED BY <2>2, <2>3
<1> QED BY <1>2, <1>3, <1>4

\* What is appended to a list.
LEMMA Appending ==
  ASSUME NEW s \in Seq(Rows), NEW t \in Seq(Rows), NEW x
  PROVE  /\ Once(s, x) /\ Never(t, x) => Once(s \o t, x)
         /\ Never(s, x) /\ Once(t, x) => Once(s \o t, x)
         /\ Never(s, x) /\ Never(t, x) => Never(s \o t, x)
<1>1. /\ Len(s) \in Nat /\ Len(t) \in Nat /\ DOMAIN s = 1 .. Len(s) /\ DOMAIN t = 1 .. Len(t)
      /\ DOMAIN (s \o t) = 1 .. Len(s) + Len(t)
      /\ \A i \in 1 .. Len(s) + Len(t) : (s \o t)[i] = IF i <= Len(s) THEN s[i] ELSE t[i - Len(s)]
  <2>1. s \o t \in Seq(Rows) /\ Len(s \o t) = Len(s) + Len(t)
    BY ConcatProperties
  <2> QED BY <2>1, LenProperties, ConcatProperties
<1>2. \A i \in 1 .. Len(s) + Len(t) : i > Len(s) => i - Len(s) \in 1 .. Len(t)
  BY <1>1
<1>3. \A k \in 1 .. Len(t) : k + Len(s) \in 1 .. Len(s) + Len(t) /\ ~(k + Len(s) <= Len(s)) /\ (k + Len(s)) - Len(s) = k
  BY <1>1
<1>4. \A i \in 1 .. Len(s) : i \in 1 .. Len(s) + Len(t) /\ i <= Len(s)
  BY <1>1
<1>5. ASSUME Once(s, x), Never(t, x) PROVE Once(s \o t, x)
  <2>1. PICK i \in 1 .. Len(s) : s[i] = x /\ \A k \in 1 .. Len(s) : s[k] = x => k = i
    BY <1>1, <1>5 DEF Once
  <2>2. i \in 1 .. Len(s) + Len(t) /\ (s \o t)[i] = x
    BY <1>1, <1>4, <2>1
  <2>3. ASSUME NEW k \in 1 .. Len(s) + Len(t), (s \o t)[k] = x PROVE k = i
    <3>1. k <= Len(s)
      BY <1>1, <1>2, <1>5, <2>3 DEF Never
    <3> QED BY <1>1, <2>1, <2>3, <3>1
  <2> QED BY <1>1, <2>2, <2>3 DEF Once
<1>6. ASSUME Never(s, x), Once(t, x) PROVE Once(s \o t, x)
  <2>1. PICK i \in 1 .. Len(t) : t[i] = x /\ \A k \in 1 .. Len(t) : t[k] = x => k = i
    BY <1>1, <1>6 DEF Once
  <2>2. i + Len(s) \in 1 .. Len(s) + Len(t) /\ (s \o t)[i + Len(s)] = x
    BY <1>1, <1>3, <2>1
  <2>3. ASSUME NEW k \in 1 .. Len(s) + Len(t), (s \o t)[k] = x PROVE k = i + Len(s)
    <3>1. ~(k <= Len(s))
      BY <1>1, <1>6, <2>3 DEF Never
    <3>2. k - Len(s) \in 1 .. Len(t) /\ t[k - Len(s)] = x
      BY <1>1, <1>2, <2>3, <3>1
    <3>3. k - Len(s) = i
      BY <2>1, <3>2
    <3> QED BY <1>1, <3>3
  <2> QED BY <1>1, <2>2, <2>3 DEF Once
<1>7. ASSUME Never(s, x), Never(t, x) PROVE Never(s \o t, x)
  BY <1>1, <1>2, <1>7 DEF Never
<1> QED BY <1>5, <1>6, <1>7

\* A row may come first or last among those of its moment; otherwise it does not.
LEMMA Order ==
  ASSUME NEW order, NEW a \in Int, NEW b \in Int
  PROVE  /\ NotAfter(order, a, a)
         /\ NotAfter(order, a, b) /\ a # b => ~NotAfter(order, b, a)
<1>1. CASE order = "oldest first"
  <2>1. \A c, d \in Int : NotAfter(order, c, d) <=> c <= d
    BY <1>1, Zenon DEF NotAfter
  <2> QED BY <2>1
<1>2. CASE order # "oldest first"
  <2>1. \A c, d \in Int : NotAfter(order, c, d) <=> c >= d
    BY <1>2, Zenon DEF NotAfter
  <2> QED BY <2>1
<1> QED BY <1>1, <1>2

\* Wherever the query puts the rows that share a moment, one that shares its own with none
\* has its place.
LEMMA PlaceInList ==
  ASSUME ListsTypeOK, IsFiniteSet(Present), NEW order \in Orders, NEW l \in Listed(order),
         NEW x \in Present, Alone(x)
  PROVE  /\ l \in Seq(Rows) /\ Len(l) = Cardinality(Present) /\ Len(l) \in Nat
         /\ Place(order, x) \in 1 .. Len(l)
         /\ \A i \in 1 .. Len(l) : l[i] = x <=> i = Place(order, x)
<1> DEFINE n == Cardinality(Present)
           D == 1 .. n
<1>1. n \in Nat /\ Present \subseteq Rows
  BY FS_CardinalityType DEF Present
<1>2. l \in [D -> Present] /\ \A i, j \in D : i # j => l[i] # l[j]
  BY DEF Listed, SetToSeqs
<1>3. l \in Seq(Rows) /\ Len(l) = n
  <2>1. l \in Seq(Present)
    BY <1>1, <1>2
  <2>2. DOMAIN l = 1 .. Len(l) /\ Len(l) \in Nat
    BY <2>1, LenProperties
  <2>3. 1 .. Len(l) = 1 .. n
    BY <1>2, <2>2
  <2>4. Len(l) = n
    BY <1>1, <2>2, <2>3
  <2> QED BY <1>1, <2>1, <2>4, SeqMonotonic
<1>4. \A i, j \in D : i < j => NotAfter(order, createdAt[l[i]], createdAt[l[j]])
  BY <1>3 DEF Listed
<1>5. l \in Surjection(D, Present)
  <2>1. IsFiniteSet(D) /\ Cardinality(D) = n
    BY <1>1, FS_Interval
  <2>2. l \in Injection(D, Present)
    BY <1>2 DEF Injection, IsInjective
  <2> HIDE DEF D, n
  <2> QED BY <2>1, <2>2, FS_Injection DEF n
<1>6. PICK i \in D : l[i] = x
  BY <1>5 DEF Surjection
<1>7. \A y \in Present : createdAt[y] \in Int
  BY ListsAssumption DEF ListsTypeOK, Present
<1>8. ASSUME NEW j \in D, j < i PROVE l[j] \in Prior(order, x)
  <2>1. l[j] # x /\ l[j] \in Present /\ NotAfter(order, createdAt[l[j]], createdAt[x])
    BY <1>1, <1>2, <1>4, <1>6, <1>8
  <2> QED BY <2>1 DEF Prior
<1>9. ASSUME NEW j \in D, l[j] \in Prior(order, x) PROVE j < i
  <2>1. l[j] # x /\ l[j] \in Present /\ createdAt[l[j]] # createdAt[x]
    BY <1>9 DEF Prior, Alone
  <2>2. ~NotAfter(order, createdAt[x], createdAt[l[j]])
    <3>1. /\ createdAt[l[j]] \in Int /\ createdAt[x] \in Int
          /\ NotAfter(order, createdAt[l[j]], createdAt[x])
      BY <1>7, <1>9, <2>1 DEF Prior
    <3> QED BY <2>1, <3>1, Order
  <2>3. ~(i < j) /\ i # j
    BY <1>4, <1>6, <2>1, <2>2
  <2> QED BY <1>1, <2>3
<1>10. Cardinality(Prior(order, x)) = i - 1
  <2> DEFINE I == 1 .. (i - 1)
             f == [j \in I |-> l[j]]
  <2>1. i \in Nat /\ i >= 1 /\ i <= n
    BY <1>1
  <2>2. \A j : j \in I <=> j \in D /\ j < i
    BY <1>1, <2>1
  <2>3. IsFiniteSet(I) /\ Cardinality(I) = i - 1
    BY <2>1, FS_Interval
  <2>4. f \in [I -> Prior(order, x)]
    BY <1>8, <2>2
  <2>5. \A a, b \in I : f[a] = f[b] => a = b
    BY <1>2, <2>2
  <2>6. \A y \in Prior(order, x) : \E j \in I : f[j] = y
    <3> SUFFICES ASSUME NEW y \in Prior(order, x) PROVE \E j \in I : f[j] = y
      OBVIOUS
    <3>1. y \in Present
      BY DEF Prior
    <3>2. PICK j \in D : l[j] = y
      BY <1>5, <3>1 DEF Surjection
    <3> QED BY <1>9, <2>2, <3>2
  <2> HIDE DEF f, I
  <2>7. f \in Bijection(I, Prior(order, x))
    BY <2>4, <2>5, <2>6 DEF Bijection, Injection, Surjection, IsInjective
  <2>8. Cardinality(Prior(order, x)) = Cardinality(I)
    BY <2>3, <2>7, FS_Bijection DEF ExistsBijection
  <2> QED BY <2>3, <2>8
<1>11. Place(order, x) = i
  BY <1>1, <1>10 DEF Place
<1> QED
  BY <1>1, <1>2, <1>3, <1>6, <1>11

\* What a page has of such a row.
LEMMA PageHasIt ==
  ASSUME ListsTypeOK, IsFiniteSet(Present), NEW order \in Orders, NEW l \in Listed(order),
         NEW x \in Present, Alone(x), NEW from \in Nat
  PROVE  LET page == SubSeq(l, from + 1, Min({from + PageLimit, Len(l)}))
             k    == Place(order, x)
         IN  /\ page \in Seq(Rows)
             /\ k > from /\ k <= from + PageLimit => Once(page, x)
             /\ k <= from \/ k > from + PageLimit => Never(page, x)
<1> DEFINE k == Place(order, x)
           n == Len(l)
           to == Min({from + PageLimit, n})
           page == SubSeq(l, from + 1, to)
<1>1. /\ l \in Seq(Rows) /\ n \in Nat /\ k \in 1 .. n
      /\ \A i \in 1 .. n : l[i] = x <=> i = k
  BY PlaceInList
<1>2. PageLimit \in Nat
  BY ListsAssumption
<1>3. to = IF from + PageLimit <= n THEN from + PageLimit ELSE n
  <2>1. \A a, b \in Nat : a <= b => Min({a, b}) = a /\ Min({b, a}) = a
    BY DEF Min
  <2> QED BY <1>1, <1>2, <2>1
<1> HIDE DEF to, k, n
<1>4. to \in Nat /\ \A i \in (from + 1) .. to : i \in 1 .. n
  BY <1>1, <1>2, <1>3
<1>5. /\ page \in Seq(Rows)
      /\ Len(page) = IF from + 1 <= to THEN to - (from + 1) + 1 ELSE 0
      /\ \A i \in 1 .. to - (from + 1) + 1 : page[i] = l[(from + 1) + i - 1]
  <2>1. \A i \in (from + 1) .. to : l[i] \in Rows
    BY <1>1, <1>4, ElementOfSeq DEF n
  <2>2. from + 1 \in Int /\ to \in Int
    BY <1>4
  <2> QED BY <2>1, <2>2, SubSeqProperties
<1> HIDE DEF page
<1>6. DOMAIN page = 1 .. Len(page)
  BY <1>5, LenProperties
<1>7. \A i \in DOMAIN page : page[i] = l[from + i] /\ from + i \in 1 .. n /\ i \in Nat /\ from + i <= to
  BY <1>1, <1>4, <1>5, <1>6
<1>8. ASSUME k > from, k <= from + PageLimit PROVE Once(page, x)
  <2>1. k - from \in DOMAIN page /\ from + (k - from) = k
    BY <1>1, <1>2, <1>3, <1>4, <1>5, <1>6, <1>8
  <2>2. page[k - from] = x
    BY <1>1, <1>7, <2>1
  <2>3. \A i \in DOMAIN page : page[i] = x => i = k - from
    BY <1>1, <1>7
  <2> QED BY <2>1, <2>2, <2>3 DEF Once
<1>9. ASSUME k <= from \/ k > from + PageLimit PROVE Never(page, x)
  <2>1. \A i \in DOMAIN page : from + i # k
    BY <1>1, <1>2, <1>3, <1>4, <1>5, <1>6, <1>7, <1>9
  <2> QED BY <1>1, <1>7, <2>1 DEF Never
<1> QED BY <1>5, <1>8, <1>9 DEF page, to, n, k

\* A row that appears, but not in front of this one or with it, leaves it its place.
LEMMA PlaceStays ==
  ASSUME NEW order \in Orders, NEW x \in Present, NEW z,
         Alone(x), Present' \in {Present, Present \cup {z}, Present \ {z}}, z # x,
         \A y \in Present \ {z} : createdAt'[y] = createdAt[y],
         z \in Present => createdAt[z] \in Int /\ ~NotAfter(order, createdAt[z], createdAt[x]),
         z \in Present' => createdAt'[z] \in Int /\ ~NotAfter(order, createdAt'[z], createdAt[x]),
         createdAt[x] \in Int
  PROVE  x \in Present' /\ Alone(x)' /\ Place(order, x)' = Place(order, x)
<1>1. createdAt'[x] = createdAt[x] /\ x \in Present'
  OBVIOUS
<1>2. \A m \in Int : NotAfter(order, m, m)
  BY Order
<1>3. \A y : y \in Present' \ {z} <=> y \in Present \ {z}
  OBVIOUS
<1>4. Alone(x)'
  BY <1>1, <1>2, <1>3 DEF Alone
<1>5. Prior(order, x)' = Prior(order, x)
  <2>1. \A y : y \in Prior(order, x) <=> y \in Present \ {z, x} /\ NotAfter(order, createdAt[y], createdAt[x])
    BY DEF Prior
  <2>2. \A y : y \in Prior(order, x)' <=> y \in Present' \ {z, x} /\ NotAfter(order, createdAt'[y], createdAt'[x])
    BY <1>1 DEF Prior
  <2> QED BY <1>1, <1>3, <2>1, <2>2
<1> QED BY <1>1, <1>4, <1>5 DEF Place

\* Everybody else goes on as before.
LEMMA OthersRead ==
  ASSUME ListsInvariant, NEW r \in Readers, NEW j \in ReaderRecord \cup {Vacant},
         reader' = [reader EXCEPT ![r] = j], UNCHANGED <<createdAt, gone>>,
         j # Vacant => JobOK(j)
  PROVE  ListsInvariant'
<1>1. Present' = Present
  BY DEF Present
<1>2. \A k : JobOK(k)' = JobOK(k)
  <2>1. \A x : Alone(x)' = Alone(x)
    BY <1>1 DEF Alone
  <2>2. \A order, x : Place(order, x)' = Place(order, x)
    BY <1>1 DEF Place, Prior
  <2> QED BY <1>1, <2>1, <2>2 DEF JobOK
<1>3. reader' \in [Readers -> ReaderRecord \cup {Vacant}] /\ reader'[r] = j
      /\ \A q \in Readers \ {r} : reader'[q] = reader[q]
  BY DEF ListsInvariant, ListsTypeOK
<1> QED
  BY <1>1, <1>2, <1>3 DEF ListsInvariant, ListsTypeOK

\* The job begins: it has collected nothing, and starts before the first row.
LEMMA Beginning ==
  ASSUME ListsInvariant, NEW r \in Readers, NEW order \in Orders, BeginReading(r, order)
  PROVE  ListsInvariant'
<1> DEFINE j == [pc |-> "count", order |-> order, page |-> 1, total |-> 0, items |-> << >>,
                 whole |-> Present,
                 upset |-> {x \in Present : \E y \in Present \ {x} : createdAt[x] = createdAt[y]}]
<1>1. reader' = [reader EXCEPT ![r] = j] /\ UNCHANGED <<createdAt, gone>>
  BY DEF BeginReading
<1>2. j \in ReaderRecord
  <2>1. << >> \in Seq(Rows)
    BY EmptySeq
  <2> QED BY <2>1 DEF ReaderRecord, Present
<1>3. /\ j.whole = Present /\ j.pc = "count" /\ j.page = 1 /\ j.order = order /\ j.items = << >>
      /\ \A x \in Present \ j.upset : Alone(x)
  BY DEF Alone
<1> HIDE DEF j
<1>4. ASSUME NEW x \in Present PROVE ~(Place(order, x) <= Offset(1)) /\ Never(j.items, x)
  <2>1. IsFiniteSet(Prior(order, x))
    BY FS_Subset DEF ListsInvariant, Prior
  <2>2. Cardinality(Prior(order, x)) \in Nat
    BY <2>1, FS_CardinalityType
  <2> QED BY <1>3, <2>2, Pages DEF Place, Never
<1>5. JobOK(j)
  BY <1>3, <1>4 DEF JobOK
<1> QED
  BY <1>1, <1>2, <1>5, OthersRead

\* The count counts every row there is.
LEMMA Counting ==
  ASSUME ListsInvariant, NEW r \in Readers, CountRows(r)
  PROVE  ListsInvariant'
<1>1. PICK j \in ReaderRecord : j = reader[r]
  BY DEF CountRows, ListsInvariant, ListsTypeOK
<1> DEFINE k == [j EXCEPT !.total = Cardinality(Present), !.pc = "fetch"]
<1>2. /\ j.pc = "count" /\ JobOK(j)
      /\ reader' = [reader EXCEPT ![r] = k] /\ UNCHANGED <<createdAt, gone>>
  BY <1>1 DEF CountRows, ListsInvariant, ListsTypeOK
<1>3. Cardinality(Present) \in Nat
  BY FS_CardinalityType DEF ListsInvariant
<1>4. /\ k \in ReaderRecord /\ k.pc = "fetch" /\ k.total = Cardinality(Present) /\ k.order = j.order
      /\ k.page = j.page /\ k.items = j.items /\ k.whole = j.whole /\ k.upset = j.upset
  BY <1>3 DEF ReaderRecord
<1> HIDE DEF k
<1>5. ASSUME NEW x \in Present PROVE Place(j.order, x) <= Cardinality(Present)
  <2>1. Prior(j.order, x) \subseteq Present \ {x}
    BY DEF Prior
  <2>2. IsFiniteSet(Present \ {x}) /\ Cardinality(Present \ {x}) = Cardinality(Present) - 1
    BY FS_RemoveElement DEF ListsInvariant
  <2>3. Cardinality(Prior(j.order, x)) <= Cardinality(Present \ {x}) /\ IsFiniteSet(Prior(j.order, x))
    BY <2>1, <2>2, FS_Subset
  <2>4. Cardinality(Prior(j.order, x)) \in Nat
    BY <2>3, FS_CardinalityType
  <2> QED BY <1>3, <2>2, <2>3, <2>4 DEF Place
<1>6. JobOK(k)
  BY <1>2, <1>4, <1>5 DEF JobOK
<1> QED
  BY <1>2, <1>4, <1>6, OthersRead

\* A page has those rows whose place is on it, and the last page ends after all of them.
LEMMA Fetching ==
  ASSUME ListsInvariant, NEW r \in Readers, FetchPage(r)
  PROVE  ListsInvariant'
<1>1. PICK j \in ReaderRecord : j = reader[r]
  BY DEF FetchPage, ListsInvariant, ListsTypeOK
<1> DEFINE from == Offset(j.page)
           hasNext == j.page < TotalPages(j.total)
           Page(l) == SubSeq(l, from + 1, Min({from + PageLimit, Len(l)}))
           K(l) == [j EXCEPT !.items = @ \o Page(l),
                             !.page = IF hasNext THEN @ + 1 ELSE @,
                             !.pc = IF hasNext THEN "count" ELSE "done"]
<1>2. /\ j.pc = "fetch" /\ JobOK(j) /\ j # Vacant
      /\ \E l \in Listed(j.order) : reader' = [reader EXCEPT ![r] = K(l)]
      /\ UNCHANGED <<createdAt, gone>>
  BY <1>1 DEF FetchPage, ListsInvariant
<1>3. PICK l \in Listed(j.order) : reader' = [reader EXCEPT ![r] = K(l)]
  BY <1>2
<1>4. /\ j.page \in Nat \ {0} /\ j.total \in Nat /\ j.items \in Seq(Rows) /\ j.order \in Orders
  BY DEF ReaderRecord
<1>5. from \in Nat /\ PageLimit \in Nat /\ Offset(j.page + 1) = from + PageLimit
  BY <1>4, Pages, ListsAssumption
<1> DEFINE page == Page(l)
<1>6. page \in Seq(Rows)
  <2>1. l \in Seq(Rows)
    <3>1. l \in [1 .. Cardinality(Present) -> Present] /\ Present \subseteq Rows
      BY DEF Listed, SetToSeqs, Present
    <3>2. Cardinality(Present) \in Nat
      BY FS_CardinalityType DEF ListsInvariant
    <3> QED BY <3>1, <3>2
  <2>2. Len(l) \in Nat /\ \A i \in 1 .. Len(l) : l[i] \in Rows
    BY <2>1, LenProperties, ElementOfSeq
  <2>3. \A a, b \in Nat : a <= b => Min({a, b}) = a /\ Min({b, a}) = a
    BY DEF Min
  <2>4. PICK to \in Nat : to = Min({from + PageLimit, Len(l)}) /\ to <= Len(l)
    BY <1>5, <2>2, <2>3
  <2>5. \A i \in (from + 1) .. to : l[i] \in Rows
    BY <1>5, <2>2, <2>4
  <2>6. SubSeq(l, from + 1, to) \in Seq(Rows)
    BY <1>5, <2>5, SubSeqProperties
  <2> QED BY <2>4, <2>6
<1> DEFINE k == K(l)
<1>7. ASSUME NEW x \in j.whole \ j.upset
      PROVE  /\ x \in Present /\ Alone(x) /\ Place(j.order, x) \in Nat
             /\ Place(j.order, x) <= from => Once(j.items, x) /\ Never(page, x)
             /\ ~(Place(j.order, x) <= from) => Never(j.items, x)
             /\ Place(j.order, x) > from /\ Place(j.order, x) <= from + PageLimit => Once(page, x)
             /\ Place(j.order, x) > from + PageLimit => Never(page, x)
             /\ Place(j.order, x) <= j.total
  <2>1. /\ x \in Present /\ Alone(x) /\ Place(j.order, x) <= j.total
        /\ IF Place(j.order, x) <= from THEN Once(j.items, x) ELSE Never(j.items, x)
    BY <1>2 DEF JobOK
  <2>2. Place(j.order, x) \in Nat
    BY <1>4, <2>1, PlaceInList DEF ListsInvariant
  <2> HIDE DEF from, page
  <2>3. /\ Place(j.order, x) > from /\ Place(j.order, x) <= from + PageLimit => Once(page, x)
        /\ Place(j.order, x) <= from \/ Place(j.order, x) > from + PageLimit => Never(page, x)
    BY <1>4, <1>5, <2>1, PageHasIt DEF ListsInvariant, page
  <2> QED BY <2>1, <2>2, <2>3
<1>8. /\ k \in ReaderRecord /\ k.items = j.items \o page /\ k.order = j.order /\ k.whole = j.whole
      /\ k.upset = j.upset
      /\ k.page = IF hasNext THEN j.page + 1 ELSE j.page
      /\ k.pc = IF hasNext THEN "count" ELSE "done"
  <2>1. j.items \o page \in Seq(Rows)
    BY <1>4, <1>6, ConcatProperties
  <2>2. (IF hasNext THEN j.page + 1 ELSE j.page) \in Nat \ {0}
    BY <1>4
  <2> HIDE DEF page, hasNext
  <2> QED BY <1>4, <2>1, <2>2 DEF ReaderRecord, page
<1>9. TotalPages(j.total) \in Int
  <2>1. PageLimit \in Nat /\ PageLimit > 0
    BY ListsAssumption
  <2> QED BY <1>4, <2>1 DEF TotalPages
<1> HIDE DEF k, from, page
<1>10. ASSUME NEW x \in j.whole \ j.upset
       PROVE  /\ Place(j.order, x) <= from + PageLimit => Once(k.items, x)
              /\ ~(Place(j.order, x) <= from + PageLimit) => Never(k.items, x)
  BY <1>4, <1>5, <1>6, <1>7, <1>8, <1>10, Appending
<1>11. CASE hasNext
  <2>1. k.pc = "count" /\ Offset(k.page) = from + PageLimit
    BY <1>5, <1>8, <1>11
  <2>2. JobOK(k)
    <3>1. k.whole \subseteq Present /\ k.whole = j.whole /\ k.upset = j.upset /\ k.order = j.order
      BY <1>2, <1>8 DEF JobOK
    <3>2. ASSUME NEW x \in j.whole \ j.upset
          PROVE  /\ Alone(x)
                 /\ IF Place(j.order, x) <= Offset(k.page) THEN Once(k.items, x) ELSE Never(k.items, x)
      BY <1>7, <1>10, <2>1, <3>2
    <3> QED BY <2>1, <3>1, <3>2 DEF JobOK
  <2> QED BY <1>2, <1>3, <1>8, <2>2, OthersRead DEF k
<1>12. CASE ~hasNext
  <2>1. k.pc = "done" /\ j.total <= from + PageLimit
    <3>1. TotalPages(j.total) <= j.page
      BY <1>4, <1>9, <1>12
    <3> HIDE DEF hasNext
    <3>2. j.total <= Offset(j.page) + PageLimit
      BY <1>4, <3>1, Pages
    <3> QED BY <1>8, <1>12, <3>2 DEF from
  <2>2. \A x \in j.whole \ j.upset : Once(k.items, x)
    BY <1>4, <1>5, <1>7, <1>10, <2>1
  <2>3. JobOK(k)
    BY <1>2, <1>7, <1>8, <2>1, <2>2 DEF JobOK
  <2> QED BY <1>2, <1>3, <1>8, <2>3, OthersRead DEF k
<1> QED
  BY <1>11, <1>12

\* A job, when a row of this moment comes or goes and these ones stay.
ReadOn(j, W, at) ==
  [j EXCEPT !.whole = W, !.upset = @ \cup {y \in j.whole : NotAfter(j.order, at, createdAt[y])}]

\* Every job reads on while a row comes or goes, and knows which rows that has upset.
LEMMA WhileRowsChange ==
  ASSUME ListsInvariant, NEW z \in Rows, NEW at \in Moments,
         Present' \in {Present, Present \cup {z}, Present \ {z}},
         createdAt' \in [Rows -> Moments \cup {Vacant}], gone' \subseteq Rows,
         \A y \in Present \ {z} : createdAt'[y] = createdAt[y],
         z \in Present => createdAt[z] = at, z \in Present' => createdAt'[z] = at,
         \A r \in Readers : reader[r] = Vacant => reader'[r] = Vacant,
         \A r \in Readers : reader[r] # Vacant =>
           /\ reader'[r] \in ReaderRecord
           /\ \E W : /\ W \subseteq reader[r].whole \ {z} /\ W \subseteq Present'
                     /\ reader'[r] = ReadOn(reader[r], W, at),
         reader' = [r \in Readers |-> reader'[r]]
  PROVE  ListsInvariant'
<1>1. ListsTypeOK'
  BY DEF ListsInvariant, ListsTypeOK
<1>2. IsFiniteSet(Present')
  <2>1. IsFiniteSet(Present \cup {z}) /\ IsFiniteSet(Present \ {z})
    BY FS_AddElement, FS_RemoveElement DEF ListsInvariant
  <2> QED BY <2>1 DEF ListsInvariant
<1>3. ASSUME NEW r \in Readers, reader'[r] # Vacant PROVE JobOK(reader[r])'
  <2>1. reader[r] # Vacant /\ reader[r] \in ReaderRecord /\ JobOK(reader[r])
    BY <1>3 DEF ListsInvariant, ListsTypeOK
  <2>2. PICK j \in ReaderRecord : j = reader[r]
    BY <2>1
  <2> DEFINE U == j.upset \cup {y \in j.whole : NotAfter(j.order, at, createdAt[y])}
  <2>a. PICK W : W \subseteq j.whole \ {z} /\ W \subseteq Present' /\ reader'[r] = ReadOn(j, W, at)
    BY <2>1, <2>2
  <2>b. PICK k : k = ReadOn(j, W, at)
    OBVIOUS
  <2>3. W \subseteq j.whole \ {z} /\ W \subseteq Present' /\ reader'[r] = k
    BY <2>a, <2>b
  <2>4. /\ k.whole = W /\ k.upset = U /\ k.pc = j.pc /\ k.order = j.order /\ k.page = j.page
        /\ k.total = j.total /\ k.items = j.items /\ j.order \in Orders
    BY <2>b DEF ReadOn, ReaderRecord
  <2>5. ASSUME NEW x \in W \ U
        PROVE  /\ x \in Present' /\ Alone(x)' /\ Place(j.order, x)' = Place(j.order, x)
               /\ x \in j.whole \ j.upset
    <3>1. x \in j.whole \ j.upset /\ x # z /\ ~NotAfter(j.order, at, createdAt[x])
      BY <2>3
    <3>2. x \in Present /\ Alone(x) /\ createdAt[x] \in Int
      BY <2>1, <2>2, <3>1, ListsAssumption DEF JobOK, ListsInvariant, ListsTypeOK, Present
    <3>3. at \in Int
      BY ListsAssumption
    <3>4. /\ z \in Present => createdAt[z] \in Int /\ ~NotAfter(j.order, createdAt[z], createdAt[x])
          /\ z \in Present' => createdAt'[z] \in Int /\ ~NotAfter(j.order, createdAt'[z], createdAt[x])
      BY <3>1, <3>3
    <3>5. /\ x \in Present' /\ Alone(x)' /\ Place(j.order, x)' = Place(j.order, x)
      BY <2>4, <3>1, <3>2, <3>4, PlaceStays
    <3> QED BY <3>1, <3>5
  <2>6. JobOK(j)
    BY <2>1, <2>2
  <2>7. JobOK(k)'
    BY <2>3, <2>4, <2>5, <2>6 DEF JobOK
  <2> QED BY <2>3, <2>7 DEF JobOK
<1> QED
  BY <1>1, <1>2, <1>3 DEF ListsInvariant

\* Rows that are created and deleted.
LEMMA RowsChange ==
  ASSUME ListsInvariant, NEW z \in Rows, (\E at \in Moments : CreateRow(z, at)) \/ DeleteRow(z)
  PROVE  ListsInvariant'
<1>1. \A r \in Readers : reader[r] # Vacant =>
        /\ reader[r] \in ReaderRecord /\ reader[r].whole \subseteq Present /\ reader[r].whole \subseteq Rows
        /\ reader[r] = [reader[r] EXCEPT !.whole = reader[r].whole]
  BY DEF ListsInvariant, ListsTypeOK, JobOK, ReaderRecord, Present
<1>2. ASSUME NEW at \in Moments, CreateRow(z, at) PROVE ListsInvariant'
  <2> DEFINE U(r) == reader[r].upset \cup {y \in reader[r].whole : NotAfter(reader[r].order, at, createdAt[y])}
  <2>1. /\ createdAt[z] = Vacant /\ createdAt' = [createdAt EXCEPT ![z] = at] /\ gone' = gone
        /\ reader' = [r \in Readers |-> IF reader[r] = Vacant THEN Vacant
                                        ELSE [reader[r] EXCEPT !.upset = U(r)]]
    BY <1>2 DEF CreateRow
  <2>2. /\ createdAt' \in [Rows -> Moments \cup {Vacant}] /\ createdAt'[z] = at /\ z \notin Present
        /\ \A y \in Rows \ {z} : createdAt'[y] = createdAt[y]
    BY <2>1 DEF ListsInvariant, ListsTypeOK, Present
  <2>3. Present' = IF z \in gone THEN Present ELSE Present \cup {z}
    BY <2>1, <2>2, ListsAssumption DEF Present
  <2>4. ASSUME NEW r \in Readers, reader[r] # Vacant
        PROVE  /\ reader'[r] \in ReaderRecord
               /\ reader[r].whole \subseteq reader[r].whole \ {z} /\ reader[r].whole \subseteq Present'
               /\ reader'[r] = [reader[r] EXCEPT !.whole = reader[r].whole, !.upset = U(r)]
    <3>1. reader'[r] = [reader[r] EXCEPT !.upset = U(r)]
      BY <2>1, <2>4
    <3>2. [reader[r] EXCEPT !.upset = U(r)] \in ReaderRecord
      BY <1>1, <2>4 DEF ReaderRecord
    <3>3. [reader[r] EXCEPT !.upset = U(r)] = [reader[r] EXCEPT !.whole = reader[r].whole, !.upset = U(r)]
      BY <1>1, <2>4 DEF ReaderRecord
    <3> QED BY <1>1, <2>2, <2>3, <2>4, <3>1, <3>2, <3>3
  <2>5. \A r \in Readers : reader[r] = Vacant => reader'[r] = Vacant
    BY <2>1
  <2>6. \A r \in Readers : reader[r] # Vacant =>
           /\ reader'[r] \in ReaderRecord
           /\ \E W : /\ W \subseteq reader[r].whole \ {z} /\ W \subseteq Present'
                     /\ reader'[r] = ReadOn(reader[r], W, at)
    BY <2>4 DEF ReadOn
  <2>7. reader' = [r \in Readers |-> reader'[r]]
    BY <2>1
  <2>8. Present' \in {Present, Present \cup {z}, Present \ {z}}
    BY <2>3
  <2>9. gone' \subseteq Rows
    BY <2>1 DEF ListsInvariant, ListsTypeOK
  <2>10. \A y \in Present \ {z} : createdAt'[y] = createdAt[y]
    BY <2>2 DEF Present
  <2> HIDE DEF U
  <2> QED BY <2>2, <2>5, <2>6, <2>7, <2>8, <2>9, <2>10, WhileRowsChange
<1>3. ASSUME DeleteRow(z) PROVE ListsInvariant'
  <2>1. PICK at \in Moments : at = createdAt[z]
    BY <1>3 DEF DeleteRow, Present, ListsInvariant, ListsTypeOK
  <2> DEFINE U(r) == reader[r].upset \cup {y \in reader[r].whole : NotAfter(reader[r].order, at, createdAt[y])}
             W(r) == reader[r].whole \ {z}
  <2>2. /\ z \in Present /\ createdAt' = createdAt /\ gone' = gone \cup {z}
        /\ reader' = [r \in Readers |-> IF reader[r] = Vacant THEN Vacant
                                        ELSE [reader[r] EXCEPT !.whole = W(r), !.upset = U(r)]]
    BY <1>3, <2>1 DEF DeleteRow
  <2>3. Present' = Present \ {z}
    BY <2>2 DEF Present
  <2>4. ASSUME NEW r \in Readers, reader[r] # Vacant
        PROVE  /\ reader'[r] \in ReaderRecord
               /\ W(r) \subseteq reader[r].whole \ {z} /\ W(r) \subseteq Present'
               /\ reader'[r] = [reader[r] EXCEPT !.whole = W(r), !.upset = U(r)]
    <3>1. reader'[r] = [reader[r] EXCEPT !.whole = W(r), !.upset = U(r)]
      BY <2>2, <2>4
    <3>2. [reader[r] EXCEPT !.whole = W(r), !.upset = U(r)] \in ReaderRecord
      BY <1>1, <2>4 DEF ReaderRecord
    <3> QED BY <1>1, <2>3, <2>4, <3>1, <3>2
  <2>5. \A r \in Readers : reader[r] = Vacant => reader'[r] = Vacant
    BY <2>2
  <2>6. \A r \in Readers : reader[r] # Vacant =>
           /\ reader'[r] \in ReaderRecord
           /\ \E X : /\ X \subseteq reader[r].whole \ {z} /\ X \subseteq Present'
                     /\ reader'[r] = ReadOn(reader[r], X, at)
    BY <2>4 DEF ReadOn
  <2>7. /\ reader' = [r \in Readers |-> reader'[r]] /\ z \notin Present'
        /\ gone' \subseteq Rows /\ createdAt' \in [Rows -> Moments \cup {Vacant}]
    BY <2>2, <2>3 DEF ListsInvariant, ListsTypeOK
  <2> HIDE DEF U, W
  <2> QED BY <2>1, <2>2, <2>3, <2>5, <2>6, <2>7, WhileRowsChange
<1> QED
  BY <1>2, <1>3

\* Every step keeps the invariant.
LEMMA ListsStep == ListsInvariant /\ [ListsNext]_listVars => ListsInvariant'
<1> SUFFICES ASSUME ListsInvariant, [ListsNext]_listVars PROVE ListsInvariant'
  OBVIOUS
<1>1. ASSUME NEW r \in Readers, EndReading(r) PROVE ListsInvariant'
  BY <1>1, OthersRead DEF EndReading
<1>2. CASE UNCHANGED listVars
  <2>1. UNCHANGED <<createdAt, gone, reader>>
    BY <1>2 DEF listVars
  <2>2. Present' = Present
    BY <2>1 DEF Present
  <2>3. \A k : JobOK(k)' = JobOK(k)
    BY <2>1, <2>2 DEF JobOK, Alone, Place, Prior
  <2> QED BY <2>1, <2>2, <2>3 DEF ListsInvariant, ListsTypeOK
<1> QED
  BY <1>1, <1>2, RowsChange, Beginning, Counting, Fetching DEF ListsNext

\* There is nothing to be read at first.
LEMMA ListsStart == ListsInit => ListsInvariant
<1> SUFFICES ASSUME ListsInit PROVE ListsInvariant
  OBVIOUS
<1>1. Present = {} /\ ListsTypeOK
  BY DEF ListsInit, Present, ListsTypeOK
<1> QED
  BY <1>1, FS_EmptySet DEF ListsInit, ListsInvariant

\* A list that is read to its end by _every_item has every row that was there all the time
\* once, if no row came or went before it, or at its moment.
THEOREM ListsAreReadWhole == ListsSpec => []EveryItemOnce
<1>1. ListsInvariant => EveryItemOnce
  <2> SUFFICES ASSUME ListsInvariant, NEW r \in Readers, reader[r] # Vacant, reader[r].pc = "done",
                      NEW x \in reader[r].whole \ reader[r].upset
               PROVE  Cardinality({i \in DOMAIN reader[r].items : reader[r].items[i] = x}) = 1
    BY DEF EveryItemOnce
  <2>1. Once(reader[r].items, x)
    BY DEF ListsInvariant, JobOK
  <2>2. PICK i : {k \in DOMAIN reader[r].items : reader[r].items[k] = x} = {i}
    BY <2>1 DEF Once
  <2> QED
    BY <2>2, FS_Singleton
<1> QED
  BY <1>1, ListsStart, ListsStep, PTL DEF ListsSpec

\* Rows, deletions and jobs keep their types.
THEOREM ListsTypes == ListsSpec => []ListsTypeOK
<1>1. ListsInvariant => ListsTypeOK
  BY DEF ListsInvariant
<1> QED
  BY <1>1, ListsStart, ListsStep, PTL DEF ListsSpec

-----------------------------------------------------------------------------
(***************************************************************************)
(* Scores, for any number of people, tasks, quarters and nightly runs:     *)
(* LateRunsAgree and TasksCountOnce.                                       *)
(*                                                                         *)
(* What a run writes rests on tasks that go on changing.  Three facts make *)
(* a frozen row right all the same: mark_task judges a quarter that is     *)
(* over at its end; what a task was then decides its mark, unless somebody *)
(* tampers with it later; and a run that nobody has overtaken closes only  *)
(* quarters that are not frozen yet, so that the rows of people and of the *)
(* department are frozen together.                                         *)
(***************************************************************************)

\* A row that is frozen.
Final(row) == row # NoRow /\ row.final

\* Tasks have their types, and one that is open has no end.
JobsAreSound ==
  /\ hour \in Hours /\ job \in [Jobs -> Job]
  /\ \A t \in Jobs : job[t].status = "open" => job[t].done = NoRow

\* A task that nobody tampered with has, from the end of a quarter on, the mark for that
\* quarter that it had at the end.
EndingStands ==
  \A q \in Quarters : EndOf(q) <= hour =>
    \A t \in Jobs \ tampered : job[t].done # EndOf(q) =>
      MarkTask(job[t], q, EndOf(q)) = MarkTask(ending[q][t], q, EndOf(q))

\* The task counts in this quarter, and no block holds it back.
CountsIn(t, q) == QuarterOf(MomentItCounts(job[t])) = q /\ ~job[t].held

\* What the frozen rows of a quarter say: of the department, and of a person.
RowAgrees(marks, q) ==
  /\ EndOf(q) <= hour
  /\ \A t \in Jobs \ tampered, m \in Marks :
       /\ <<t, m>> \in marks => CountsIn(t, q)
       /\ job[t].done # EndOf(q) => (<<t, m>> \in marks <=> MarkTask(ending[q][t], q, EndOf(q)) = m)

\* Of a person: the tasks are theirs.
CardAgrees(marks, q, h) ==
  /\ EndOf(q) <= hour
  /\ \A t \in Jobs \ tampered, m \in Marks : <<t, m>> \in marks => CountsIn(t, q) /\ job[t].who = h

\* The rows of a quarter, of the tables or of a run.
QuarterAgrees(row, cards, q) ==
  /\ Final(row) => RowAgrees(row.marks, q)
  /\ \A h \in Holders : Final(cards[h]) => CardAgrees(cards[h].marks, q, h)

\* So do the tables, and the rows that runs hold.
FinalRowsAgree ==
  /\ \A q \in Quarters : QuarterAgrees(board[q], card[q], q)
  /\ \A n \in Nights, q \in Quarters : night[n] # NoRow /\ q \in DOMAIN night[n].card =>
       QuarterAgrees(night[n].board[q], night[n].card[q], q)

\* The rows of people are frozen along with the department's.
Closed(row, cards) == Final(row) => \A h \in Holders : cards[h] # NoRow => cards[h].final

\* What a run has to do: a stage of a quarter.
Stage == [of : Quarters, do : {"tally", "marks"}]
\* A stage of a quarter that is not frozen.
OpenStage == {s \in Stage : ~Frozen(s.of)}

\* A run has begun at its moment; one that nobody has overtaken is about to close, and to
\* add rows, where nobody has.
NightsKnow ==
  \A n \in Nights : night[n] # NoRow =>
    /\ night[n].now \in Hours /\ night[n].now <= hour /\ night[n].todo \in Seq(Stage)
    /\ ~night[n].overtaken =>
         /\ night[n].todo \in Seq(OpenStage)
         /\ \A q \in Quarters : q \in DOMAIN night[n].card => Closed(night[n].board[q], night[n].card[q])
         /\ \A q \in Quarters : q \in DOMAIN night[n].tally /\ night[n].tally[q].new => tally[q].rows = 0

\* Unless runs overlapped, a quarter's rows are frozen together, and a KPI has one row.
TablesAreClosed ==
  /\ tally = [q \in Quarters |-> tally[q]] /\ \A q \in Quarters : tally[q].rows \in Nat
  /\ ~nightRaced => \A q \in Quarters : Closed(board[q], card[q]) /\ tally[q].rows <= 1

\* Final summaries tell the figures of the frozen rows.
StoriesAgree ==
  /\ \A q \in Quarters : Final(story[q]) => Frozen(q) /\ story[q].marks = board[q].marks
  /\ teller # NoRow =>
       /\ teller.of \in Quarters
       /\ teller.final => Frozen(teller.of) /\ teller.marks = board[teller.of].marks

\* All of it, with the invariant of the frozen figures.
LateInvariant ==
  /\ ScoringInvariant /\ JobsAreSound /\ EndingStands /\ FinalRowsAgree /\ NightsKnow
  /\ TablesAreClosed /\ StoriesAgree

\* A quarter is over for whoever is in a later one (QuarterOf divides).
LEMMA QuarterOver ==
  ASSUME NEW m \in Nat, NEW q \in Nat
  PROVE  /\ QuarterOf(m) \in Nat /\ EndOf(q) \in Nat
         /\ EndOf(q) <= m <=> q < QuarterOf(m)
<1>1. QuarterLength \in Nat /\ QuarterLength > 0
  BY ScoringAssumption
<1> DEFINE k == m \div QuarterLength
<1>2. k \in Int /\ m = k * QuarterLength + (m % QuarterLength) /\ m % QuarterLength \in 0 .. (QuarterLength - 1)
  BY <1>1
<1> HIDE DEF k
<1>3. (q + 1) * QuarterLength \in Nat /\ k * QuarterLength \in Int
  BY <1>1, <1>2
<1>4. k >= 0
  <2>1. CASE k < 0
    <3>1. k * QuarterLength <= -QuarterLength
      <4>1. \A a \in Nat : (-1 - a) * QuarterLength = -QuarterLength - a * QuarterLength /\ a * QuarterLength \in Nat
        BY <1>1
      <4>2. -1 - k \in Nat /\ -1 - (-1 - k) = k
        BY <1>2, <2>1
      <4>3. \E a \in Nat : k = -1 - a
        BY <4>2, <1>2
      <4> QED BY <1>1, <4>1, <4>3
    <3> QED BY <1>1, <1>2, <1>3, <3>1
  <2> QED BY <1>2, <2>1
<1>5. q < k => (q + 1) * QuarterLength <= m
  <2> SUFFICES ASSUME q < k PROVE (q + 1) * QuarterLength <= m
    OBVIOUS
  <2>1. PICK a \in Nat : k = (q + 1) + a
    <3>1. k - (q + 1) \in Nat /\ k = (q + 1) + (k - (q + 1))
      BY <1>2
    <3> QED BY <3>1
  <2>2. k * QuarterLength = (q + 1) * QuarterLength + a * QuarterLength /\ a * QuarterLength \in Nat
    BY <1>1, <2>1
  <2> QED BY <1>1, <1>2, <1>3, <2>2
<1>6. k <= q => m < (q + 1) * QuarterLength
  <2> SUFFICES ASSUME k <= q PROVE m < (q + 1) * QuarterLength
    OBVIOUS
  <2>1. PICK a \in Nat : q + 1 = k + 1 + a
    <3>1. q - k \in Nat /\ q + 1 = k + 1 + (q - k)
      BY <1>2
    <3> QED BY <3>1
  <2>2. (q + 1) * QuarterLength = k * QuarterLength + QuarterLength + a * QuarterLength /\ a * QuarterLength \in Nat
    BY <1>1, <1>2, <2>1
  <2> QED BY <1>1, <1>2, <1>3, <2>2
<1>7. QuarterOf(m) = k /\ EndOf(q) = (q + 1) * QuarterLength
  BY DEF QuarterOf, EndOf, k
<1> QED
  BY <1>1, <1>2, <1>3, <1>4, <1>5, <1>6, <1>7

\* The quarter of an hour, and the one before, have rows.
LEMMA HoursAndQuarters ==
  /\ Hours \subseteq Nat /\ Quarters \subseteq Nat
  /\ \A m \in Hours : QuarterOf(m) \in Quarters
  /\ \A m \in Hours : QuarterOf(m) > 0 => QuarterOf(m) - 1 \in Quarters
<1>1. LastHour \in Nat
  BY ScoringAssumption
<1>2. QuarterOf(LastHour) \in Nat /\ LastHour < EndOf(QuarterOf(LastHour))
  BY <1>1, QuarterOver
<1>3. ASSUME NEW m \in Hours PROVE QuarterOf(m) \in Nat /\ QuarterOf(m) <= QuarterOf(LastHour)
  <2>1. m \in Nat /\ m <= LastHour
    BY <1>1 DEF Hours
  <2>2. ~(EndOf(QuarterOf(LastHour)) <= m) /\ QuarterOf(m) \in Nat
    BY <1>1, <1>2, <2>1, QuarterOver
  <2> QED BY <1>2, <2>1, <2>2, QuarterOver
<1> QED
  BY <1>1, <1>2, <1>3 DEF Hours, Quarters

\* The moment that decides the quarter of a task is a number.
LEMMA MomentIsNat ==
  ASSUME NEW j \in Job
  PROVE  MomentItCounts(j) \in Nat /\ JobDeadline(j) \in Nat
<1>1. j.due \in Nat /\ j.credit \in Nat /\ (j.reviewed # NoRow => j.reviewed \in Nat)
  BY ScoringAssumption, HoursAndQuarters DEF Job
<1>2. JobDeadline(j) \in Nat
  BY <1>1 DEF JobDeadline
<1> QED
  BY <1>1, <1>2 DEF MomentItCounts

\* mark_task marks only tasks that count in the quarter, and that no block holds back.
LEMMA MarkOfATask ==
  ASSUME NEW j, NEW q, NEW now
  PROVE  /\ MarkTask(j, q, now) \in Marks \cup {NoRow}
         /\ j.held \/ QuarterOf(MomentItCounts(j)) # q => MarkTask(j, q, now) = NoRow
         /\ MarkTask(j, q, now) # NoRow => ~j.held /\ QuarterOf(MomentItCounts(j)) = q
BY DEF MarkTask, HeldBack, Marks

\* A late run judges by the end of the quarter, not by its own moment.
LEMMA LateIsAtTheEnd ==
  ASSUME NEW j, NEW q \in Nat, NEW now \in Nat, EndOf(q) <= now
  PROVE  MarkTask(j, q, now) = MarkTask(j, q, EndOf(q))
<1>1. EndOf(q) \in Nat
  BY QuarterOver
<1>2. JudgedAt(q, now) = EndOf(q) /\ JudgedAt(q, EndOf(q)) = EndOf(q)
  BY <1>1 DEF JudgedAt, FirstOf
<1> QED
  BY <1>2 DEF MarkTask

\* The marks that a run finds are those of mark_task.
LEMMA MarksFound ==
  ASSUME NEW q, NEW now, NEW t \in Jobs, NEW m \in Marks
  PROVE  <<t, m>> \in MarkedTasks(job, q, now) <=> MarkTask(job[t], q, now) = m
BY ScoringAssumption DEF MarkedTasks

\* What a step may do to a task.
Untouched(t) == job'[t] = job[t]
\* It is completed now.
Completed(t) ==
  /\ job[t].status = "open" /\ hour' = hour
  /\ job'[t] = [job[t] EXCEPT !.status = "completed", !.done = hour]
\* Its block is reviewed now.
Reviewed(t) ==
  /\ job[t].held /\ hour' = hour
  /\ \E c \in Nat : job'[t] = [job[t] EXCEPT !.held = FALSE, !.reviewed = hour, !.credit = c]
\* It is changed otherwise while open; on record if its quarter was over, or would be.
Changed(t) ==
  /\ job[t].status = "open" /\ hour' = hour
  /\ job'[t] \in Job /\ job'[t].done = job[t].done
  /\ job'[t].status \in {"open", "cancelled"}
  /\ t \in tampered' \/ /\ ~(QuarterOf(MomentItCounts(job[t])) < QuarterOf(hour))
                        /\ ~(QuarterOf(MomentItCounts(job'[t])) < QuarterOf(hour))

\* And to all of them.
JobsMove ==
  /\ job' = [t \in Jobs |-> job'[t]]
  /\ \A t \in Jobs : Untouched(t) \/ Completed(t) \/ Reviewed(t) \/ Changed(t)
  /\ tampered \subseteq tampered' /\ hour' \in Hours
  /\ \/ hour' = hour /\ ending' = ending
     \/ /\ hour' = hour + 1 /\ job' = job
        /\ ending' = [q \in Quarters |-> IF EndOf(q) = hour' THEN job ELSE ending[q]]

\* Each step does one of these, or lets an hour pass.
LEMMA TaskMoves ==
  ASSUME JobsAreSound, [ScoringNext]_scoringVars
  PROVE  JobsMove
<1>1. /\ hour \in Hours /\ hour \in Nat
      /\ job = [t \in Jobs |-> job[t]] /\ \A t \in Jobs : job[t] \in Job
  BY HoursAndQuarters DEF JobsAreSound
<1>2. ASSUME NEW t \in Jobs, NEW j, SetJob(t, j)
      PROVE  /\ job' = [u \in Jobs |-> job'[u]] /\ job'[t] = j /\ hour' = hour /\ ending' = ending
             /\ \A u \in Jobs \ {t} : Untouched(u)
  BY <1>1, <1>2 DEF SetJob, Untouched
<1>3. ASSUME NEW t \in Jobs, CompleteJob(t)
      PROVE  Completed(t) /\ tampered' = tampered /\ SetJob(t, job'[t])
  BY <1>1, <1>2, <1>3 DEF CompleteJob, Completed
<1>4. ASSUME NEW t \in Jobs, NEW length \in {0, 1}, ReviewHold(t, length)
      PROVE  Reviewed(t) /\ tampered' = tampered /\ SetJob(t, job'[t])
  <2> DEFINE j == [job[t] EXCEPT !.held = FALSE, !.reviewed = hour, !.credit = @ + length]
  <2>1. SetJob(t, j) /\ job[t].held /\ tampered' = tampered
    BY <1>4 DEF ReviewHold
  <2>2. job[t].credit + length \in Nat
    BY <1>1 DEF Job
  <2>3. j = [job[t] EXCEPT !.held = FALSE, !.reviewed = hour, !.credit = job[t].credit + length]
    OBVIOUS
  <2> HIDE DEF j
  <2>4. job'[t] = j /\ hour' = hour
    BY <1>2, <2>1
  <2> QED
    BY <2>1, <2>2, <2>3, <2>4 DEF Reviewed
<1>5. ASSUME NEW t \in Jobs, NEW j \in Job, ChangeTask(t, j), job[t].status = "open",
             j.done = job[t].done, j.status \in {"open", "cancelled"}
      PROVE  Changed(t) /\ tampered \subseteq tampered' /\ SetJob(t, job'[t])
  <2>1. SetJob(t, j) /\ job'[t] = j /\ hour' = hour
    BY <1>2, <1>5 DEF ChangeTask
  <2>2. /\ tampered \subseteq tampered'
        /\ t \in tampered' \/ /\ ~(QuarterOf(MomentItCounts(job[t])) < QuarterOf(hour))
                              /\ ~(QuarterOf(MomentItCounts(j)) < QuarterOf(hour))
    BY <1>5 DEF ChangeTask
  <2> QED
    BY <1>5, <2>1, <2>2 DEF Changed
<1>6. ASSUME NEW t \in Jobs,
             CancelJob(t) \/ HoldJob(t) \/ (\E h \in Holders : ReassignJob(t, h)) \/ (\E d \in DueDates : MoveDeadline(t, d))
      PROVE  Changed(t) /\ tampered \subseteq tampered' /\ SetJob(t, job'[t])
  <2>0. job[t] \in Job
    BY <1>1
  <2>1. CASE CancelJob(t)
    <3> DEFINE j == [job[t] EXCEPT !.status = "cancelled"]
    <3>1. ChangeTask(t, j) /\ job[t].status = "open"
      BY <2>1 DEF CancelJob
    <3>2. j \in Job /\ j.done = job[t].done /\ j.status \in {"open", "cancelled"}
      BY <2>0 DEF Job
    <3> HIDE DEF j
    <3> QED BY <1>5, <3>1, <3>2
  <2>2. CASE HoldJob(t)
    <3> DEFINE j == [job[t] EXCEPT !.held = TRUE]
    <3>1. ChangeTask(t, j) /\ job[t].status = "open"
      BY <2>2 DEF HoldJob
    <3>2. j \in Job /\ j.done = job[t].done /\ j.status \in {"open", "cancelled"}
      BY <2>0, <3>1 DEF Job
    <3> HIDE DEF j
    <3> QED BY <1>5, <3>1, <3>2
  <2>3. ASSUME NEW h \in Holders, ReassignJob(t, h) PROVE Changed(t) /\ tampered \subseteq tampered' /\ SetJob(t, job'[t])
    <3> DEFINE j == [job[t] EXCEPT !.who = h, !.credit = 0]
    <3>1. ChangeTask(t, j) /\ job[t].status = "open"
      BY <2>3 DEF ReassignJob
    <3>2. j \in Job /\ j.done = job[t].done /\ j.status \in {"open", "cancelled"}
      BY <2>0, <3>1 DEF Job
    <3> HIDE DEF j
    <3> QED BY <1>5, <3>1, <3>2
  <2>4. ASSUME NEW d \in DueDates, MoveDeadline(t, d) PROVE Changed(t) /\ tampered \subseteq tampered' /\ SetJob(t, job'[t])
    <3> DEFINE j == [job[t] EXCEPT !.due = d]
    <3>1. ChangeTask(t, j) /\ job[t].status = "open"
      BY <2>4 DEF MoveDeadline
    <3>2. j \in Job /\ j.done = job[t].done /\ j.status \in {"open", "cancelled"}
      BY <2>0, <3>1 DEF Job
    <3> HIDE DEF j
    <3> QED BY <1>5, <3>1, <3>2
  <2> QED BY <1>6, <2>1, <2>2, <2>3, <2>4
<1>7. ASSUME NEW t \in Jobs, SetJob(t, job'[t]), tampered \subseteq tampered',
             Completed(t) \/ Reviewed(t) \/ Changed(t)
      PROVE  /\ job' = [u \in Jobs |-> job'[u]]
             /\ \A u \in Jobs : Untouched(u) \/ Completed(u) \/ Reviewed(u) \/ Changed(u)
             /\ tampered \subseteq tampered' /\ hour' = hour /\ ending' = ending
  BY <1>2, <1>7
<1>8. ASSUME HourPasses
      PROVE  /\ job' = job /\ tampered' = tampered /\ hour' = hour + 1 /\ hour' \in Hours
             /\ ending' = [q \in Quarters |-> IF EndOf(q) = hour' THEN job ELSE ending[q]]
  BY <1>1, <1>8, ScoringAssumption DEF HourPasses, Hours
<1>9. ASSUME UNCHANGED <<hour, job, ending, tampered>>
      PROVE  /\ job' = [t \in Jobs |-> job'[t]] /\ job' = job
             /\ tampered \subseteq tampered' /\ hour' = hour /\ ending' = ending
  BY <1>1, <1>9
<1>10. ASSUME NEW t \in Jobs, SetJob(t, job'[t]), tampered \subseteq tampered',
              Completed(t) \/ Reviewed(t) \/ Changed(t)
       PROVE  JobsMove
  BY <1>1, <1>7, <1>10 DEF JobsMove
<1>11. CASE HourPasses
  BY <1>1, <1>8, <1>11 DEF JobsMove, Untouched
<1>12. CASE UNCHANGED <<hour, job, ending, tampered>>
  BY <1>1, <1>9, <1>12 DEF JobsMove, Untouched
<1> QED
  BY <1>3, <1>4, <1>6, <1>10, <1>11, <1>12
  DEF ScoringNext, scoringVars, BeginNight, SaveTaskCount, SaveMarks, CommitNight, AbandonNight, BeginStory,
      FinishStory, scoringHistory

\* A quarter that is over: what its figures rest on stays.
LEMMA TaskStaysPut ==
  ASSUME JobsAreSound, [ScoringNext]_scoringVars, NEW q \in Quarters, EndOf(q) <= hour,
         NEW t \in Jobs, t \notin tampered'
  PROVE  /\ t \notin tampered /\ EndOf(q) <= hour' /\ ending'[q] = ending[q]
         /\ CountsIn(t, q) => CountsIn(t, q)' /\ job'[t].who = job[t].who
         /\ job'[t].done # EndOf(q) =>
              job[t].done # EndOf(q) /\ MarkTask(job'[t], q, EndOf(q)) = MarkTask(job[t], q, EndOf(q))
<1>1. /\ Untouched(t) \/ Completed(t) \/ Reviewed(t) \/ Changed(t)
      /\ t \notin tampered
      /\ \/ hour' = hour /\ ending' = ending
         \/ hour' = hour + 1 /\ ending' = [x \in Quarters |-> IF EndOf(x) = hour' THEN job ELSE ending[x]]
  <2>1. JobsMove
    BY TaskMoves
  <2> QED BY <2>1 DEF JobsMove
<1>2. /\ hour \in Nat /\ q \in Nat /\ job[t] \in Job /\ EndOf(q) \in Nat /\ EndOf(q) # NoRow
      /\ hour \in Hours
  <2>1. hour \in Hours /\ hour \in Nat /\ q \in Nat
    BY HoursAndQuarters DEF JobsAreSound
  <2>2. EndOf(q) \in Nat
    BY <2>1, QuarterOver
  <2>3. EndOf(q) \in Hours
    BY <2>1, <2>2, ScoringAssumption DEF Hours
  <2> QED BY <2>1, <2>2, <2>3, ScoringAssumption DEF JobsAreSound
<1>3. EndOf(q) <= hour' /\ ending'[q] = ending[q]
  <2>1. CASE hour' = hour /\ ending' = ending
    BY <2>1
  <2>2. CASE hour' = hour + 1 /\ ending' = [x \in Quarters |-> IF EndOf(x) = hour' THEN job ELSE ending[x]]
    BY <1>2, <2>2
  <2> QED BY <1>1, <2>1, <2>2
<1>4. q < QuarterOf(hour)
  BY <1>2, QuarterOver
<1>5. CASE Untouched(t)
  BY <1>1, <1>3, <1>5 DEF Untouched, CountsIn
<1>6. CASE Completed(t)
  <2>1. /\ job[t].status = "open" /\ job[t].done = NoRow
        /\ job'[t] = [job[t] EXCEPT !.status = "completed", !.done = hour]
    BY <1>6 DEF Completed, JobsAreSound
  <2>2. /\ job'[t].due = job[t].due /\ job'[t].credit = job[t].credit /\ job'[t].reviewed = job[t].reviewed
        /\ job'[t].held = job[t].held /\ job'[t].who = job[t].who /\ job'[t].status = "completed"
        /\ job'[t].done = hour
    BY <1>2, <2>1 DEF Job
  <2>3. /\ JobDeadline(job'[t]) = JobDeadline(job[t])
        /\ MomentItCounts(job'[t]) = MomentItCounts(job[t])
    BY <2>2 DEF JobDeadline, MomentItCounts
  <2>4. CountsIn(t, q) => CountsIn(t, q)'
    BY <2>2, <2>3 DEF CountsIn
  <2>5. JudgedAt(q, EndOf(q)) = EndOf(q)
    BY <1>2 DEF JudgedAt, FirstOf
  <2>6. ASSUME job'[t].done # EndOf(q) PROVE MarkTask(job'[t], q, EndOf(q)) = MarkTask(job[t], q, EndOf(q))
    <3>1. ~(job'[t].done <= EndOf(q))
      BY <1>2, <2>2, <2>6
    <3> QED BY <2>1, <2>2, <2>3, <2>5, <3>1 DEF MarkTask, HeldBack
  <2> QED BY <1>1, <1>2, <1>3, <2>1, <2>2, <2>4, <2>6
<1>7. CASE Reviewed(t)
  <2>1. PICK c \in Nat : job[t].held /\ job'[t] = [job[t] EXCEPT !.held = FALSE, !.reviewed = hour, !.credit = c]
    BY <1>7 DEF Reviewed
  <2>2. /\ job'[t].reviewed = hour /\ job'[t].who = job[t].who /\ job'[t].done = job[t].done
    BY <1>2, <2>1 DEF Job
  <2>3. job'[t] \in Job
    BY <1>2, <2>1 DEF Job
  <2>4. MomentItCounts(job'[t]) \in Nat /\ hour <= MomentItCounts(job'[t])
    <3> DEFINE j == job'[t]
    <3>1. MomentItCounts(j) \in Nat /\ JobDeadline(j) \in Nat
      BY <2>3, MomentIsNat
    <3>2. j.reviewed = hour /\ hour # NoRow
      BY <1>2, <2>2, ScoringAssumption
    <3> HIDE DEF j
    <3>3. hour <= MomentItCounts(j)
      BY <1>2, <3>1, <3>2 DEF MomentItCounts
    <3> QED BY <3>1, <3>3 DEF j
  <2>5. QuarterOf(MomentItCounts(job'[t])) # q
    <3>1. q < QuarterOf(MomentItCounts(job'[t]))
      BY <1>2, <2>4, QuarterOver
    <3>2. QuarterOf(MomentItCounts(job'[t])) \in Nat
      BY <1>2, <2>4, QuarterOver
    <3> QED BY <1>2, <3>1, <3>2
  <2>6. MarkTask(job'[t], q, EndOf(q)) = NoRow /\ MarkTask(job[t], q, EndOf(q)) = NoRow
    BY <2>1, <2>5, MarkOfATask
  <2> QED BY <1>1, <1>3, <2>1, <2>2, <2>6 DEF CountsIn
<1>8. CASE Changed(t)
  <2>1. /\ job'[t] \in Job /\ job'[t].done = job[t].done
        /\ ~(QuarterOf(MomentItCounts(job[t])) < QuarterOf(hour))
        /\ ~(QuarterOf(MomentItCounts(job'[t])) < QuarterOf(hour))
    BY <1>8 DEF Changed
  <2>2. QuarterOf(MomentItCounts(job[t])) # q /\ QuarterOf(MomentItCounts(job'[t])) # q
    BY <1>4, <2>1
  <2>3. MarkTask(job'[t], q, EndOf(q)) = NoRow /\ MarkTask(job[t], q, EndOf(q)) = NoRow
    BY <2>2, MarkOfATask
  <2> QED BY <1>1, <1>3, <2>1, <2>2, <2>3 DEF CountsIn
<1> QED
  BY <1>1, <1>5, <1>6, <1>7, <1>8

\* Tasks stay sound.
LEMMA JobsStep ==
  ASSUME JobsAreSound, [ScoringNext]_scoringVars
  PROVE  JobsAreSound'
<1>1. /\ job' = [t \in Jobs |-> job'[t]] /\ hour' \in Hours
      /\ \A t \in Jobs : Untouched(t) \/ Completed(t) \/ Reviewed(t) \/ Changed(t)
  BY TaskMoves DEF JobsMove
<1>2. ASSUME NEW t \in Jobs
      PROVE  job'[t] \in Job /\ (job'[t].status = "open" => job'[t].done = NoRow)
  <2>1. hour \in Hours /\ job[t] \in Job /\ (job[t].status = "open" => job[t].done = NoRow)
    BY DEF JobsAreSound
  <2>2. CASE Untouched(t)
    BY <2>1, <2>2 DEF Untouched
  <2>3. CASE Completed(t)
    BY <2>1, <2>3 DEF Completed, Job
  <2>4. CASE Reviewed(t)
    <3>1. PICK c \in Nat : job'[t] = [job[t] EXCEPT !.held = FALSE, !.reviewed = hour, !.credit = c]
      BY <2>4 DEF Reviewed
    <3> QED BY <2>1, <3>1 DEF Job
  <2>5. CASE Changed(t)
    BY <2>1, <2>5 DEF Changed
  <2> QED BY <1>1, <2>2, <2>3, <2>4, <2>5
<1> QED
  BY <1>1, <1>2 DEF JobsAreSound

\* Nor does a later hour or change alter what the end of a quarter decided.
LEMMA EndingStep ==
  ASSUME JobsAreSound, EndingStands, [ScoringNext]_scoringVars
  PROVE  EndingStands'
<1> SUFFICES ASSUME NEW q \in Quarters, EndOf(q) <= hour', NEW t \in Jobs \ tampered', job'[t].done # EndOf(q)
             PROVE  MarkTask(job'[t], q, EndOf(q)) = MarkTask(ending'[q][t], q, EndOf(q))
  BY DEF EndingStands
<1>1. CASE EndOf(q) <= hour
  BY <1>1, TaskStaysPut DEF EndingStands
<1>2. CASE ~(EndOf(q) <= hour)
  <2>1. hour \in Nat /\ EndOf(q) \in Nat
    BY HoursAndQuarters, QuarterOver DEF JobsAreSound
  <2>2. /\ job' = job /\ hour' = hour + 1
        /\ ending' = [x \in Quarters |-> IF EndOf(x) = hour' THEN job ELSE ending[x]]
    BY <1>2, TaskMoves DEF JobsMove
  <2>3. EndOf(q) = hour'
    BY <1>2, <2>1, <2>2
  <2>4. ending'[q] = job
    BY <2>2, <2>3
  <2> QED BY <2>2, <2>4
<1> QED BY <1>1, <1>2

\* What frozen rows say stays right.
LEMMA AgreementStays ==
  ASSUME JobsAreSound, [ScoringNext]_scoringVars, NEW q \in Quarters, NEW row, NEW cards,
         QuarterAgrees(row, cards, q)
  PROVE  QuarterAgrees(row, cards, q)'
<1>1. ASSUME Final(row) PROVE RowAgrees(row.marks, q)'
  <2>1. RowAgrees(row.marks, q)
    BY <1>1 DEF QuarterAgrees
  <2>2. EndOf(q) <= hour /\ EndOf(q) <= hour'
    <3>1. EndOf(q) <= hour
      BY <2>1 DEF RowAgrees
    <3>2. hour \in Nat /\ EndOf(q) \in Nat
      BY HoursAndQuarters, QuarterOver DEF JobsAreSound
    <3> QED BY <3>1, <3>2, TaskMoves DEF JobsMove
  <2>3. ASSUME NEW t \in Jobs \ tampered', NEW m \in Marks
        PROVE  /\ <<t, m>> \in row.marks => CountsIn(t, q)'
               /\ job'[t].done # EndOf(q) =>
                    (<<t, m>> \in row.marks <=> MarkTask(ending'[q][t], q, EndOf(q)) = m)
    BY <2>1, <2>2, TaskStaysPut DEF RowAgrees
  <2> QED BY <2>2, <2>3 DEF RowAgrees
<1>2. ASSUME NEW h \in Holders, Final(cards[h]) PROVE CardAgrees(cards[h].marks, q, h)'
  <2>1. CardAgrees(cards[h].marks, q, h)
    BY <1>2 DEF QuarterAgrees
  <2>2. EndOf(q) <= hour /\ EndOf(q) <= hour'
    <3>1. EndOf(q) <= hour
      BY <2>1 DEF CardAgrees
    <3>2. hour \in Nat /\ EndOf(q) \in Nat
      BY HoursAndQuarters, QuarterOver DEF JobsAreSound
    <3> QED BY <3>1, <3>2, TaskMoves DEF JobsMove
  <2>3. ASSUME NEW t \in Jobs \ tampered', NEW m \in Marks, <<t, m>> \in cards[h].marks
        PROVE  CountsIn(t, q)' /\ job'[t].who = h
    BY <2>1, <2>2, <2>3, TaskStaysPut DEF CardAgrees
  <2> QED BY <2>2, <2>3 DEF CardAgrees
<1> QED
  BY <1>1, <1>2 DEF QuarterAgrees, Final

\* What a run works out for a quarter that is over.
LEMMA WorkedOut ==
  ASSUME LateInvariant, NEW q \in Quarters, NEW now \in Hours, now <= hour, NEW found, NEW cards, NEW final,
         found = MarkedTasks(job, q, now), final => EndOf(q) <= now,
         cards = [h \in Holders |->
                    IF card[q][h] = NoRow /\ {m \in found : job[m[1]].who = h} = {} THEN NoRow
                    ELSE Refreshed(card[q][h], {m \in found : job[m[1]].who = h}, final)]
  PROVE  QuarterAgrees(Refreshed(board[q], found, final), cards, q)
<1>1. QuarterAgrees(board[q], card[q], q)
  BY DEF LateInvariant, FinalRowsAgree
<1>2. /\ q \in Nat /\ now \in Nat /\ hour \in Nat /\ EndOf(q) \in Nat
  BY HoursAndQuarters, QuarterOver DEF LateInvariant, JobsAreSound
<1>3. ASSUME EndOf(q) <= now, NEW t \in Jobs \ tampered, NEW m \in Marks
      PROVE  /\ EndOf(q) <= hour
             /\ <<t, m>> \in found => CountsIn(t, q)
             /\ job[t].done # EndOf(q) => (<<t, m>> \in found <=> MarkTask(ending[q][t], q, EndOf(q)) = m)
  <2>1. EndOf(q) <= hour
    BY <1>2, <1>3
  <2>2. <<t, m>> \in found <=> MarkTask(job[t], q, now) = m
    BY MarksFound
  <2>3. MarkTask(job[t], q, now) = MarkTask(job[t], q, EndOf(q))
    BY <1>2, <1>3, LateIsAtTheEnd
  <2>4. MarkTask(job[t], q, now) = m => CountsIn(t, q)
    BY MarkOfATask, ScoringAssumption DEF CountsIn
  <2>5. job[t].done # EndOf(q) => MarkTask(job[t], q, EndOf(q)) = MarkTask(ending[q][t], q, EndOf(q))
    BY <2>1 DEF LateInvariant, EndingStands
  <2> QED BY <2>1, <2>2, <2>3, <2>4, <2>5
<1>4. ASSUME Final(Refreshed(board[q], found, final))
      PROVE  RowAgrees(Refreshed(board[q], found, final).marks, q)
  <2>1. CASE Final(board[q])
    <3>1. Refreshed(board[q], found, final) = board[q]
      BY <2>1 DEF Refreshed, Final
    <3> QED BY <1>1, <2>1, <3>1 DEF QuarterAgrees
  <2>2. CASE ~Final(board[q])
    <3>1. Refreshed(board[q], found, final) = [final |-> final, marks |-> found]
      BY <2>2 DEF Refreshed, Final
    <3>2. final /\ Refreshed(board[q], found, final).marks = found
      BY <1>4, <3>1 DEF Final
    <3>3. EndOf(q) <= now /\ EndOf(q) <= hour
      BY <1>2, <3>2
    <3> QED BY <1>3, <3>2, <3>3 DEF RowAgrees
  <2> QED BY <2>1, <2>2
<1>5. ASSUME NEW h \in Holders, Final(cards[h]) PROVE CardAgrees(cards[h].marks, q, h)
  <2> DEFINE his == {m \in found : job[m[1]].who = h}
  <2>1. cards[h] = Refreshed(card[q][h], his, final)
    BY <1>5 DEF Final
  <2>2. CASE Final(card[q][h])
    <3>1. cards[h] = card[q][h]
      BY <2>1, <2>2 DEF Refreshed, Final
    <3> QED BY <1>1, <2>2, <3>1 DEF QuarterAgrees
  <2>3. CASE ~Final(card[q][h])
    <3>1. cards[h] = [final |-> final, marks |-> his]
      BY <2>1, <2>3 DEF Refreshed, Final
    <3> HIDE DEF his
    <3>2. final /\ cards[h].marks = his
      BY <1>5, <3>1 DEF Final
    <3>3. EndOf(q) <= now /\ EndOf(q) <= hour
      BY <1>2, <3>2
    <3>4. ASSUME NEW t \in Jobs \ tampered, NEW m \in Marks, <<t, m>> \in his
          PROVE  CountsIn(t, q) /\ job[t].who = h
      <4>1. <<t, m>> \in found /\ job[t].who = h
        BY <3>4 DEF his
      <4> QED BY <1>3, <3>3, <4>1
    <3> QED BY <3>2, <3>3, <3>4 DEF CardAgrees
  <2> QED BY <2>2, <2>3
<1> QED
  BY <1>4, <1>5 DEF QuarterAgrees

\* What SaveMarks does, in the terms of WorkedOut.
LEMMA SavedMarks ==
  ASSUME LateInvariant, NEW n \in Nights, SaveMarks(n)
  PROVE  \E x \in Quarters : \E row, cards :
           /\ QuarterAgrees(row, cards, x)
           /\ ~night[n].overtaken => Closed(row, cards)
           /\ night[n] # NoRow /\ night[n].todo # << >>
           /\ night'[n] = [now |-> night[n].now, overtaken |-> night[n].overtaken, tally |-> night[n].tally,
                           card |-> With(night[n].card, x, cards), board |-> With(night[n].board, x, row),
                           todo |-> Tail(night[n].todo)]
<1> DEFINE x     == Head(night[n].todo).of
           found == MarkedTasks(job, x, night[n].now)
           cards == [h \in Holders |->
                       IF card[x][h] = NoRow /\ {m \in found : job[m[1]].who = h} = {} THEN NoRow
                       ELSE Refreshed(card[x][h], {m \in found : job[m[1]].who = h}, Closes(n, x))]
           row   == Refreshed(board[x], found, Closes(n, x))
           todo  == Tail(night[n].todo)
<1>1. /\ night[n] # NoRow /\ night[n].todo # << >>
      /\ night' = [night EXCEPT ![n].card = With(@, x, cards), ![n].board = With(@, x, row),
                                ![n].todo = Tail(@)]
  BY DEF SaveMarks, Due
<1>2. /\ night[n] = [now |-> night[n].now, overtaken |-> night[n].overtaken, tally |-> night[n].tally,
                     card |-> night[n].card, board |-> night[n].board, todo |-> night[n].todo]
      /\ night = [m \in Nights |-> night[m]]
  BY <1>1 DEF LateInvariant, ScoringInvariant, NightsAreSound
<1>3. /\ night[n].now \in Hours /\ night[n].now <= hour /\ night[n].todo \in Seq(Stage)
      /\ ~night[n].overtaken => night[n].todo \in Seq(OpenStage)
  BY <1>1 DEF LateInvariant, NightsKnow
<1>4. x \in Quarters /\ (~night[n].overtaken => ~Frozen(x))
  <2>1. Head(night[n].todo) \in Stage /\ (~night[n].overtaken => Head(night[n].todo) \in OpenStage)
    BY <1>1, <1>3, HeadTailProperties
  <2> QED BY <2>1 DEF Stage, OpenStage
<1>5. Closes(n, x) \in BOOLEAN /\ (Closes(n, x) => EndOf(x) <= night[n].now)
  <2> HIDE DEF x
  <2>1. x \in Nat /\ night[n].now \in Nat
    BY <1>3, <1>4, HoursAndQuarters
  <2> QED BY <2>1, QuarterOver DEF Closes
<1>6. QuarterAgrees(row, cards, x)
  <2> DEFINE final == Closes(n, x)
  <2>1. cards = [h \in Holders |->
                   IF card[x][h] = NoRow /\ {m \in found : job[m[1]].who = h} = {} THEN NoRow
                   ELSE Refreshed(card[x][h], {m \in found : job[m[1]].who = h}, final)]
    OBVIOUS
  <2>2. row = Refreshed(board[x], found, final)
    OBVIOUS
  <2>3. found = MarkedTasks(job, x, night[n].now)
    OBVIOUS
  <2>4. final => EndOf(x) <= night[n].now
    BY <1>5
  <2> HIDE DEF x, found, cards, row, final
  <2> QED BY <1>3, <1>4, <2>1, <2>2, <2>3, <2>4, WorkedOut
<1>7. ASSUME ~night[n].overtaken PROVE Closed(row, cards)
  <2>1. ~Final(board[x])
    BY <1>4, <1>7 DEF Frozen, Final
  <2>2. row = [final |-> Closes(n, x), marks |-> found]
    BY <2>1 DEF Refreshed, Final
  <2>3. ASSUME NEW h \in Holders, cards[h] # NoRow, Closes(n, x) PROVE cards[h].final
    <3> DEFINE his == {m \in found : job[m[1]].who = h}
    <3>1. cards[h] = Refreshed(card[x][h], his, Closes(n, x))
      BY <2>3
    <3> HIDE DEF his, cards
    <3> QED BY <1>5, <2>3, <3>1 DEF Refreshed
  <2>4. row # NoRow /\ row.final => Closes(n, x)
    BY <2>2
  <2> HIDE DEF row, cards, x
  <2> QED BY <2>3, <2>4 DEF Closed, Final
<1> HIDE DEF x, cards, row, found
<1>8. night'[n] = [night[n] EXCEPT !.card = With(@, x, cards), !.board = With(@, x, row), !.todo = todo]
  BY <1>1, <1>2
<1>9. night'[n] = [now |-> night[n].now, overtaken |-> night[n].overtaken, tally |-> night[n].tally,
                   card |-> With(night[n].card, x, cards), board |-> With(night[n].board, x, row),
                   todo |-> todo]
  BY <1>2, <1>8
<1> QED
  BY <1>1, <1>4, <1>5, <1>6, <1>7, <1>9

\* What the runs hold: what they held, or what one of them has just worked out.
LEMMA HeldQuarters ==
  ASSUME LateInvariant, [ScoringNext]_scoringVars, NEW n \in Nights, night'[n] # NoRow, NEW q \in Quarters,
         q \in DOMAIN night'[n].card
  PROVE  /\ QuarterAgrees(night'[n].board[q], night'[n].card[q], q)
         /\ ~night'[n].overtaken => Closed(night'[n].board[q], night'[n].card[q])
<1> DEFINE Same == night[n] # NoRow /\ night'[n].card = night[n].card /\ night'[n].board = night[n].board
                   /\ (night[n].overtaken => night'[n].overtaken)
<1>1. CASE Same
  <2>1. /\ QuarterAgrees(night[n].board[q], night[n].card[q], q)
        /\ ~night[n].overtaken => Closed(night[n].board[q], night[n].card[q])
    BY <1>1 DEF LateInvariant, FinalRowsAgree, NightsKnow
  <2> QED BY <1>1, <2>1
<1>2. ASSUME NEW m \in Nights, SaveMarks(m), ~Same
      PROVE  /\ QuarterAgrees(night'[n].board[q], night'[n].card[q], q)
             /\ ~night'[n].overtaken => Closed(night'[n].board[q], night'[n].card[q])
  <2>1. n = m
    BY <1>2 DEF SaveMarks, LateInvariant, ScoringInvariant, NightsAreSound
  <2>2a. PICK x \in Quarters : \E row, cards :
           /\ QuarterAgrees(row, cards, x)
           /\ ~night[n].overtaken => Closed(row, cards)
           /\ night[n] # NoRow
           /\ night'[n] = [now |-> night[n].now, overtaken |-> night[n].overtaken, tally |-> night[n].tally,
                           card |-> With(night[n].card, x, cards), board |-> With(night[n].board, x, row),
                           todo |-> Tail(night[n].todo)]
    BY <1>2, <2>1, SavedMarks
  <2>2. PICK row, cards :
           /\ QuarterAgrees(row, cards, x)
           /\ ~night[n].overtaken => Closed(row, cards)
           /\ night[n] # NoRow
           /\ night'[n] = [now |-> night[n].now, overtaken |-> night[n].overtaken, tally |-> night[n].tally,
                           card |-> With(night[n].card, x, cards), board |-> With(night[n].board, x, row),
                           todo |-> Tail(night[n].todo)]
    BY <2>2a
  <2>3. /\ night'[n].card = With(night[n].card, x, cards) /\ night'[n].board = With(night[n].board, x, row)
        /\ night'[n].overtaken = night[n].overtaken
        /\ DOMAIN night[n].board = DOMAIN night[n].card
    BY <2>2 DEF LateInvariant, ScoringInvariant, NightsAreSound
  <2>4. CASE q = x
    <3>1. night'[n].card[q] = cards /\ night'[n].board[q] = row
      BY <2>3, <2>4 DEF With
    <3> QED BY <2>2, <2>3, <2>4, <3>1
  <2>5. CASE q # x
    <3>1. /\ q \in DOMAIN night[n].card
          /\ night'[n].card[q] = night[n].card[q] /\ night'[n].board[q] = night[n].board[q]
      BY <2>3, <2>5 DEF With
    <3>2. /\ QuarterAgrees(night[n].board[q], night[n].card[q], q)
          /\ ~night[n].overtaken => Closed(night[n].board[q], night[n].card[q])
      BY <2>2, <3>1 DEF LateInvariant, FinalRowsAgree, NightsKnow
    <3> QED BY <2>3, <3>1, <3>2
  <2> QED BY <2>4, <2>5
<1>3. ASSUME NEW m \in Nights, SaveTaskCount(m) PROVE Same
  <2>1. PICK tallies, todo :
          night[m] # NoRow /\ night' = [night EXCEPT ![m].tally = tallies, ![m].todo = todo]
    BY <1>3 DEF SaveTaskCount, Due
  <2>2. /\ night = [k \in Nights |-> night[k]]
        /\ night[m] = [now |-> night[m].now, overtaken |-> night[m].overtaken, tally |-> night[m].tally,
                       card |-> night[m].card, board |-> night[m].board, todo |-> night[m].todo]
    BY <2>1 DEF LateInvariant, ScoringInvariant, NightsAreSound
  <2>3. n # m => night'[n] = night[n]
    BY <2>1, <2>2
  <2>4. night'[m] = [night[m] EXCEPT !.tally = tallies, !.todo = todo]
    BY <2>1, <2>2
  <2>5. night'[m] = [now |-> night[m].now, overtaken |-> night[m].overtaken, tally |-> tallies,
                     card |-> night[m].card, board |-> night[m].board, todo |-> todo]
    BY <2>2, <2>4
  <2>6. n = m => night'[n].card = night[n].card /\ night'[n].board = night[n].board
                 /\ night'[n].overtaken = night[n].overtaken
    BY <2>5
  <2> QED BY <2>1, <2>3, <2>6
<1>4. ASSUME NEW m \in Nights, CommitNight(m) PROVE Same
  BY <1>4 DEF CommitNight, LateInvariant, ScoringInvariant, NightsAreSound
<1>5. ASSUME NEW m \in Nights, AbandonNight(m) PROVE Same
  BY <1>5 DEF AbandonNight, LateInvariant, ScoringInvariant, NightsAreSound
<1>6. ASSUME NEW m \in Nights, BeginNight(m) PROVE Same
  <2>1. n # m => Same
    BY <1>6 DEF BeginNight, LateInvariant, ScoringInvariant, NightsAreSound
  <2>2. n = m => night'[n].card = << >>
    BY <1>6 DEF BeginNight, LateInvariant, ScoringInvariant, NightsAreSound
  <2> QED BY <2>1, <2>2
<1>7. ASSUME UNCHANGED night PROVE Same
  BY <1>7
<1> HIDE DEF Same
<1> QED
  BY <1>1, <1>2, <1>3, <1>4, <1>5, <1>6, <1>7
  DEF ScoringNext, scoringVars, CompleteJob, CancelJob, HoldJob, ReassignJob, MoveDeadline, ReviewHold,
      ChangeTask, SetJob, HourPasses, BeginStory, FinishStory, workers

\* What the tables hold: what they held, or what a run has just committed.
LEMMA CommittedRows ==
  ASSUME LateInvariant, [ScoringNext]_scoringVars, NEW q \in Quarters
  PROVE  \/ board'[q] = board[q] /\ card'[q] = card[q]
         \/ \E n \in Nights : /\ CommitNight(n) /\ night[n] # NoRow /\ q \in DOMAIN night[n].card
                              /\ board'[q] = night[n].board[q] /\ card'[q] = night[n].card[q]
<1>1. ASSUME NEW n \in Nights, CommitNight(n)
      PROVE  \/ board'[q] = board[q] /\ card'[q] = card[q]
             \/ /\ night[n] # NoRow /\ q \in DOMAIN night[n].card
                /\ board'[q] = night[n].board[q] /\ card'[q] = night[n].card[q]
  <2>1. /\ night[n] # NoRow
        /\ card' = Merged(card, night[n].card) /\ board' = Merged(board, night[n].board)
        /\ DOMAIN card = Quarters /\ DOMAIN board = Quarters /\ DOMAIN night[n].board = DOMAIN night[n].card
    BY <1>1 DEF CommitNight, LateInvariant, ScoringInvariant, NightsAreSound
  <2> QED BY <2>1 DEF Merged
<1>2. CASE UNCHANGED <<board, card>>
  BY <1>2
<1> QED
  BY <1>1, <1>2
  DEF ScoringNext, scoringVars, CompleteJob, CancelJob, HoldJob, ReassignJob, MoveDeadline, ReviewHold,
      ChangeTask, SetJob, HourPasses, BeginStory, FinishStory, BeginNight, SaveTaskCount, SaveMarks,
      AbandonNight, scoreTables

\* Frozen rows go on agreeing: those of before, and those that are just worked out.
LEMMA FinalRowsStep ==
  ASSUME LateInvariant, [ScoringNext]_scoringVars
  PROVE  FinalRowsAgree'
<1>0. JobsAreSound
  BY DEF LateInvariant
<1>1. ASSUME NEW q \in Quarters PROVE QuarterAgrees(board[q], card[q], q)'
  <2>1. PICK row, cards : row = board'[q] /\ cards = card'[q]
    OBVIOUS
  <2>2. QuarterAgrees(row, cards, q)
    BY <2>1, CommittedRows DEF LateInvariant, FinalRowsAgree
  <2>3. QuarterAgrees(row, cards, q)'
    BY <1>0, <2>2, AgreementStays
  <2> QED BY <2>1, <2>3 DEF QuarterAgrees, RowAgrees, CardAgrees, Final
<1>2. ASSUME NEW n \in Nights, NEW q \in Quarters, night'[n] # NoRow, q \in DOMAIN night'[n].card
      PROVE  QuarterAgrees(night[n].board[q], night[n].card[q], q)'
  <2>1. PICK row, cards : row = night'[n].board[q] /\ cards = night'[n].card[q]
    OBVIOUS
  <2>2. QuarterAgrees(row, cards, q)
    BY <1>2, <2>1, HeldQuarters
  <2>3. QuarterAgrees(row, cards, q)'
    BY <1>0, <2>2, AgreementStays
  <2> QED BY <2>1, <2>3 DEF QuarterAgrees, RowAgrees, CardAgrees, Final
<1> QED
  BY <1>1, <1>2 DEF FinalRowsAgree

\* A run begins with the quarters that are not frozen.
LEMMA OpenStages ==
  ASSUME LateInvariant, NEW n \in Nights, BeginNight(n)
  PROVE  \E todo \in Seq(OpenStage) :
           night' = [night EXCEPT ![n] =
             [now |-> hour, overtaken |-> FALSE, tally |-> <<>>, card |-> <<>>, board |-> <<>>, todo |-> todo]]
<1> DEFINE q == QuarterOf(hour)
           first == IF q > 0 /\ ~Frozen(q - 1) THEN Stages(q - 1) ELSE <<>>
<1>1. /\ hour \in Hours /\ hour \in Nat /\ q \in Quarters /\ q \in Nat /\ (q > 0 => q - 1 \in Quarters)
  BY HoursAndQuarters DEF LateInvariant, JobsAreSound
<1>2. ~Frozen(q)
  <2> SUFFICES ASSUME Frozen(q) PROVE FALSE
    OBVIOUS
  <2> HIDE DEF q
  <2>1. EndOf(q) <= hour
    BY <1>1 DEF Frozen, Final, LateInvariant, FinalRowsAgree, QuarterAgrees, RowAgrees
  <2>2. q < QuarterOf(hour)
    BY <1>1, <2>1, QuarterOver
  <2> QED BY <1>1, <2>2 DEF q
<1>3. ASSUME NEW p \in Quarters, ~Frozen(p) PROVE Stages(p) \in Seq(OpenStage)
  <2>1. [of |-> p, do |-> "tally"] \in OpenStage /\ [of |-> p, do |-> "marks"] \in OpenStage
    BY <1>3 DEF OpenStage, Stage
  <2> QED BY <2>1 DEF Stages
<1>4. first \in Seq(OpenStage)
  <2>1. <<>> \in Seq(OpenStage)
    BY EmptySeq
  <2> QED BY <1>1, <1>3, <2>1
<1>5. Stages(q) \in Seq(OpenStage)
  BY <1>1, <1>2, <1>3
<1>6. night' = [night EXCEPT ![n] =
        [now |-> hour, overtaken |-> FALSE, tally |-> <<>>, card |-> <<>>, board |-> <<>>, todo |-> first \o Stages(q)]]
  BY DEF BeginNight
<1> HIDE DEF first, q
<1>7. first \o Stages(q) \in Seq(OpenStage)
  BY <1>4, <1>5, ConcatProperties
<1> QED
  BY <1>6, <1>7

\* Of one run: when it began, what it has to do, and the rows it is about to add.
NightKnows(n) ==
  /\ night[n].now \in Hours /\ night[n].now <= hour /\ night[n].todo \in Seq(Stage)
  /\ ~night[n].overtaken =>
       /\ night[n].todo \in Seq(OpenStage)
       /\ \A q \in Quarters : q \in DOMAIN night[n].tally /\ night[n].tally[q].new => tally[q].rows = 0

\* Runs go on knowing: every commit overtakes the others.
LEMMA NightsStep ==
  ASSUME LateInvariant, [ScoringNext]_scoringVars
  PROVE  NightsKnow'
<1> DEFINE Good(n) == night'[n] # NoRow => NightKnows(n)'
<1>1. /\ hour \in Hours /\ hour \in Nat /\ hour' \in Nat /\ hour <= hour'
      /\ Hours \subseteq Nat
  <2>1. JobsMove /\ hour \in Hours
    BY TaskMoves DEF LateInvariant, JobsAreSound
  <2> QED BY <2>1, HoursAndQuarters DEF JobsMove
<1>2. /\ night = [m \in Nights |-> night[m]]
      /\ \A m \in Nights : night[m] # NoRow =>
           /\ NightKnows(m)
           /\ night[m] = [now |-> night[m].now, overtaken |-> night[m].overtaken, tally |-> night[m].tally,
                          card |-> night[m].card, board |-> night[m].board, todo |-> night[m].todo]
  BY DEF LateInvariant, ScoringInvariant, NightsAreSound, NightsKnow, NightKnows
<1>3. ASSUME board' = board PROVE OpenStage' = OpenStage
  BY <1>3 DEF OpenStage, Frozen
<1>4. ASSUME NEW m \in Nights, night'[m] = night[m], board' = board, tally' = tally PROVE Good(m)
  <2> SUFFICES ASSUME night'[m] # NoRow PROVE NightKnows(m)'
    OBVIOUS
  <2>1. NightKnows(m)
    BY <1>2, <1>4
  <2>2. OpenStage' = OpenStage
    BY <1>3, <1>4
  <2>3. night[m].now \in Hours /\ night[m].now <= hour'
    <3>1. night[m].now \in Hours /\ night[m].now <= hour
      BY <2>1 DEF NightKnows
    <3>2. night[m].now \in Nat
      BY <1>1, <3>1
    <3> QED BY <1>1, <3>1, <3>2
  <2>4. night'[m].now \in Hours /\ night'[m].now <= hour' /\ night'[m].todo \in Seq(Stage)
    BY <1>4, <2>1, <2>3 DEF NightKnows
  <2>5. ASSUME ~night'[m].overtaken
        PROVE  /\ night'[m].todo \in Seq(OpenStage')
               /\ \A q \in Quarters : q \in DOMAIN night'[m].tally /\ night'[m].tally[q].new => tally'[q].rows = 0
    BY <1>4, <2>1, <2>2, <2>5 DEF NightKnows
  <2> QED BY <2>4, <2>5 DEF NightKnows
<1>5. ASSUME NEW n \in Nights, BeginNight(n), NEW m \in Nights PROVE Good(m)
  <2>1. PICK todo \in Seq(OpenStage) :
          night' = [night EXCEPT ![n] =
            [now |-> hour, overtaken |-> FALSE, tally |-> <<>>, card |-> <<>>, board |-> <<>>, todo |-> todo]]
    BY <1>5, OpenStages
  <2>2. board' = board /\ tally' = tally /\ hour' = hour
    BY <1>5 DEF BeginNight, scoreTables
  <2>3. CASE m # n
    BY <1>2, <1>4, <2>1, <2>2, <2>3
  <2>4. CASE m = n
    <3>1. night'[m] = [now |-> hour, overtaken |-> FALSE, tally |-> <<>>, card |-> <<>>, board |-> <<>>, todo |-> todo]
      BY <1>2, <2>1, <2>4
    <3>2. night'[m].now = hour /\ night'[m].todo = todo /\ night'[m].tally = <<>>
      BY <3>1
    <3>3. todo \in Seq(Stage)
      <4>1. OpenStage \subseteq Stage
        BY DEF OpenStage
      <4> QED BY <4>1, SeqMonotonic
    <3>4. OpenStage' = OpenStage
      BY <1>3, <2>2
    <3> QED BY <1>1, <2>2, <3>2, <3>3, <3>4 DEF NightKnows
  <2> QED BY <2>3, <2>4
<1>6. ASSUME NEW n \in Nights, SaveTaskCount(n), NEW m \in Nights PROVE Good(m)
  <2> DEFINE x == Head(night[n].todo).of
             row == [new |-> tally[x].rows = 0, done |-> CompletedTasks(x)]
             todo == Tail(night[n].todo)
  <2>1. /\ night[n] # NoRow /\ night[n].todo # <<>>
        /\ night' = [night EXCEPT ![n].tally = With(@, x, row), ![n].todo = todo]
        /\ board' = board /\ tally' = tally /\ hour' = hour
    BY <1>6 DEF SaveTaskCount, Due, scoreTables
  <2>2. CASE m # n
    BY <1>2, <1>4, <2>1, <2>2
  <2>3. CASE m = n
    <3>1. NightKnows(n)
      BY <1>2, <2>1
    <3>2. todo \in Seq(Stage) /\ (~night[n].overtaken => todo \in Seq(OpenStage))
      BY <2>1, <3>1, HeadTailProperties DEF NightKnows
    <3>3. row.new <=> tally[x].rows = 0
      OBVIOUS
    <3> HIDE DEF x, row, todo
    <3>4. night'[n] = [night[n] EXCEPT !.tally = With(@, x, row), !.todo = todo]
      BY <1>2, <2>1
    <3>5. night'[n] = [now |-> night[n].now, overtaken |-> night[n].overtaken, tally |-> With(night[n].tally, x, row),
                       card |-> night[n].card, board |-> night[n].board, todo |-> todo]
      BY <1>2, <2>1, <3>4
    <3>6. /\ night'[n].now = night[n].now /\ night'[n].overtaken = night[n].overtaken
          /\ night'[n].todo = todo /\ night'[n].tally = With(night[n].tally, x, row)
      BY <3>5
    <3>7. OpenStage' = OpenStage
      BY <1>3, <2>1
    <3>8. ASSUME ~night[n].overtaken, NEW q \in Quarters, q \in DOMAIN night'[n].tally, night'[n].tally[q].new
          PROVE  tally[q].rows = 0
      <4>1. CASE q = x
        <5>1. night'[n].tally[q] = row
          BY <3>6, <4>1 DEF With
        <5> QED BY <3>3, <3>8, <4>1, <5>1
      <4>2. CASE q # x
        <5>1. q \in DOMAIN night[n].tally /\ night'[n].tally[q] = night[n].tally[q]
          BY <3>6, <3>8, <4>2 DEF With
        <5> QED BY <3>1, <3>8, <5>1 DEF NightKnows
      <4> QED BY <4>1, <4>2
    <3> QED BY <2>1, <2>3, <3>1, <3>2, <3>6, <3>7, <3>8 DEF NightKnows
  <2> QED BY <2>2, <2>3
<1>7. ASSUME NEW n \in Nights, SaveMarks(n), NEW m \in Nights PROVE Good(m)
  <2>1. board' = board /\ tally' = tally /\ hour' = hour /\ (m # n => night'[m] = night[m])
    BY <1>2, <1>7 DEF SaveMarks, scoreTables
  <2>2. CASE m # n
    BY <1>4, <2>1, <2>2
  <2>3. CASE m = n
    <3>1. PICK x, row, cards :
           /\ night[n] # NoRow /\ night[n].todo # << >>
           /\ night'[n] = [now |-> night[n].now, overtaken |-> night[n].overtaken, tally |-> night[n].tally,
                           card |-> With(night[n].card, x, cards), board |-> With(night[n].board, x, row),
                           todo |-> Tail(night[n].todo)]
      BY <1>7, SavedMarks
    <3>2. NightKnows(n)
      BY <1>2, <3>1
    <3>3. /\ Tail(night[n].todo) \in Seq(Stage)
          /\ ~night[n].overtaken => Tail(night[n].todo) \in Seq(OpenStage)
      BY <3>1, <3>2, HeadTailProperties DEF NightKnows
    <3>4. /\ night'[n].now = night[n].now /\ night'[n].overtaken = night[n].overtaken
          /\ night'[n].todo = Tail(night[n].todo) /\ night'[n].tally = night[n].tally
      BY <3>1
    <3>5. OpenStage' = OpenStage
      BY <1>3, <2>1
    <3> QED BY <2>1, <2>3, <3>2, <3>3, <3>4, <3>5 DEF NightKnows
  <2> QED BY <2>2, <2>3
<1>8. ASSUME NEW n \in Nights, CommitNight(n), NEW m \in Nights PROVE Good(m)
  <2> SUFFICES ASSUME night'[m] # NoRow PROVE NightKnows(m)'
    OBVIOUS
  <2>1. /\ night' = [k \in Nights |-> IF k = n \/ night[k] = NoRow THEN NoRow
                                      ELSE [night[k] EXCEPT !.overtaken = TRUE]]
        /\ hour' = hour
    BY <1>8 DEF CommitNight
  <2>2. night[m] # NoRow /\ night'[m] = [night[m] EXCEPT !.overtaken = TRUE]
    BY <2>1
  <2>3. /\ NightKnows(m)
        /\ night[m] = [now |-> night[m].now, overtaken |-> night[m].overtaken, tally |-> night[m].tally,
                       card |-> night[m].card, board |-> night[m].board, todo |-> night[m].todo]
    BY <1>2, <2>2
  <2>4. night'[m] = [now |-> night[m].now, overtaken |-> TRUE, tally |-> night[m].tally,
                     card |-> night[m].card, board |-> night[m].board, todo |-> night[m].todo]
    BY <2>2, <2>3
  <2>5. night'[m].now = night[m].now /\ night'[m].overtaken = TRUE /\ night'[m].todo = night[m].todo
    BY <2>4
  <2> QED BY <2>1, <2>3, <2>5 DEF NightKnows
<1>9. ASSUME NEW n \in Nights, AbandonNight(n), NEW m \in Nights PROVE Good(m)
  <2>1. board' = board /\ tally' = tally /\ (m # n => night'[m] = night[m]) /\ (m = n => night'[m] = NoRow)
    BY <1>2, <1>9 DEF AbandonNight, scoreTables
  <2> QED BY <1>4, <2>1
<1>10. ASSUME UNCHANGED <<board, tally, night>>, NEW m \in Nights PROVE Good(m)
  BY <1>4, <1>10
<1> HIDE DEF Good
<1>11. \A m \in Nights : Good(m)
  BY <1>5, <1>6, <1>7, <1>8, <1>9, <1>10
  DEF ScoringNext, scoringVars, CompleteJob, CancelJob, HoldJob, ReassignJob, MoveDeadline, ReviewHold,
      ChangeTask, SetJob, HourPasses, BeginStory, FinishStory, scoreTables, workers
<1>12. \A m \in Nights : night'[m] # NoRow => NightKnows(m)'
  BY <1>11 DEF Good
<1>13. \A m \in Nights, q \in Quarters : night'[m] # NoRow /\ q \in DOMAIN night'[m].card /\ ~night'[m].overtaken =>
         Closed(night'[m].board[q], night'[m].card[q])
  BY HeldQuarters
<1> QED
  BY <1>12, <1>13 DEF NightsKnow, NightKnows, Closed, Final

\* A commit that nobody got in before freezes a quarter's rows together, and adds no second row.
LEMMA TablesStep ==
  ASSUME LateInvariant, [ScoringNext]_scoringVars
  PROVE  TablesAreClosed'
<1>1. CASE UNCHANGED <<tally, board, card, nightRaced>>
  BY <1>1 DEF LateInvariant, TablesAreClosed, Closed, Final
<1>2. ASSUME NEW n \in Nights, CommitNight(n) PROVE TablesAreClosed'
  <2> DEFINE add(q) == IF night[n].tally[q].new THEN 1 ELSE 0
  <2>1. /\ night[n] # NoRow
        /\ tally' = [x \in Quarters |->
             IF x \in DOMAIN night[n].tally
               THEN [rows |-> tally[x].rows + add(x), done |-> night[n].tally[x].done]
               ELSE tally[x]]
    BY <1>2 DEF CommitNight
  <2>1a. ~nightRaced' => ~nightRaced /\ ~night[n].overtaken
    BY <1>2 DEF CommitNight
  <2>2. /\ tally = [q \in Quarters |-> tally[q]] /\ \A q \in Quarters : tally[q].rows \in Nat
        /\ ~nightRaced => \A q \in Quarters : Closed(board[q], card[q]) /\ tally[q].rows <= 1
    BY DEF LateInvariant, TablesAreClosed
  <2>3. ~night[n].overtaken =>
          /\ \A q \in Quarters : q \in DOMAIN night[n].card => Closed(night[n].board[q], night[n].card[q])
          /\ \A q \in Quarters : q \in DOMAIN night[n].tally /\ night[n].tally[q].new => tally[q].rows = 0
    BY <2>1 DEF LateInvariant, NightsKnow
  <2>4. ASSUME NEW q \in Quarters
        PROVE  tally'[q].rows \in Nat /\ (~nightRaced' => tally'[q].rows <= 1)
    <3>1. CASE q \in DOMAIN night[n].tally
      <4>1. tally'[q].rows = tally[q].rows + add(q)
        BY <2>1, <3>1
      <4>2. CASE night[n].tally[q].new
        <5>1. add(q) = 1
          BY <4>2
        <5>2. tally'[q].rows = tally[q].rows + 1
          BY <4>1, <5>1
        <5>3. ~nightRaced' => tally[q].rows = 0
          BY <2>1a, <2>3, <3>1, <4>2
        <5> QED BY <2>2, <5>2, <5>3
      <4>3. CASE ~night[n].tally[q].new
        <5>1. add(q) = 0
          BY <4>3
        <5>2. tally'[q].rows = tally[q].rows + 0
          BY <4>1, <5>1
        <5> QED BY <2>1a, <2>2, <5>2
      <4> QED BY <4>2, <4>3
    <3>2. CASE q \notin DOMAIN night[n].tally
      <4>1. tally'[q] = tally[q]
        BY <2>1, <3>2
      <4> QED BY <2>1a, <2>2, <4>1
    <3> QED BY <3>1, <3>2
  <2>5. ASSUME ~nightRaced', NEW q \in Quarters PROVE Closed(board'[q], card'[q])
    <3>1. ~nightRaced
      BY <2>1a, <2>5
    <3>2. ASSUME NEW m \in Nights, CommitNight(m) PROVE ~night[m].overtaken
      BY <2>5, <3>2 DEF CommitNight
    <3>3. ASSUME NEW m \in Nights, CommitNight(m), night[m] # NoRow, q \in DOMAIN night[m].card
          PROVE  Closed(night[m].board[q], night[m].card[q])
      BY <3>2, <3>3 DEF LateInvariant, NightsKnow
    <3>4. Closed(board[q], card[q])
      BY <2>2, <3>1
    <3> QED BY <3>3, <3>4, CommittedRows
  <2>6. tally' = [q \in Quarters |-> tally'[q]]
    BY <2>1
  <2> QED BY <2>4, <2>5, <2>6 DEF TablesAreClosed, Closed, Final
<1> QED
  BY <1>1, <1>2
  DEF ScoringNext, scoringVars, CompleteJob, CancelJob, HoldJob, ReassignJob, MoveDeadline, ReviewHold,
      ChangeTask, SetJob, HourPasses, BeginStory, FinishStory, BeginNight, SaveTaskCount, SaveMarks,
      AbandonNight, scoreTables, scoringHistory

\* A final summary tells the frozen figures, which stay (FrozenFiguresStep).
LEMMA StoriesStep ==
  ASSUME LateInvariant, [ScoringNext]_scoringVars
  PROVE  StoriesAgree'
<1>1. ASSUME NEW q \in Quarters, Frozen(q) PROVE Frozen(q)' /\ board'[q] = board[q]
  <2>1. board'[q] = board[q]
    BY <1>1, FrozenFiguresStep DEF LateInvariant, Frozen
  <2> QED BY <1>1, <2>1 DEF Frozen
<1>2. /\ \A q \in Quarters : Final(story[q]) => Frozen(q) /\ story[q].marks = board[q].marks
      /\ teller # NoRow =>
           /\ teller.of \in Quarters
           /\ teller.final => Frozen(teller.of) /\ teller.marks = board[teller.of].marks
  BY DEF LateInvariant, StoriesAgree
<1>3. CASE UNCHANGED <<story, teller>>
  <2>1. \A q \in Quarters : Final(story'[q]) => Frozen(q)' /\ story'[q].marks = board'[q].marks
    BY <1>1, <1>2, <1>3
  <2>2. ASSUME teller # NoRow
        PROVE  /\ teller.of \in Quarters
               /\ teller.final => Final(board'[teller.of]) /\ teller.marks = board'[teller.of].marks
    BY <1>1, <1>2, <2>2 DEF Frozen, Final
  <2> QED BY <1>3, <2>1, <2>2 DEF StoriesAgree, Final, Frozen
<1>4. ASSUME BeginStory PROVE StoriesAgree'
  <2>1. PICK q \in Quarters :
          /\ q < QuarterOf(hour) => Frozen(q)
          /\ teller' = [of |-> q, final |-> q < QuarterOf(hour), marks |-> board[q].marks]
    BY <1>4 DEF BeginStory
  <2>2. story' = story /\ board' = board
    BY <1>4 DEF BeginStory, scoreTables
  <2>3. teller'.of = q /\ teller'.final = (q < QuarterOf(hour)) /\ teller'.marks = board[q].marks
    BY <2>1
  <2> QED BY <1>2, <2>1, <2>2, <2>3 DEF StoriesAgree, Final, Frozen
<1>5. ASSUME FinishStory PROVE StoriesAgree'
  <2>1. /\ teller # NoRow /\ teller' = NoRow /\ board' = board
        /\ story' = [story EXCEPT ![teller.of] = Refreshed(@, teller.marks, teller.final)]
        /\ DOMAIN story = Quarters
    BY <1>5 DEF FinishStory, LateInvariant, ScoringInvariant, NightsAreSound
  <2>2. ASSUME NEW q \in Quarters, Final(story'[q]) PROVE Frozen(q) /\ story'[q].marks = board[q].marks
    <3>1. CASE q # teller.of \/ Final(story[q])
      <4>1. story'[q] = story[q]
        BY <2>1, <3>1 DEF Refreshed, Final
      <4> QED BY <1>2, <2>2, <4>1
    <3>2. CASE q = teller.of /\ ~Final(story[q])
      <4>1. story'[q] = [final |-> teller.final, marks |-> teller.marks]
        BY <2>1, <3>2 DEF Refreshed, Final
      <4>2. teller.final /\ story'[q].marks = teller.marks
        BY <2>2, <4>1 DEF Final
      <4> QED BY <1>2, <2>1, <3>2, <4>2
    <3> QED BY <3>1, <3>2
  <2> QED BY <2>1, <2>2 DEF StoriesAgree, Final, Frozen
<1> QED
  BY <1>3, <1>4, <1>5
  DEF ScoringNext, scoringVars, CompleteJob, CancelJob, HoldJob, ReassignJob, MoveDeadline, ReviewHold,
      ChangeTask, SetJob, HourPasses, BeginNight, SaveTaskCount, SaveMarks, CommitNight,
      AbandonNight, scoreTables, workers

\* At first no quarter is over and nothing is frozen.
LEMMA LateAtFirst == ScoringInit => LateInvariant
<1> SUFFICES ASSUME ScoringInit PROVE LateInvariant
  OBVIOUS
<1>1. ScoringInvariant
  BY DEF ScoringInit, ScoringInvariant, NightsAreSound, NobodyShares, FrozenIsKept
<1>2. hour = 0 /\ 0 \in Hours
  BY ScoringAssumption DEF ScoringInit, Hours
<1>3. JobsAreSound
  <2> DEFINE New == {[due |-> d, status |-> "open", done |-> NoRow, who |-> h,
                      held |-> FALSE, credit |-> 0, reviewed |-> NoRow] : d \in DueDates, h \in Holders}
  <2>1. job \in [Jobs -> New]
    BY DEF ScoringInit
  <2>2. ASSUME NEW d \in DueDates, NEW h \in Holders
        PROVE  [due |-> d, status |-> "open", done |-> NoRow, who |-> h,
                held |-> FALSE, credit |-> 0, reviewed |-> NoRow] \in Job
    BY DEF Job
  <2>3. New \subseteq Job
    BY <2>2
  <2>4. job \in [Jobs -> Job]
    <3> HIDE DEF New
    <3> QED BY <2>1, <2>3
  <2>5. \A t \in Jobs : job[t].done = NoRow
    BY <2>1
  <2> QED BY <1>2, <2>4, <2>5 DEF JobsAreSound
<1>4. ASSUME NEW q \in Quarters PROVE ~(EndOf(q) <= hour)
  <2>1. q \in Nat /\ 0 \in Nat /\ EndOf(q) \in Nat
    BY HoursAndQuarters, QuarterOver
  <2>2. QuarterLength \in Nat /\ QuarterLength >= 1
    BY ScoringAssumption
  <2>3. EndOf(q) = q * QuarterLength + QuarterLength /\ q * QuarterLength \in Nat
    BY <2>1, <2>2 DEF EndOf
  <2> QED BY <1>2, <2>2, <2>3
<1>5. EndingStands
  BY <1>4 DEF EndingStands
<1>6. \A q \in Quarters : board[q] = NoRow /\ story[q] = NoRow /\ \A h \in Holders : card[q][h] = NoRow
  BY DEF ScoringInit
<1>7. \A n \in Nights : night[n] = NoRow
  BY DEF ScoringInit
<1>8. FinalRowsAgree /\ NightsKnow
  BY <1>6, <1>7 DEF FinalRowsAgree, NightsKnow, QuarterAgrees, Final
<1>9. TablesAreClosed
  <2>1. tally = [q \in Quarters |-> [rows |-> 0, done |-> {}]]
    BY DEF ScoringInit
  <2>2. \A q \in Quarters : tally[q].rows = 0
    BY <2>1
  <2>3. tally = [q \in Quarters |-> tally[q]]
    BY <2>1
  <2> QED BY <1>6, <2>2, <2>3 DEF TablesAreClosed, Closed, Final
<1>10. StoriesAgree
  BY <1>6 DEF StoriesAgree, Final, ScoringInit
<1> QED
  BY <1>1, <1>3, <1>5, <1>8, <1>9, <1>10 DEF LateInvariant

\* Every step keeps the invariant.
LEMMA LateInvariantIsInductive ==
  LateInvariant /\ [ScoringNext]_scoringVars => LateInvariant'
<1> SUFFICES ASSUME LateInvariant, [ScoringNext]_scoringVars PROVE LateInvariant'
  OBVIOUS
<1>1. ScoringInvariant /\ JobsAreSound /\ EndingStands
  BY DEF LateInvariant
<1>2. ScoringInvariant'
  BY <1>1, ScoringStep
<1>3. JobsAreSound'
  BY <1>1, JobsStep
<1>4. EndingStands'
  BY <1>1, EndingStep
<1> QED
  BY <1>2, <1>3, <1>4, FinalRowsStep, NightsStep, TablesStep, StoriesStep DEF LateInvariant

\* So it always holds.
LEMMA LateInvariantHolds == ScoringSpec => []LateInvariant
<1> QED
  BY LateAtFirst, LateInvariantIsInductive, PTL DEF ScoringSpec

\* A frozen quarter has the marks that a run at its very end would have given, however
\* late the run was, for every task that nobody changed afterwards; its final summary
\* tells these figures; and no row of a person is left open, unless runs overlapped.
THEOREM LateRunsJudgeAlike == ScoringSpec => []LateRunsAgree
<1>1. LateInvariant => LateRunsAgree
  <2> SUFFICES ASSUME LateInvariant, NEW q \in Quarters, Frozen(q)
               PROVE  /\ \A t \in Jobs \ tampered, m \in Marks :
                           job[t].done # EndOf(q) =>
                             (<<t, m>> \in board[q].marks <=> MarkTask(ending[q][t], q, EndOf(q)) = m)
                      /\ story[q] # NoRow /\ story[q].final => story[q].marks = board[q].marks
                      /\ ~nightRaced => \A h \in Holders : card[q][h] # NoRow => card[q][h].final
    BY DEF LateRunsAgree
  <2>1. RowAgrees(board[q].marks, q)
    BY DEF LateInvariant, FinalRowsAgree, QuarterAgrees, Frozen, Final
  <2>2. story[q] # NoRow /\ story[q].final => story[q].marks = board[q].marks
    BY DEF LateInvariant, StoriesAgree, Final
  <2>3. ~nightRaced => \A h \in Holders : card[q][h] # NoRow => card[q][h].final
    BY DEF LateInvariant, TablesAreClosed, Closed, Frozen, Final
  <2> QED BY <2>1, <2>2, <2>3 DEF RowAgrees
<1> QED BY <1>1, LateInvariantHolds, PTL

\* Such a task counts in one frozen quarter, for one person, and the KPI that counts
\* tasks has one row per quarter, unless runs overlapped.
THEOREM ATaskCountsOnce == ScoringSpec => []TasksCountOnce
<1>1. LateInvariant => TasksCountOnce
  <2> SUFFICES ASSUME LateInvariant, ~nightRaced PROVE
        /\ \A t \in Jobs \ tampered :
             /\ Cardinality({q \in Quarters : Frozen(q) /\ \E m \in Marks : <<t, m>> \in board[q].marks}) <= 1
             /\ \A q \in Quarters : Frozen(q) =>
                  Cardinality({h \in Holders : card[q][h] # NoRow /\
                                 \E m \in Marks : <<t, m>> \in card[q][h].marks}) <= 1
        /\ \A q \in Quarters : tally[q].rows <= 1
    BY DEF TasksCountOnce
  <2>1. ASSUME NEW t \in Jobs \ tampered
        PROVE  Cardinality({q \in Quarters : Frozen(q) /\ \E m \in Marks : <<t, m>> \in board[q].marks}) <= 1
    <3>1. ASSUME NEW q \in Quarters, Frozen(q), NEW m \in Marks, <<t, m>> \in board[q].marks
          PROVE  QuarterOf(MomentItCounts(job[t])) = q
      <4>1. RowAgrees(board[q].marks, q)
        BY <3>1 DEF LateInvariant, FinalRowsAgree, QuarterAgrees, Frozen, Final
      <4> QED BY <3>1, <4>1 DEF RowAgrees, CountsIn
    <3> DEFINE counted == {q \in Quarters : Frozen(q) /\ \E m \in Marks : <<t, m>> \in board[q].marks}
    <3>2. \A p, q \in counted : p = q
      BY <3>1
    <3> HIDE DEF counted
    <3>3. Cardinality(counted) <= 1
      BY <3>2, AtMostOne
    <3> QED BY <3>3 DEF counted
  <2>2. ASSUME NEW t \in Jobs \ tampered, NEW q \in Quarters, Frozen(q)
        PROVE  Cardinality({h \in Holders : card[q][h] # NoRow /\
                              \E m \in Marks : <<t, m>> \in card[q][h].marks}) <= 1
    <3>1. ASSUME NEW h \in Holders, card[q][h] # NoRow, NEW m \in Marks, <<t, m>> \in card[q][h].marks
          PROVE  job[t].who = h
      <4>1. Final(card[q][h])
        BY <2>2, <3>1 DEF LateInvariant, TablesAreClosed, Closed, Frozen, Final
      <4>2. CardAgrees(card[q][h].marks, q, h)
        BY <4>1 DEF LateInvariant, FinalRowsAgree, QuarterAgrees
      <4> QED BY <3>1, <4>2 DEF CardAgrees
    <3> DEFINE counted == {h \in Holders : card[q][h] # NoRow /\ \E m \in Marks : <<t, m>> \in card[q][h].marks}
    <3>2. \A g, h \in counted : g = h
      BY <3>1
    <3> HIDE DEF counted
    <3>3. Cardinality(counted) <= 1
      BY <3>2, AtMostOne
    <3> QED BY <3>3 DEF counted
  <2>3. \A q \in Quarters : tally[q].rows <= 1
    BY DEF LateInvariant, TablesAreClosed
  <2> QED BY <2>1, <2>2, <2>3
<1> QED BY <1>1, LateInvariantHolds, PTL

-----------------------------------------------------------------------------
(***************************************************************************)
(* The performance pages, for any number of people, departments, KPIs,     *)
(* quarters and results: what one page says of someone is what another     *)
(* says.  PagesAgree.                                                      *)
(*                                                                         *)
(* It takes an invariant of what the nightly run leaves in the tables: a   *)
(* row's KPI exists or its quarter is over, a night saves everybody's      *)
(* scores, the rows of a quarter become final together and when it is      *)
(* over, and published results stand.  The rest is about the pages alone:  *)
(* a weighted average lies between its scores, a list put in order by      *)
(* counting who comes before has everybody once, and race ranks count the  *)
(* better ones.                                                            *)
(***************************************************************************)

\* The sums of the pages are those of FoldTheorems.
LEMMA PageTotals == ASSUME NEW w PROVE Total(w) = SumOver(w, DOMAIN w)
BY DEF Total, SumOver

\* A rounded quotient stays between whole numbers that the quotient lies between.
LEMMA RoundedStaysWithin ==
  ASSUME NEW a \in Int, NEW b \in Nat \ {0}, NEW c \in Int
  PROVE  /\ Rounded(a, b) \in Int
         /\ c * b <= a => c <= Rounded(a, b)
         /\ a <= c * b => Rounded(a, b) <= c
<1> DEFINE t == 2 * b
           x == 2 * a + b
           r == x \div t
<1>1. t \in Nat \ {0} /\ x \in Int /\ Rounded(a, b) = r
  BY DEF Rounded
<1> HIDE DEF r
<1>2. r \in Int /\ t * r <= x /\ x < t * r + t
  <2> HIDE DEF x, t
  <2> QED BY <1>1, Quotient DEF r
<1>3. t * c = 2 * (c * b) /\ c * b \in Int /\ b \in Int /\ b > 0
  <2>1. \A u, v \in Int : (2 * u) * v = 2 * (v * u) /\ v * u \in Int
    OBVIOUS
  <2> QED BY <2>1
<1>4. t * (r + 1) = t * r + t /\ t * r \in Int /\ t * (c + 1) = t * c + t /\ t * c \in Int
  <2>1. t \in Int /\ r \in Int /\ t * 1 = t
    BY <1>1, <1>2
  <2> HIDE DEF t
  <2> QED BY <2>1, Distributes
<1> HIDE DEF t
<1>5. ASSUME c * b <= a PROVE c <= r
  <2>1. 2 * (c * b) <= 2 * a
    BY <1>3, <1>5
  <2>2. t * c <= t * r + t /\ t * c < t * (r + 1)
    BY <1>1, <1>2, <1>3, <1>4, <2>1 DEF t
  <2>3. CASE r + 1 <= c
    <3>1. r + 1 \in Int /\ t * (r + 1) <= t * c
      <4>1. PICK k \in Nat : c = (r + 1) + k
        <5>1. c - (r + 1) \in Nat /\ c = (r + 1) + (c - (r + 1))
          BY <1>2, <2>3
        <5> QED BY <5>1
      <4>2. t * k \in Nat
        <5>1. \A u, v \in Nat : u * v \in Nat
          OBVIOUS
        <5> QED BY <1>1, <5>1
      <4>3. t * c = t * (r + 1) + t * k
        BY <1>1, <1>2, <4>1, Distributes
      <4>4. t * (r + 1) \in Int
        BY <1>1, <1>2, <1>4
      <4> QED BY <1>2, <4>2, <4>3, <4>4
    <3> QED BY <1>1, <1>2, <1>3, <1>4, <2>2, <2>3, <3>1
  <2> QED BY <1>2, <2>3
<1>6. ASSUME a <= c * b PROVE r <= c
  <2>1. t * r < t * (c + 1)
    <3>1. x < 2 * (c * b) + t
      BY <1>1, <1>3, <1>6 DEF t
    <3> QED BY <1>1, <1>2, <1>3, <1>4, <3>1
  <2>2. CASE c + 1 <= r
    <3>1. PICK k \in Nat : r = (c + 1) + k
      <4>1. r - (c + 1) \in Nat /\ r = (c + 1) + (r - (c + 1))
        BY <1>2, <2>2
      <4> QED BY <4>1
    <3>2. t * k \in Nat
      <4>1. \A u, v \in Nat : u * v \in Nat
        OBVIOUS
      <4> QED BY <1>1, <4>1
    <3>3. t * r = t * (c + 1) + t * k
      BY <1>1, <3>1, Distributes
    <3>4. t * (c + 1) \in Int
      BY <1>1, <1>4
    <3> QED BY <2>1, <3>2, <3>3, <3>4
  <2> QED BY <1>2, <2>2
<1> QED BY <1>1, <1>2, <1>5, <1>6
-----------------------------------------------------------------------------
(* Averages. *)

Weighed(f) == {x \in DOMAIN f : f[x].score # NoData}

\* What is averaged: weights, and scores some of which are missing.
Averaged(f) ==
  /\ IsFiniteSet(DOMAIN f)
  /\ \A x \in DOMAIN f : f[x].score \in Int \cup {NoData}
  /\ \A x \in Weighed(f) : f[x].weight \in Nat

\* A natural weight keeps the order of what it weighs.
LEMMA WeightsKeepOrder ==
  \A c, v \in Int, u \in Nat : (c <= v => c * u <= u * v) /\ (v <= c => u * v <= c * u)
<1>1. ASSUME NEW c \in Int, NEW v \in Int, NEW u \in Nat, c <= v PROVE u * c <= u * v
  <2>1. PICK k \in Nat : v = c + k
    <3>1. v - c \in Nat /\ v = c + (v - c)
      BY <1>1
    <3> QED BY <3>1
  <2>2. u * v = u * c + u * k /\ u * c \in Int
    BY <2>1, Distributes
  <2>3. u * k \in Nat
    <3>1. \A y, z \in Nat : y * z \in Nat
      OBVIOUS
    <3> QED BY <3>1
  <2> QED BY <2>2, <2>3
<1>2. \A c, v \in Int, u \in Nat : c <= v => u * c <= u * v
  BY <1>1
<1>3. \A c \in Int, u \in Nat : u * c = c * u
  OBVIOUS
<1> QED BY <1>2, <1>3

\* An average exists if any score does, and lies between the scores, whatever the
\* weights and however it is rounded.
LEMMA AverageIsBetween ==
  ASSUME NEW f, Averaged(f)
  PROVE  /\ Weighed(f) = {} => WeightedAverage(f) = NoData
         /\ Weighed(f) # {} =>
              /\ WeightedAverage(f) \in Int
              /\ \A c \in Int :
                   /\ (\A x \in Weighed(f) : c <= f[x].score) => c <= WeightedAverage(f)
                   /\ (\A x \in Weighed(f) : f[x].score <= c) => WeightedAverage(f) <= c
<1> DEFINE P  == Weighed(f)
           W  == [x \in P |-> f[x].weight]
           WS == [x \in P |-> f[x].weight * f[x].score]
           S  == [x \in P |-> f[x].score]
           a  == IF Total(W) > 0 THEN Total(WS) ELSE Total(S)
           b  == IF Total(W) > 0 THEN Total(W) ELSE Cardinality(P)
<1>1. IsFiniteSet(P) /\ \A x \in P : f[x].score \in Int /\ f[x].weight \in Nat
  <2>1. P \in SUBSET DOMAIN f
    BY DEF Weighed
  <2>2. IsFiniteSet(P)
    BY <2>1, FS_Subset DEF Averaged
  <2> QED BY <2>2 DEF Averaged, Weighed
<1>2. CASE P = {}
  BY <1>2 DEF WeightedAverage, Weighed
<1>3. CASE P # {}
  <2>1. WeightedAverage(f) = Rounded(a, b)
    BY <1>3 DEF WeightedAverage, Weighed
  <2>2. /\ Total(W) = SumOver(W, P) /\ Total(WS) = SumOver(WS, P) /\ Total(S) = SumOver(S, P)
    <3>1. DOMAIN W = P /\ DOMAIN WS = P /\ DOMAIN S = P
      OBVIOUS
    <3> HIDE DEF W, WS, S
    <3> QED BY <3>1, PageTotals
  <2>3. \A x \in P : W[x] \in Nat /\ S[x] \in Int /\ WS[x] = W[x] * S[x] /\ S[x] = f[x].score
    BY <1>1
  <2>4. \A x \in P : WS[x] \in Int /\ W[x] \in Int
    <3>1. \A u, v \in Int : u * v \in Int
      OBVIOUS
    <3> HIDE DEF W, WS, S
    <3> QED BY <2>3, <3>1
  <2> HIDE DEF P, W, WS, S
  <2>5. SumOver(W, P) \in Nat /\ SumOver(WS, P) \in Int /\ SumOver(S, P) \in Int
    BY <1>1, <2>3, <2>4, SumIsNat, SumIsInt
  <2>6. Cardinality(P) \in Nat \ {0}
    BY <1>1, <1>3, FS_CardinalityType, FS_EmptySet
  <2>7. a \in Int /\ b \in Nat \ {0}
    BY <2>2, <2>5, <2>6
  <2>8. ASSUME NEW c \in Int, \A x \in P : c <= f[x].score PROVE c * b <= a
    <3>1. CASE Total(W) > 0
      <4>1. \A x \in P : c * W[x] <= WS[x]
        <5>1. \A u \in Nat, v \in Int : c <= v => c * u <= u * v
          BY WeightsKeepOrder
        <5> QED BY <2>3, <2>8, <5>1
      <4>2. c * SumOver(W, P) <= SumOver(WS, P)
        BY <1>1, <2>4, <4>1, SumsInProportion
      <4> QED BY <2>2, <3>1, <4>2
    <3>2. CASE ~(Total(W) > 0)
      <4>1. c * Cardinality(P) <= SumOver(S, P)
        BY <1>1, <2>3, <2>8, SumsOfMany
      <4> QED BY <2>2, <3>2, <4>1
    <3> QED BY <3>1, <3>2
  <2>9. ASSUME NEW c \in Int, \A x \in P : f[x].score <= c PROVE a <= c * b
    <3>1. CASE Total(W) > 0
      <4>1. \A x \in P : WS[x] <= c * W[x]
        <5>1. \A u \in Nat, v \in Int : v <= c => u * v <= c * u
          BY WeightsKeepOrder
        <5> QED BY <2>3, <2>9, <5>1
      <4>2. SumOver(WS, P) <= c * SumOver(W, P)
        BY <1>1, <2>4, <4>1, SumsInProportion
      <4> QED BY <2>2, <3>1, <4>2
    <3>2. CASE ~(Total(W) > 0)
      <4>1. SumOver(S, P) <= c * Cardinality(P)
        BY <1>1, <2>3, <2>9, SumsOfMany
      <4> QED BY <2>2, <3>2, <4>1
    <3> QED BY <3>1, <3>2
  <2> HIDE DEF a, b
  <2>10. /\ Rounded(a, b) \in Int
         /\ \A c \in Int : (c * b <= a => c <= Rounded(a, b)) /\ (a <= c * b => Rounded(a, b) <= c)
    BY <2>7, RoundedStaysWithin
  <2> QED BY <1>3, <2>1, <2>8, <2>9, <2>10 DEF P
<1> QED BY <1>2, <1>3

-----------------------------------------------------------------------------
(* Types. *)

SummaryRow == [score : Int \cup {NoData}, weight : (0 .. 100) \cup {NoData}, final : BOOLEAN]

\* The types of the tables, those included that the type invariant leaves open.
PageTypes ==
  /\ StandingsTypeOK
  /\ share \in [Teams -> (0 .. 100) \cup {NoData}]
  /\ DOMAIN result \subseteq Seasons \X Goals
  /\ \A k \in DOMAIN result : result[k] \in Int
  /\ DOMAIN summary \subseteq Seasons \X Teams
  /\ \A k \in DOMAIN summary : summary[k] \in SummaryRow

\* Tasks score a whole number of hundredths, and no tasks score nothing.
LEMMA ScoreIsNumber == \A c \in Tally : ScoreFromCounts(c) \in Int \cup {NoData}
<1> SUFFICES ASSUME NEW c \in Tally PROVE ScoreFromCounts(c) \in Int \cup {NoData}
  OBVIOUS
<1>1. CASE c = NoTasks
  BY <1>1 DEF ScoreFromCounts
<1>2. CASE c # NoTasks
  <2>1. c = [on |-> c.on, late |-> c.late, missed |-> c.missed]
        /\ c.on \in Nat /\ c.late \in Nat /\ c.missed \in Nat
    BY DEF Tally
  <2>2. ~(c.on = 0 /\ c.late = 0 /\ c.missed = 0)
    BY <1>2, <2>1 DEF NoTasks
  <2>3. TasksIn(c) \in Nat \ {0} /\ 10000 * c.on + 5000 * c.late \in Int
    BY <2>1, <2>2 DEF TasksIn
  <2>4. Rounded(10000 * c.on + 5000 * c.late, TasksIn(c)) \in Int
    <3>1. 0 \in Int
      OBVIOUS
    <3> QED BY <2>3, <3>1, RoundedStaysWithin
  <2> QED BY <1>2, <2>4 DEF ScoreFromCounts
<1> QED BY <1>1, <1>2

\* A person's rows can be averaged.
LEMMA RowsAreAveraged ==
  ASSUME PageTypes, NEW m, NEW q, NEW gs \in SUBSET Goals
  PROVE  /\ DOMAIN RowsOf(m, q, gs) = {g \in gs : <<q, m, g>> \in DOMAIN saved}
         /\ Averaged(RowsOf(m, q, gs))
         /\ WeightedAverage(RowsOf(m, q, gs)) \in Int \cup {NoData}
<1> DEFINE D == {g \in gs : <<q, m, g>> \in DOMAIN saved}
           f == RowsOf(m, q, gs)
<1>1. DOMAIN f = D /\ \A g \in D : f[g].weight = saved[<<q, m, g>>].weight
                                  /\ f[g].score = ScoreFromCounts(saved[<<q, m, g>>].tally)
  BY DEF RowsOf
<1>2. IsFiniteSet(D)
  <2>1. D \in SUBSET Goals
    OBVIOUS
  <2> QED BY <2>1, FS_Subset, StandingsAssumption
<1>3. \A g \in D : saved[<<q, m, g>>].tally \in Tally /\ saved[<<q, m, g>>].weight \in 0 .. 100
  BY DEF PageTypes, StandingsTypeOK
<1> HIDE DEF D, f
<1>4. Averaged(f)
  <2>1. ASSUME NEW g \in D PROVE f[g].score \in Int \cup {NoData} /\ f[g].weight \in Nat
    <3>1. saved[<<q, m, g>>].tally \in Tally /\ saved[<<q, m, g>>].weight \in Nat
      BY <1>3
    <3>2. ScoreFromCounts(saved[<<q, m, g>>].tally) \in Int \cup {NoData}
      BY <3>1, ScoreIsNumber
    <3> QED BY <1>1, <3>1, <3>2
  <2> QED BY <1>1, <1>2, <2>1 DEF Averaged, Weighed
<1>5. WeightedAverage(f) \in Int \cup {NoData}
  BY <1>4, AverageIsBetween
<1> QED BY <1>1, <1>4, <1>5 DEF D, f

\* An average, if there is one, lies between two of the scores.
LEMMA AverageHasBounds ==
  ASSUME NEW f, Averaged(f), WeightedAverage(f) # NoData
  PROVE  \E x, y \in Weighed(f) : f[x].score <= WeightedAverage(f) /\ WeightedAverage(f) <= f[y].score
<1> DEFINE P == Weighed(f)
           S == {f[x].score : x \in P}
<1>1. P # {}
  BY AverageIsBetween
<1>2. S \subseteq Int /\ S # {}
  BY <1>1 DEF Averaged, Weighed
<1>3. IsFiniteSet(S)
  <2>1. IsFiniteSet(P)
    <3>1. P \in SUBSET DOMAIN f
      BY DEF Weighed
    <3> QED BY <3>1, FS_Subset DEF Averaged
  <2> DEFINE h == [x \in P |-> f[x].score]
  <2>2. h \in Surjection(P, S)
    BY DEF Surjection
  <2> HIDE DEF h, P, S
  <2> QED BY <2>1, <2>2, FS_Surjection
<1>4. PICK lo \in S : \A y \in S : lo <= y
  <2> HIDE DEF S
  <2> QED BY ONLY <1>2, <1>3, FiniteHasEnds
<1>5. PICK hi \in S : \A y \in S : y <= hi
  <2> HIDE DEF S
  <2> QED BY ONLY <1>2, <1>3, FiniteHasEnds
<1>6. lo \in Int /\ hi \in Int
  BY <1>2, <1>4, <1>5
<1>7. /\ \A x \in P : lo <= f[x].score /\ f[x].score <= hi
  BY <1>4, <1>5
<1>8. lo <= WeightedAverage(f) /\ WeightedAverage(f) <= hi
  BY <1>1, <1>6, <1>7, AverageIsBetween
<1> QED BY <1>4, <1>5, <1>8

\* The company's headline lies between two of its departments' results.
LEMMA HeadlineIsBetween ==
  ASSUME PageTypes, NEW q, Headline(q) # NoData
  PROVE  \E t, u \in Teams :
           /\ <<q, t>> \in DOMAIN summary /\ <<q, u>> \in DOMAIN summary
           /\ summary[<<q, t>>].score # NoData /\ summary[<<q, t>>].score <= Headline(q)
           /\ summary[<<q, u>>].score # NoData /\ Headline(q) <= summary[<<q, u>>].score
<1> DEFINE D == {u \in Teams : <<q, u>> \in DOMAIN summary}
           f == [t \in D |-> summary[<<q, t>>]]
           wr == {t \in DOMAIN f : f[t].score # NoData}
           sh == {t \in wr : f[t].weight # NoData}
           g1 == [t \in sh |-> f[t]]
           g2 == [t \in wr |-> [score |-> f[t].score, weight |-> 1]]
<1>1. Headline(q) = IF sh # {} THEN WeightedAverage(g1) ELSE WeightedAverage(g2)
  BY DEF Headline, CompanyHeadline
<1>2. \A t \in D : summary[<<q, t>>] \in SummaryRow
  BY DEF PageTypes
<1>3. DOMAIN f = D /\ \A t \in D : f[t] \in SummaryRow /\ f[t] = summary[<<q, t>>]
  BY <1>2
<1>4. IsFiniteSet(wr) /\ IsFiniteSet(sh)
  <2>1. wr \in SUBSET Teams /\ sh \in SUBSET Teams
    BY <1>3
  <2> QED BY <2>1, FS_Subset, StandingsAssumption
<1> HIDE DEF f
<1>5. /\ \A t \in wr : t \in D /\ summary[<<q, t>>].score \in Int /\ f[t].score = summary[<<q, t>>].score /\ f[t].score # NoData
      /\ \A t \in sh : t \in wr /\ f[t].weight \in Nat /\ f[t].weight # NoData
  BY <1>3 DEF SummaryRow
<1>6. CASE sh # {}
  <2>1. DOMAIN g1 = sh /\ \A t \in sh : g1[t] = f[t]
    OBVIOUS
  <2> HIDE DEF g1, sh, wr
  <2>2. Averaged(g1) /\ Weighed(g1) \subseteq sh
    BY <1>4, <1>5, <2>1 DEF Averaged, Weighed
  <2>3. PICK x \in Weighed(g1), y \in Weighed(g1) :
          g1[x].score <= WeightedAverage(g1) /\ WeightedAverage(g1) <= g1[y].score
    BY <1>1, <1>6, <2>2, AverageHasBounds
  <2>4. /\ x \in D /\ y \in D /\ summary[<<q, x>>].score # NoData /\ summary[<<q, y>>].score # NoData
        /\ g1[x].score = summary[<<q, x>>].score /\ g1[y].score = summary[<<q, y>>].score
    BY <1>5, <2>1, <2>2, <2>3
  <2>5. WeightedAverage(g1) = Headline(q)
    BY <1>1, <1>6
  <2> QED BY <2>3, <2>4, <2>5
<1>7. CASE sh = {}
  <2>1. DOMAIN g2 = wr /\ \A t \in wr : g2[t].score = f[t].score /\ g2[t].weight = 1
    OBVIOUS
  <2> HIDE DEF g2, sh, wr
  <2>a. ASSUME NEW t \in wr PROVE g2[t].score \in Int /\ g2[t].weight \in Nat
    <3>1. f[t].score \in Int
      BY <1>5
    <3>2. g2[t].score = f[t].score /\ g2[t].weight = 1
      BY <2>1
    <3> QED BY <3>1, <3>2
  <2>2. Averaged(g2) /\ Weighed(g2) \subseteq wr
    BY <1>4, <2>1, <2>a DEF Averaged, Weighed
  <2>3. PICK x \in Weighed(g2), y \in Weighed(g2) :
          g2[x].score <= WeightedAverage(g2) /\ WeightedAverage(g2) <= g2[y].score
    BY <1>1, <1>7, <2>2, AverageHasBounds
  <2>4. /\ x \in D /\ y \in D /\ summary[<<q, x>>].score # NoData /\ summary[<<q, y>>].score # NoData
        /\ g2[x].score = summary[<<q, x>>].score /\ g2[y].score = summary[<<q, y>>].score
    BY <1>5, <2>1, <2>2, <2>3
  <2>5. WeightedAverage(g2) = Headline(q)
    BY <1>1, <1>7
  <2> QED BY <2>3, <2>4, <2>5
<1> QED BY <1>6, <1>7

-----------------------------------------------------------------------------
(* Rankings. *)

\* Everyone has a place of their own in the order: as many are ahead as the place says.
LEMMA PlacesAreTaken ==
  ASSUME NEW R, IsFiniteSet(R), NEW ahead \in [R -> SUBSET R],
         \A m \in R : m \notin ahead[m],
         \A m, n \in R : m \in ahead[n] => ahead[m] \subseteq ahead[n],
         \A m, n \in R : m # n => m \in ahead[n] \/ n \in ahead[m]
  PROVE  /\ \A i \in 1 .. Cardinality(R) : \E m \in R : Cardinality(ahead[m]) = i - 1
         /\ \A m, n \in R : Cardinality(ahead[m]) < Cardinality(ahead[n]) => m \in ahead[n]
         /\ \A m, n \in R : Cardinality(ahead[m]) = Cardinality(ahead[n]) => m = n
<1> DEFINE N == Cardinality(R)
           T == 1 .. N
           f == [m \in R |-> Cardinality(ahead[m]) + 1]
<1>1. \A m \in R : IsFiniteSet(ahead[m]) /\ Cardinality(ahead[m]) \in Nat /\ ahead[m] \subseteq R
  <2> SUFFICES ASSUME NEW m \in R
               PROVE  IsFiniteSet(ahead[m]) /\ Cardinality(ahead[m]) \in Nat /\ ahead[m] \subseteq R
    OBVIOUS
  <2>1. ahead[m] \in SUBSET R
    OBVIOUS
  <2>2. IsFiniteSet(ahead[m])
    BY ONLY IsFiniteSet(R), <2>1, FS_Subset
  <2> QED BY <2>1, <2>2, FS_CardinalityType
<1>2. N \in Nat
  BY FS_CardinalityType
<1>3. \A m, n \in R : m \in ahead[n] => Cardinality(ahead[m]) < Cardinality(ahead[n])
  <2> SUFFICES ASSUME NEW m \in R, NEW n \in R, m \in ahead[n]
               PROVE  Cardinality(ahead[m]) < Cardinality(ahead[n])
    OBVIOUS
  <2>1. ahead[m] \in SUBSET ahead[n] /\ ahead[n] # ahead[m]
    OBVIOUS
  <2>2. /\ Cardinality(ahead[m]) <= Cardinality(ahead[n])
        /\ Cardinality(ahead[n]) = Cardinality(ahead[m]) => ahead[n] = ahead[m]
    BY <1>1, <2>1, FS_Subset
  <2> QED BY <1>1, <2>1, <2>2
<1>4. \A m, n \in R : Cardinality(ahead[m]) = Cardinality(ahead[n]) => m = n
  BY <1>1, <1>3
<1>5. \A m, n \in R : Cardinality(ahead[m]) < Cardinality(ahead[n]) => m \in ahead[n]
  BY <1>1, <1>3
<1>6. \A m \in R : Cardinality(ahead[m]) + 1 \in T
  <2> SUFFICES ASSUME NEW m \in R PROVE Cardinality(ahead[m]) + 1 \in T
    OBVIOUS
  <2>1. ahead[m] \in SUBSET R /\ R # ahead[m]
    OBVIOUS
  <2>2. Cardinality(ahead[m]) <= N /\ (N = Cardinality(ahead[m]) => R = ahead[m])
    BY ONLY IsFiniteSet(R), <2>1, FS_Subset
  <2> QED BY <1>1, <1>2, <2>1, <2>2
<1>7. f \in [R -> T] /\ \A m \in R : f[m] = Cardinality(ahead[m]) + 1
  <2> HIDE DEF T
  <2> QED BY <1>6
<1> HIDE DEF f
<1>8. \A m, n \in R : f[m] = f[n] => m = n
  BY <1>1, <1>4, <1>7
<1>9. f \in Injection(R, T)
  BY <1>7, <1>8 DEF Injection, IsInjective
<1>10. IsFiniteSet(T) /\ Cardinality(T) = N
  BY <1>2, FS_Interval
<1>11. f \in Surjection(R, T)
  <2> HIDE DEF T, N
  <2>1. Cardinality(R) = Cardinality(T)
    BY <1>10 DEF N
  <2> QED BY ONLY <1>9, <1>10, <2>1, FS_Injection
<1>12. \A i \in T : \E m \in R : f[m] = i
  BY <1>11 DEF Surjection
<1>13. \A i \in T : \E m \in R : Cardinality(ahead[m]) = i - 1
  BY <1>1, <1>2, <1>7, <1>12
<1> QED BY <1>4, <1>5, <1>13

\* Whoever comes just before in a list.
Previous(n) == [i \in 1 .. n |-> IF i = 1 THEN {} ELSE {i - 1}]

\* In a descending list of scores a rank counts those who scored more.
LEMMA RanksCountTheBetter ==
  ASSUME NEW n \in Nat, NEW s \in [1 .. n -> Int],
         \A i, j \in 1 .. n : i < j => s[j] <= s[i]
  PROVE  \A i \in 1 .. n : RaceRanks(s)[i] = 1 + Cardinality({j \in 1 .. n : s[j] > s[i]})
<1> DEFINE I == 1 .. n
           Step(g) == [i \in I |-> IF i > 1 /\ s[i] = s[i - 1] THEN g[i - 1] ELSE i]
           Ranks(g) == g = Step(g)
<1>1. RaceRanks(s) = CHOOSE g : Ranks(g)
  <2>1. DOMAIN s = I
    OBVIOUS
  <2> QED BY <2>1 DEF RaceRanks
<1>2. \E g \in [I -> Nat] : Ranks(g)
  <2> DEFINE G == [g \in [I -> Nat] |-> Step(g)]
  <2>1. \A i \in I : i > 1 => i - 1 \in I /\ i # 1
    OBVIOUS
  <2>2. G \in [[I -> Nat] -> [I -> Nat]]
    BY <2>1
  <2>3. ASSUME NEW g \in [I -> Nat], NEW h \in [I -> Nat], NEW i \in I,
               \A j \in Previous(n)[i] : g[j] = h[j]
        PROVE  G[g][i] = G[h][i]
    BY <2>1, <2>3 DEF Previous
  <2>4. Acyclic(I, Previous(n))
    <3>1. IsFiniteSet(I)
      BY FS_Interval
    <3>2. Previous(n) \in [I -> SUBSET I]
      BY DEF Previous
    <3>3. ASSUME NEW S \in SUBSET I, S # {} PROVE \E i \in S : Previous(n)[i] \cap S = {}
      <4>1. S \in SUBSET (0 .. n)
        OBVIOUS
      <4>2. PICK i \in S : \A y \in S : i <= y
        BY ONLY n \in Nat, <3>3, <4>1, LeastIsOne
      <4>3. Previous(n)[i] \cap S = {}
        BY <4>2 DEF Previous
      <4> QED BY <4>3
    <3> QED BY <3>1, <3>2, <3>3 DEF Acyclic
  <2> HIDE DEF G, I
  <2>5. Recurs(I, Nat, Previous(n), G)
    BY <2>2, <2>3 DEF Recurs
  <2>6. Nat # {}
    OBVIOUS
  <2>7. \E g \in [I -> Nat] : g = G[g]
    BY ONLY <2>4, <2>5, <2>6, RecursiveFunction
  <2> QED BY <2>7 DEF G
<1> HIDE DEF Ranks
<1>3. Ranks(CHOOSE g : Ranks(g))
  BY <1>2
<1> DEFINE rank == RaceRanks(s)
<1>4. rank = Step(rank)
  BY <1>1, <1>3 DEF Ranks
<1> HIDE DEF rank
<1>5. \A i \in I : rank[i] = IF i > 1 /\ s[i] = s[i - 1] THEN rank[i - 1] ELSE i
  BY <1>4
<1> DEFINE Right(i) == /\ rank[i] \in 1 .. i /\ s[rank[i]] = s[i]
                       /\ rank[i] > 1 => s[rank[i] - 1] > s[i]
           P == {k \in 0 .. n : k = 0 \/ Right(k)}
<1>6. \A k \in 0 .. n : k \in P
  <2>1. 0 \in P
    OBVIOUS
  <2>2. ASSUME NEW k \in 0 .. (n - 1), k \in P PROVE k + 1 \in P
    <3>1. k + 1 \in I /\ k + 1 \in 0 .. n /\ (k + 1) - 1 = k /\ k \in Nat
      OBVIOUS
    <3>2. CASE k = 0
      <4>1. rank[k + 1] = 1
        BY <1>5, <3>1, <3>2
      <4> QED BY <3>1, <3>2, <4>1
    <3>3. CASE k # 0 /\ s[k + 1] = s[k]
      <4>1. rank[k + 1] = rank[k]
        BY <1>5, <3>1, <3>3
      <4>2. Right(k)
        BY <2>2, <3>3
      <4> QED BY <3>1, <3>3, <4>1, <4>2
    <3>4. CASE k # 0 /\ s[k + 1] # s[k]
      <4>1. rank[k + 1] = k + 1
        BY <1>5, <3>1, <3>4
      <4>2. s[k + 1] < s[k]
        <5>1. k \in I /\ k < k + 1
          BY <3>1, <3>4
        <5>2. s[k + 1] <= s[k] /\ s[k] \in Int /\ s[k + 1] \in Int
          BY <3>1, <5>1
        <5> QED BY <3>4, <5>2
      <4> QED BY <3>1, <4>1, <4>2
    <3> QED BY <3>2, <3>3, <3>4
  <2> HIDE DEF P
  <2> QED BY <2>1, <2>2, UpToThere
<1>7. ASSUME NEW i \in I PROVE rank[i] = 1 + Cardinality({j \in I : s[j] > s[i]})
  <2>1. Right(i)
    BY <1>6
  <2>2. {j \in I : s[j] > s[i]} = 1 .. (rank[i] - 1)
    <3>1. ASSUME NEW j \in I, s[j] > s[i] PROVE j <= rank[i] - 1
      <4>1. ~(rank[i] < j) /\ j # rank[i]
        <5>1. rank[i] \in I /\ s[rank[i]] = s[i]
          BY <2>1
        <5> QED BY <3>1, <5>1
      <4> QED BY <2>1, <4>1
    <3>2. ASSUME NEW j \in I, j <= rank[i] - 1 PROVE s[j] > s[i]
      <4>1. rank[i] > 1 /\ rank[i] - 1 \in I
        BY <2>1, <3>2
      <4>2. s[rank[i] - 1] > s[i]
        BY <2>1, <4>1
      <4>3. s[rank[i] - 1] <= s[j]
        BY <3>2, <4>1
      <4> QED BY <4>1, <4>2, <4>3
    <3>3. 1 .. (rank[i] - 1) \subseteq I
      BY <2>1
    <3>4. \A j \in 1 .. (rank[i] - 1) : j \in I /\ j <= rank[i] - 1
      BY <2>1, <3>3
    <3>5. \A j \in I : j <= rank[i] - 1 => j \in 1 .. (rank[i] - 1)
      BY <2>1
    <3> HIDE DEF I
    <3> QED BY <3>1, <3>2, <3>4, <3>5
  <2>3. Cardinality(1 .. (rank[i] - 1)) = rank[i] - 1
    <3>1. rank[i] - 1 \in Nat
      BY <2>1
    <3> DEFINE r == rank[i] - 1
    <3> HIDE DEF r
    <3>2. r \in Int /\ 1 \in Int
      BY <3>1 DEF r
    <3>3. Cardinality(1 .. r) = IF 1 > r THEN 0 ELSE r - 1 + 1
      BY ONLY <3>2, FS_Interval
    <3> QED BY <3>1, <3>3 DEF r
  <2>4. Cardinality({j \in I : s[j] > s[i]}) = rank[i] - 1
    BY ONLY <2>2, <2>3
  <2>5. rank[i] \in Int
    BY <2>1
  <2> HIDE DEF I
  <2> QED BY <2>4, <2>5
<1> QED BY <1>7 DEF rank

\* What someone scores where they work today.
ScoreHere(m, q) == OverallIn(place[m], m, q)

\* Everyone on a list has a score.
LEMMA ScoredHaveScores ==
  ASSUME PageTypes, NEW ts \in SUBSET Teams, NEW q
  PROVE  /\ Scored(ts, q) \subseteq Members /\ IsFiniteSet(Scored(ts, q))
         /\ \A m \in Scored(ts, q) : ScoreHere(m, q) \in Int
<1>1. Scored(ts, q) \in SUBSET Members
  BY DEF Scored, PeopleOf
<1>2. IsFiniteSet(Scored(ts, q))
  <2>1. IsFiniteSet(Members)
    BY StandingsAssumption
  <2> QED BY ONLY <1>1, <2>1, FS_Subset
<1>3. ASSUME NEW m \in Scored(ts, q) PROVE ScoreHere(m, q) \in Int
  <2>1. GoalsFor(place[m], q) \in SUBSET Goals
    BY DEF GoalsFor, LiveGoals
  <2>2. ScoreHere(m, q) \in Int \cup {NoData}
    BY <2>1, RowsAreAveraged DEF ScoreHere, OverallIn
  <2>3. ScoreHere(m, q) # NoData
    BY DEF Scored, ScoreHere
  <2> QED BY <2>2, <2>3
<1> QED BY <1>1, <1>2, <1>3

\* The list holds everyone who has a score once, best first.
LEMMA BestComeFirst ==
  ASSUME PageTypes, NEW ts \in SUBSET Teams, NEW q
  PROVE  LET n == Cardinality(Scored(ts, q))
             o == BestFirst(ts, q)
         IN  /\ n \in Nat /\ o \in [1 .. n -> Scored(ts, q)]
             /\ \A i, j \in 1 .. n : o[i] = o[j] => i = j
             /\ \A i, j \in 1 .. n : i < j => ScoreHere(o[j], q) <= ScoreHere(o[i], q)
<1> DEFINE R == Scored(ts, q)
           n == Cardinality(R)
           o == BestFirst(ts, q)
           ahead == [m \in R |-> Ahead(m, ts, q)]
<1>1. R \subseteq Int /\ IsFiniteSet(R) /\ n \in Nat /\ \A m \in R : ScoreHere(m, q) \in Int
  <2>1. R \subseteq Members /\ IsFiniteSet(R) /\ \A m \in R : ScoreHere(m, q) \in Int
    BY ScoredHaveScores
  <2>2. Members \subseteq Int
    BY StandingsAssumption
  <2> HIDE DEF R
  <2>3. n \in Nat
    BY ONLY <2>1, FS_CardinalityType
  <2> QED BY <2>1, <2>2, <2>3
<1>2. \A m \in R : ahead[m] =
        {k \in R : \/ ScoreHere(k, q) > ScoreHere(m, q)
                   \/ ScoreHere(k, q) = ScoreHere(m, q) /\ k < m}
  BY DEF Ahead, ScoreHere
<1>3. \A m \in R : ahead[m] = Ahead(m, ts, q) /\ ahead[m] \subseteq R
  BY DEF Ahead
<1>4. ahead \in [R -> SUBSET R]
  <2> HIDE DEF R
  <2> QED BY <1>3
<1> HIDE DEF R, ahead
<1>5. \A m \in R : m \notin ahead[m]
  BY <1>1, <1>2
<1>6. \A m, k \in R : m \in ahead[k] => ahead[m] \subseteq ahead[k]
  <2> SUFFICES ASSUME NEW m \in R, NEW k \in R, m \in ahead[k], NEW l \in ahead[m] PROVE l \in ahead[k]
    OBVIOUS
  <2>1. l \in R
    BY <1>2
  <2>2. /\ l \in Int /\ m \in Int /\ k \in Int
        /\ ScoreHere(l, q) \in Int /\ ScoreHere(m, q) \in Int /\ ScoreHere(k, q) \in Int
    BY <1>1, <2>1
  <2>3. ScoreHere(l, q) > ScoreHere(m, q) \/ (ScoreHere(l, q) = ScoreHere(m, q) /\ l < m)
    BY <1>2
  <2>4. ScoreHere(m, q) > ScoreHere(k, q) \/ (ScoreHere(m, q) = ScoreHere(k, q) /\ m < k)
    BY <1>2
  <2>5. ScoreHere(l, q) > ScoreHere(k, q) \/ (ScoreHere(l, q) = ScoreHere(k, q) /\ l < k)
    BY <2>2, <2>3, <2>4
  <2> QED BY <1>2, <2>1, <2>5
<1>7. \A m, k \in R : m # k => m \in ahead[k] \/ k \in ahead[m]
  <2> SUFFICES ASSUME NEW m \in R, NEW k \in R, m # k PROVE m \in ahead[k] \/ k \in ahead[m]
    OBVIOUS
  <2>1. m \in Int /\ k \in Int /\ ScoreHere(m, q) \in Int /\ ScoreHere(k, q) \in Int
    BY <1>1
  <2> QED BY <1>2, <2>1
<1>8. /\ \A i \in 1 .. n : \E m \in R : Cardinality(ahead[m]) = i - 1
      /\ \A m, k \in R : Cardinality(ahead[m]) < Cardinality(ahead[k]) => m \in ahead[k]
  BY ONLY <1>1, <1>4, <1>5, <1>6, <1>7, PlacesAreTaken DEF n
<1>9. ASSUME NEW i \in 1 .. n PROVE o[i] \in R /\ Cardinality(ahead[o[i]]) = i - 1
  <2>1. o[i] = CHOOSE m \in R : Cardinality(Ahead(m, ts, q)) = i - 1
    BY DEF BestFirst, R
  <2>2. \E m \in R : Cardinality(Ahead(m, ts, q)) = i - 1
    BY <1>3, <1>8
  <2>3. o[i] \in R /\ Cardinality(Ahead(o[i], ts, q)) = i - 1
    BY <2>1, <2>2
  <2> QED BY <1>3, <2>3
<1>10. DOMAIN o = 1 .. n /\ o \in [1 .. n -> R]
  <2>1. o = [i \in 1 .. n |-> o[i]]
    BY DEF BestFirst, R
  <2> HIDE DEF n, o
  <2> QED BY <1>9, <2>1
<1> HIDE DEF o, n
<1>11. \A i, j \in 1 .. n : o[i] = o[j] => i = j
  <2> SUFFICES ASSUME NEW i \in 1 .. n, NEW j \in 1 .. n, o[i] = o[j] PROVE i = j
    OBVIOUS
  <2>1. i - 1 = j - 1
    BY <1>9
  <2> QED BY <1>1, <2>1
<1>12. ASSUME NEW i \in 1 .. n, NEW j \in 1 .. n, i < j PROVE ScoreHere(o[j], q) <= ScoreHere(o[i], q)
  <2>1. o[i] \in R /\ o[j] \in R /\ Cardinality(ahead[o[i]]) = i - 1 /\ Cardinality(ahead[o[j]]) = j - 1
    BY <1>9
  <2>2. i - 1 < j - 1
    BY <1>1, <1>12
  <2>3. Cardinality(ahead[o[i]]) < Cardinality(ahead[o[j]])
    BY <2>1, <2>2
  <2>4. o[i] \in ahead[o[j]]
    BY <1>8, <2>1, <2>3
  <2>5. ScoreHere(o[i], q) \in Int /\ ScoreHere(o[j], q) \in Int
    BY <1>1, <2>1
  <2>6. ScoreHere(o[i], q) > ScoreHere(o[j], q) \/ ScoreHere(o[i], q) = ScoreHere(o[j], q)
    BY <1>2, <2>1, <2>4
  <2> QED BY <2>5, <2>6
<1> QED BY <1>1, <1>10, <1>11, <1>12 DEF R, n, o

\* Who scores nothing outside the KPIs of their department scores there what the card says.
LEMMA CardsWithoutStrays ==
  ASSUME PageTypes, NEW m \in Members, NEW q, Strays(m, q) = {}
  PROVE  Card(m, q).overall = ScoreHere(m, q)
<1>1. {g \in LiveGoals : <<q, m, g>> \in DOMAIN saved}
        = {g \in GoalsFor(place[m], q) : <<q, m, g>> \in DOMAIN saved}
  BY DEF Strays, GoalsFor
<1>2. RowsOf(m, q, LiveGoals) = RowsOf(m, q, GoalsFor(place[m], q))
  BY <1>1 DEF RowsOf
<1> QED BY <1>2 DEF Card, ScoreHere, OverallIn

\* A ranking matches the cards.
LEMMA RankingsMatch ==
  ASSUME PageTypes, NEW v \in Members \cup Overseers, NEW q
  PROVE  RankingMatchesCards(v, q)
<1> DEFINE ts == IF v \in Overseers THEN Teams ELSE TeamsSeen(v)
           R == Scored(ts, q)
           n == Cardinality(R)
           o == BestFirst(ts, q)
           s == [i \in DOMAIN o |-> ScoreHere(o[i], q)]
           ranking == Leaderboard(v, q)
<1>1. ts \in SUBSET Teams
  BY StandingsAssumption DEF TeamsSeen, PageTypes, StandingsTypeOK
<1> HIDE DEF ts
<1>2. /\ n \in Nat /\ o \in [1 .. n -> R]
      /\ \A i, j \in 1 .. n : o[i] = o[j] => i = j
      /\ \A i, j \in 1 .. n : i < j => ScoreHere(o[j], q) <= ScoreHere(o[i], q)
  BY <1>1, BestComeFirst
<1>3. R \subseteq Members /\ \A m \in R : ScoreHere(m, q) \in Int
  BY <1>1, ScoredHaveScores
<1>4. ranking = [i \in DOMAIN o |-> [who |-> o[i], overall |-> s[i], rank |-> RaceRanks(s)[i]]]
  BY DEF Leaderboard, RankedPeople, ScoreHere, ts
<1> HIDE DEF o, R, n
<1>5. DOMAIN o = 1 .. n /\ s \in [1 .. n -> Int] /\ \A i \in 1 .. n : s[i] = ScoreHere(o[i], q) /\ o[i] \in R
  BY <1>2, <1>3
<1> HIDE DEF s
<1>6. \A i \in 1 .. n : RaceRanks(s)[i] = 1 + Cardinality({j \in 1 .. n : s[j] > s[i]})
  <2>1. \A i, j \in 1 .. n : i < j => s[j] <= s[i]
    BY <1>2, <1>5
  <2>2. n \in Nat /\ s \in [1 .. n -> Int]
    BY <1>2, <1>5
  <2> QED BY ONLY <2>1, <2>2, RanksCountTheBetter
<1>7. /\ DOMAIN ranking = 1 .. n
      /\ \A i \in 1 .. n : ranking[i].who = o[i] /\ ranking[i].overall = s[i] /\ ranking[i].rank = RaceRanks(s)[i]
  BY <1>4, <1>5
<1> HIDE DEF ranking
<1>8. ASSUME CanSeeRankedList(v), NEW i \in DOMAIN ranking
      PROVE  /\ CanSeePerson(v, ranking[i].who)
             /\ Strays(ranking[i].who, q) = {} => Card(ranking[i].who, q).overall = ranking[i].overall
             /\ ranking[i].rank = 1 + Cardinality({j \in DOMAIN ranking : ranking[j].overall > ranking[i].overall})
             /\ \A j \in DOMAIN ranking : ranking[j].who = ranking[i].who => j = i
  <2>1. i \in 1 .. n /\ ranking[i].who = o[i] /\ o[i] \in R
    BY <1>5, <1>7
  <2>2. CanSeePerson(v, o[i])
    <3>1. \E t \in ts : place[o[i]] = t
      BY <2>1 DEF R, Scored, PeopleOf
    <3> QED BY <3>1 DEF CanSeePerson, ts
  <2>3. Strays(o[i], q) = {} => Card(o[i], q).overall = s[i]
    BY <1>3, <1>5, <2>1, CardsWithoutStrays
  <2>4. {j \in DOMAIN ranking : ranking[j].overall > ranking[i].overall} = {j \in 1 .. n : s[j] > s[i]}
    BY <1>7, <2>1
  <2>5. ranking[i].rank = 1 + Cardinality({j \in DOMAIN ranking : ranking[j].overall > ranking[i].overall})
    BY <1>6, <1>7, <2>1, <2>4
  <2>6. \A j \in DOMAIN ranking : ranking[j].who = ranking[i].who => j = i
    BY <1>2, <1>7, <2>1
  <2> QED BY <1>7, <2>1, <2>2, <2>3, <2>5, <2>6
<1> QED BY <1>8 DEF RankingMatchesCards, ranking

\* Whoever is listed as improved has improved, and nobody who improved more is left out.
LEMMA ListedHaveImproved ==
  ASSUME PageTypes, NEW q, NEW m \in MostImproved(q)
  PROVE  /\ Card(m, q).overall > Card(m, q - 1).overall
         /\ \A n \in Improvers(q) : Gain(n, q) > Gain(m, q) => n \in MostImproved(q)
<1>1. /\ \A p : Candidate(p, q).to = Card(p, q).overall
      /\ \A p : Candidate(p, q).from = Card(p, q - 1).overall
  BY DEF Candidate, Card
<1>2. LiveGoals \in SUBSET Goals
  BY DEF LiveGoals
<1>3. \A p \in Improvers(q) : Candidate(p, q).to \in Int /\ Candidate(p, q).from \in Int /\ Gain(p, q) \in Int
  <2> SUFFICES ASSUME NEW p \in Improvers(q)
               PROVE  Candidate(p, q).to \in Int /\ Candidate(p, q).from \in Int /\ Gain(p, q) \in Int
    OBVIOUS
  <2>1. Candidate(p, q).to \in Int \cup {NoData} /\ Candidate(p, q).from \in Int \cup {NoData}
    <3>1. WeightedAverage(RowsOf(p, q, LiveGoals)) \in Int \cup {NoData}
      BY <1>2, RowsAreAveraged
    <3>2. WeightedAverage(RowsOf(p, q - 1, LiveGoals)) \in Int \cup {NoData}
      BY <1>2, RowsAreAveraged
    <3> QED BY <3>1, <3>2 DEF Candidate
  <2>2. Candidate(p, q).to # NoData /\ Candidate(p, q).from # NoData
    BY DEF Improvers, Qualifies
  <2> QED BY <2>1, <2>2 DEF Gain
<1>4. Card(m, q).overall > Card(m, q - 1).overall
  BY <1>1 DEF MostImproved, Improvers, Qualifies
<1>5. ASSUME NEW n \in Improvers(q), Gain(n, q) > Gain(m, q) PROVE n \in MostImproved(q)
  <2>1. m \in Improvers(q) /\ Cardinality(ImprovedMore(m, q)) < HowManyListed
    BY DEF MostImproved
  <2>2. ImprovedMore(n, q) \in SUBSET ImprovedMore(m, q)
    <3> SUFFICES ASSUME NEW p \in ImprovedMore(n, q) PROVE p \in ImprovedMore(m, q)
      OBVIOUS
    <3>1. p \in Improvers(q) /\ (Gain(p, q) > Gain(n, q) \/ Gain(p, q) = Gain(n, q))
      BY DEF ImprovedMore
    <3>2. Gain(p, q) \in Int /\ Gain(n, q) \in Int /\ Gain(m, q) \in Int
      BY <1>3, <2>1, <3>1
    <3>3. Gain(p, q) > Gain(m, q)
      BY <1>5, <3>1, <3>2
    <3> QED BY <3>1, <3>3 DEF ImprovedMore
  <2>3. IsFiniteSet(ImprovedMore(m, q))
    <3>1. ImprovedMore(m, q) \in SUBSET Members /\ IsFiniteSet(Members)
      BY StandingsAssumption DEF ImprovedMore, Improvers
    <3> QED BY ONLY <3>1, FS_Subset
  <2>4. /\ IsFiniteSet(ImprovedMore(n, q))
        /\ Cardinality(ImprovedMore(n, q)) <= Cardinality(ImprovedMore(m, q))
    BY ONLY <2>2, <2>3, FS_Subset
  <2>5. Cardinality(ImprovedMore(n, q)) \in Nat /\ Cardinality(ImprovedMore(m, q)) \in Nat
    BY ONLY <2>3, <2>4, FS_CardinalityType
  <2>6. HowManyListed \in Nat
    BY StandingsAssumption
  <2>7. Cardinality(ImprovedMore(n, q)) < HowManyListed
    BY ONLY <2>1, <2>4, <2>5, <2>6
  <2> QED BY <2>7 DEF MostImproved
<1> QED BY <1>4, <1>5

-----------------------------------------------------------------------------
(* The invariant. *)

\* Tasks and rows are of KPIs that were made at some time.
RowsHaveGoals ==
  /\ \A k \in DOMAIN counts : goal[k[3]] # NoData
  /\ \A k \in DOMAIN saved : goal[k[3]] # NoData

\* A night saves all departments, and rows only with them.
NightsSaveAll ==
  /\ \A k \in DOMAIN summary : \A t \in Teams : <<k[1], t>> \in DOMAIN summary
  /\ \A k \in DOMAIN saved : \A t \in Teams : <<k[1], t>> \in DOMAIN summary

\* Everything of the first quarter is final, or nothing, and nothing of the second.
FinalTogether ==
  /\ \A k \in DOMAIN summary : summary[k].final <=> (k[1] = 1 /\ PeriodIsFrozen(1))
  /\ \A k \in DOMAIN saved : saved[k].final <=> (k[1] = 1 /\ PeriodIsFrozen(1))

\* A quarter is closed after its end, and what is published was closed.
ClosedIsPast ==
  /\ PeriodIsFrozen(1) => quarter = 2
  /\ published # NoData => PeriodIsFrozen(1)

\* None of the KPIs that m's card showed at the close was deleted.
GoalsRemain(m) == \A g \in published.goals : <<1, m, g>> \in DOMAIN saved => g \in LiveGoals

\* What was published reads the same; a line does where its person worked at the close.
PublishedStands ==
  published # NoData =>
    /\ Headline(1) = published.headline
    /\ \A k \in DOMAIN saved : k[1] = 1 /\ k[3] \in LiveGoals => k[3] \in published.goals
    /\ \A m \in Members : GoalsRemain(m) =>
         Card(m, 1) = published.cards[m] /\ OverallIn(published.place[m], m, 1) = published.lines[m]

PagesInvariant ==
  /\ PageTypes /\ RowsHaveGoals /\ NightsSaveAll
  /\ FinalTogether /\ ClosedIsPast /\ PublishedStands

SavedRow == [tally : Tally, weight : 0 .. 100, final : BOOLEAN]

\* What is in the tables, row by row.
LEMMA TypesOfRows ==
  ASSUME PageTypes
  PROVE  /\ DOMAIN saved \subseteq Seasons \X Members \X Goals
         /\ \A k \in DOMAIN saved : saved[k] \in SavedRow /\ k[1] \in Seasons /\ k[2] \in Members /\ k[3] \in Goals
         /\ DOMAIN counts \subseteq Seasons \X Members \X Goals
         /\ \A k \in DOMAIN counts : counts[k] \in Tally /\ k[1] \in Seasons /\ k[3] \in Goals
         /\ DOMAIN summary \subseteq Seasons \X Teams
         /\ \A k \in DOMAIN summary : summary[k] \in SummaryRow /\ k[1] \in Seasons /\ k[2] \in Teams
         /\ quarter \in {1, 2} /\ place \in [Members -> Teams]
         /\ goal \in [Goals -> GoalRow \cup {NoData}]
BY DEF PageTypes, StandingsTypeOK, SavedRow, Seasons

\* The invariant is what the pages promise.
LEMMA PagesHold == PagesInvariant => PagesAgree
<1> SUFFICES ASSUME PagesInvariant PROVE PagesAgree
  OBVIOUS
<1>1. PageTypes /\ NightsSaveAll /\ FinalTogether /\ ClosedIsPast /\ PublishedStands
  BY DEF PagesInvariant
<1>2. ClosedQuarterReadsTheSame
  <2> SUFFICES ASSUME published # NoData, NEW m \in Members, GoalsRemain(m)
               PROVE  /\ Headline(1) = published.headline
                      /\ Card(m, 1) = published.cards[m]
                      /\ place[m] = published.place[m] => OverallIn(place[m], m, 1) = published.lines[m]
    <3>1. published # NoData => Headline(1) = published.headline
      BY <1>1 DEF PublishedStands
    <3> QED BY <3>1 DEF ClosedQuarterReadsTheSame, GoalsRemain
  <2>1. Card(m, 1) = published.cards[m] /\ OverallIn(published.place[m], m, 1) = published.lines[m]
    BY <1>1 DEF PublishedStands
  <2> QED BY <1>1, <2>1 DEF PublishedStands
<1>3. ASSUME NEW k \in DOMAIN summary
      PROVE  LET q == k[1]
                 scores == {summary[<<q, t>>].score : t \in Teams} \ {NoData} IN
             /\ \A v \in Members \cup Overseers : RankingMatchesCards(v, q)
             /\ \A m \in Members : HasRows(m, q) => (Card(m, q).final <=> PeriodIsFrozen(q))
             /\ \A t \in Teams : TeamIsFinal(t, q) <=> PeriodIsFrozen(q)
             /\ Headline(q) # NoData =>
                  (\E s \in scores : s <= Headline(q)) /\ (\E s \in scores : Headline(q) <= s)
             /\ q > 1 => \A m \in MostImproved(q) :
                  /\ Card(m, q).overall > Card(m, q - 1).overall
                  /\ \A n \in Improvers(q) : Gain(n, q) > Gain(m, q) => n \in MostImproved(q)
  <2> DEFINE q == k[1]
             scores == {summary[<<q, t>>].score : t \in Teams} \ {NoData}
  <2>1. q \in {1, 2} /\ \A t \in Teams : <<q, t>> \in DOMAIN summary
    BY <1>1, TypesOfRows DEF NightsSaveAll, Seasons
  <2> HIDE DEF q
  <2>2. \A v \in Members \cup Overseers : RankingMatchesCards(v, q)
    BY <1>1, RankingsMatch
  <2>3. \A t \in Teams : summary[<<q, t>>].final <=> (q = 1 /\ PeriodIsFrozen(1))
    <3> SUFFICES ASSUME NEW t \in Teams PROVE summary[<<q, t>>].final <=> (q = 1 /\ PeriodIsFrozen(1))
      OBVIOUS
    <3>1. <<q, t>> \in DOMAIN summary /\ <<q, t>>[1] = q
      BY <2>1
    <3> QED BY <1>1, <3>1 DEF FinalTogether
  <2>4. PICK t0 \in Teams : TRUE
    BY StandingsAssumption
  <2>5. \A t \in Teams : TeamIsFinal(t, q) <=> (q = 1 /\ PeriodIsFrozen(1))
    BY <2>1, <2>3 DEF TeamIsFinal
  <2>6. PeriodIsFrozen(q) <=> (q = 1 /\ PeriodIsFrozen(1))
    BY <2>4, <2>5 DEF PeriodIsFrozen
  <2>7. ASSUME NEW m \in Members, HasRows(m, q) PROVE Card(m, q).final <=> PeriodIsFrozen(q)
    <3>1. PICK g \in Goals : <<q, m, g>> \in DOMAIN saved
      BY <2>7 DEF HasRows
    <3>2. \A h \in Goals : <<q, m, h>> \in DOMAIN saved => (saved[<<q, m, h>>].final <=> (q = 1 /\ PeriodIsFrozen(1)))
      <4> SUFFICES ASSUME NEW h \in Goals, <<q, m, h>> \in DOMAIN saved
                   PROVE  saved[<<q, m, h>>].final <=> (q = 1 /\ PeriodIsFrozen(1))
        OBVIOUS
      <4>1. <<q, m, h>>[1] = q
        OBVIOUS
      <4> QED BY <1>1, <4>1 DEF FinalTogether
    <3>3. Card(m, q).final <=> \A h \in Goals : <<q, m, h>> \in DOMAIN saved => saved[<<q, m, h>>].final
      BY <2>7 DEF Card
    <3> QED BY <2>6, <3>1, <3>2, <3>3
  <2>8. ASSUME Headline(q) # NoData
        PROVE  (\E s \in scores : s <= Headline(q)) /\ (\E s \in scores : Headline(q) <= s)
    BY <1>1, <2>8, HeadlineIsBetween
  <2>9. \A m \in MostImproved(q) :
          /\ Card(m, q).overall > Card(m, q - 1).overall
          /\ \A n \in Improvers(q) : Gain(n, q) > Gain(m, q) => n \in MostImproved(q)
    BY <1>1, ListedHaveImproved
  <2> QED BY <2>2, <2>5, <2>6, <2>7, <2>8, <2>9 DEF q
<1>4. StandingsTypeOK
  BY <1>1 DEF PageTypes
<1> QED BY <1>2, <1>3, <1>4 DEF PagesAgree

\* It holds at the start.
LEMMA PagesBegin == StandingsInit => PagesInvariant
<1> SUFFICES ASSUME StandingsInit PROVE PagesInvariant
  OBVIOUS
<1> USE DEF StandingsInit
<1>1. DOMAIN saved = {} /\ DOMAIN summary = {} /\ DOMAIN result = {}
  OBVIOUS
<1>2. PageTypes
  <2>1. quarter \in Seasons /\ left \subseteq Members
    BY DEF Seasons
  <2>2. place \in [Members -> Teams]
    BY StandingsAssumption
  <2>3. chief \in [Teams -> Members \cup {NoData}]
    BY StandingsAssumption
  <2>4. goal \in [Goals -> GoalRow \cup {NoData}]
    <3>1. ASSUME NEW w \in GoalWeights PROVE [weight |-> w, since |-> 1, live |-> TRUE] \in GoalRow
      <4>1. w \in 0 .. 100
        BY StandingsAssumption
      <4> QED BY <4>1 DEF GoalRow, Seasons
    <3> QED BY <3>1
  <2>5. DOMAIN counts \subseteq Seasons \X Members \X Goals /\ \A k \in DOMAIN counts : counts[k] \in Tally
    BY StandingsAssumption DEF Seasons
  <2>6. share \in [Teams -> (0 .. 100) \cup {NoData}]
    OBVIOUS
  <2> QED BY <1>1, <2>1, <2>2, <2>3, <2>4, <2>5, <2>6 DEF PageTypes, StandingsTypeOK
<1>3. RowsHaveGoals /\ NightsSaveAll /\ FinalTogether
  BY <1>1 DEF RowsHaveGoals, NightsSaveAll, FinalTogether
<1>4. ClosedIsPast /\ PublishedStands
  BY <1>1 DEF ClosedIsPast, PublishedStands, PeriodIsFrozen, TeamIsFinal
<1> QED BY <1>2, <1>3, <1>4 DEF PagesInvariant

-----------------------------------------------------------------------------
(* Steps. *)

\* KPIs are never unmade: they keep when they began, and what was deleted stays so.
GoalsEvolve ==
  \A g \in Goals : goal[g] # NoData =>
    goal'[g] # NoData /\ goal'[g].since = goal[g].since /\ (goal'[g].live => goal[g].live)

\* The first quarter's rows and its departments' results stay.
FirstQuarterStands ==
  /\ \A k \in {1} \X Members \X Goals : k \in DOMAIN saved' <=> k \in DOMAIN saved
  /\ \A k \in {1} \X Members \X Goals : k \in DOMAIN saved => saved'[k] = saved[k]
  /\ \A k \in {1} \X Teams : k \in DOMAIN summary' <=> k \in DOMAIN summary
  /\ \A k \in {1} \X Teams : k \in DOMAIN summary => summary'[k] = summary[k]

\* While that is so, what was published stands.
LEMMA PublishedStays ==
  ASSUME PagesInvariant, PageTypes', GoalsEvolve, FirstQuarterStands, UNCHANGED published
  PROVE  PublishedStands'
<1> SUFFICES ASSUME published # NoData PROVE PublishedStands'
  BY DEF PublishedStands
<1>1. PageTypes /\ RowsHaveGoals /\ PublishedStands
  BY DEF PagesInvariant
<1>2. \A m \in Members, g \in Goals :
        /\ <<1, m, g>> \in DOMAIN saved' <=> <<1, m, g>> \in DOMAIN saved
        /\ <<1, m, g>> \in DOMAIN saved => saved'[<<1, m, g>>] = saved[<<1, m, g>>] /\ goal[g] # NoData
  <2> SUFFICES ASSUME NEW m \in Members, NEW g \in Goals
               PROVE  /\ <<1, m, g>> \in DOMAIN saved' <=> <<1, m, g>> \in DOMAIN saved
                      /\ <<1, m, g>> \in DOMAIN saved => saved'[<<1, m, g>>] = saved[<<1, m, g>>] /\ goal[g] # NoData
    OBVIOUS
  <2>1. <<1, m, g>> \in {1} \X Members \X Goals /\ <<1, m, g>>[3] = g
    OBVIOUS
  <2>2. <<1, m, g>> \in DOMAIN saved => goal[g] # NoData
    BY <1>1, <2>1 DEF RowsHaveGoals
  <2> QED BY <2>1, <2>2 DEF FirstQuarterStands
<1>3. \A t \in Teams : /\ <<1, t>> \in DOMAIN summary' <=> <<1, t>> \in DOMAIN summary
                       /\ <<1, t>> \in DOMAIN summary => summary'[<<1, t>>] = summary[<<1, t>>]
  <2> SUFFICES ASSUME NEW t \in Teams
               PROVE  /\ <<1, t>> \in DOMAIN summary' <=> <<1, t>> \in DOMAIN summary
                      /\ <<1, t>> \in DOMAIN summary => summary'[<<1, t>>] = summary[<<1, t>>]
    OBVIOUS
  <2>1. <<1, t>> \in {1} \X Teams
    OBVIOUS
  <2> QED BY <2>1 DEF FirstQuarterStands
<1>4. Headline(1)' = Headline(1)
  <2> DEFINE D == {t \in Teams : <<1, t>> \in DOMAIN summary}
             E == {t \in Teams : <<1, t>> \in DOMAIN summary'}
             f == [t \in D |-> summary[<<1, t>>]]
             h == [t \in E |-> summary'[<<1, t>>]]
  <2>1. D = E
    BY <1>3
  <2>2. f = h
    BY <1>3, <2>1
  <2>3. Headline(1) = CompanyHeadline(f)
    BY DEF Headline
  <2>4. Headline(1)' = CompanyHeadline(h)
    BY DEF Headline
  <2> QED BY <2>2, <2>3, <2>4
<1>5. \A m \in Members, g \in Goals :
        <<1, m, g>> \in DOMAIN saved /\ g \in LiveGoals' => g \in LiveGoals
  BY <1>2 DEF GoalsEvolve, LiveGoals
<1>6. \A k \in DOMAIN saved' : k[1] = 1 /\ k[3] \in LiveGoals' => k[3] \in published.goals
  <2> SUFFICES ASSUME NEW k \in DOMAIN saved', k[1] = 1, k[3] \in LiveGoals' PROVE k[3] \in published.goals
    OBVIOUS
  <2>1. k \in Seasons \X Members \X Goals
    BY DEF PageTypes, StandingsTypeOK
  <2>2. k = <<1, k[2], k[3]>> /\ k[2] \in Members /\ k[3] \in Goals
    BY <2>1
  <2>3. k \in DOMAIN saved
    BY <1>2, <2>2
  <2>4. k[3] \in LiveGoals
    BY <1>5, <2>2, <2>3
  <2> QED BY <1>1, <2>3, <2>4 DEF PublishedStands
<1>7. ASSUME NEW m \in Members, GoalsRemain(m)'
      PROVE  Card(m, 1)' = published.cards[m] /\ OverallIn(published.place[m], m, 1)' = published.lines[m]
  <2>1. \A g \in Goals : <<1, m, g>> \in DOMAIN saved /\ g \in LiveGoals => g \in published.goals
    <3> SUFFICES ASSUME NEW g \in Goals, <<1, m, g>> \in DOMAIN saved, g \in LiveGoals PROVE g \in published.goals
      OBVIOUS
    <3>1. <<1, m, g>>[1] = 1 /\ <<1, m, g>>[3] = g
      OBVIOUS
    <3> QED BY <1>1, <3>1 DEF PublishedStands
  <2>2. \A g \in Goals : <<1, m, g>> \in DOMAIN saved => (g \in LiveGoals' <=> g \in LiveGoals)
    <3> SUFFICES ASSUME NEW g \in Goals, <<1, m, g>> \in DOMAIN saved PROVE g \in LiveGoals' <=> g \in LiveGoals
      OBVIOUS
    <3>1. g \in LiveGoals => g \in LiveGoals'
      BY <1>2, <1>7, <2>1 DEF GoalsRemain
    <3> QED BY <1>5, <3>1
  <2>3. GoalsRemain(m)
    <3> SUFFICES ASSUME NEW g \in published.goals, <<1, m, g>> \in DOMAIN saved PROVE g \in LiveGoals
      BY DEF GoalsRemain
    <3>1. g \in Goals
      <4>1. <<1, m, g>> \in Seasons \X Members \X Goals
        BY <1>1 DEF PageTypes, StandingsTypeOK
      <4> QED BY <4>1
    <3>2. g \in LiveGoals'
      BY <1>2, <1>7, <3>1 DEF GoalsRemain
    <3> QED BY <2>2, <3>1, <3>2
  <2>4. ASSUME NEW A \in SUBSET Goals, NEW B \in SUBSET Goals,
               \A g \in Goals : <<1, m, g>> \in DOMAIN saved => (g \in A <=> g \in B)
        PROVE  [g \in {h \in B : <<1, m, h>> \in DOMAIN saved'} |->
                  [weight |-> saved'[<<1, m, g>>].weight, score |-> ScoreFromCounts(saved'[<<1, m, g>>].tally)]]
                 = RowsOf(m, 1, A)
    <3>1. {h \in B : <<1, m, h>> \in DOMAIN saved'} = {h \in A : <<1, m, h>> \in DOMAIN saved}
      BY <1>2, <2>4
    <3>2. \A g \in {h \in A : <<1, m, h>> \in DOMAIN saved} : saved'[<<1, m, g>>] = saved[<<1, m, g>>]
      BY <1>2
    <3> QED BY <3>1, <3>2 DEF RowsOf
  <2>5. RowsOf(m, 1, LiveGoals)' = RowsOf(m, 1, LiveGoals)
    <3>1. LiveGoals \in SUBSET Goals /\ LiveGoals' \in SUBSET Goals
      BY DEF LiveGoals
    <3> HIDE DEF LiveGoals
    <3>2. RowsOf(m, 1, LiveGoals)' =
            [g \in {h \in LiveGoals' : <<1, m, h>> \in DOMAIN saved'} |->
               [weight |-> saved'[<<1, m, g>>].weight, score |-> ScoreFromCounts(saved'[<<1, m, g>>].tally)]]
      BY DEF RowsOf
    <3> QED BY <2>2, <2>4, <3>1, <3>2
  <2>6. WeightedAverage(RowsOf(m, 1, LiveGoals))' = WeightedAverage(RowsOf(m, 1, LiveGoals))
    BY <2>5
  <2>7. HasRows(m, 1)' <=> HasRows(m, 1)
    BY <1>2 DEF HasRows
  <2>8. (\A g \in Goals : <<1, m, g>> \in DOMAIN saved' => saved'[<<1, m, g>>].final)
          <=> (\A g \in Goals : <<1, m, g>> \in DOMAIN saved => saved[<<1, m, g>>].final)
    BY <1>2
  <2>9. Card(m, 1)' = Card(m, 1)
    BY <2>6, <2>7, <2>8 DEF Card
  <2> DEFINE t == published.place[m]
  <2>10. \A g \in Goals : <<1, m, g>> \in DOMAIN saved => (g \in GoalsFor(t, 1)' <=> g \in GoalsFor(t, 1))
    <3> SUFFICES ASSUME NEW g \in Goals, <<1, m, g>> \in DOMAIN saved
                 PROVE  g \in GoalsFor(t, 1)' <=> g \in GoalsFor(t, 1)
      OBVIOUS
    <3>1. goal'[g].since = goal[g].since /\ (g \in LiveGoals' <=> g \in LiveGoals)
      BY <1>2, <2>2 DEF GoalsEvolve
    <3> QED BY <3>1 DEF GoalsFor
  <2>11. RowsOf(m, 1, GoalsFor(t, 1))' = RowsOf(m, 1, GoalsFor(t, 1))
    <3>1. GoalsFor(t, 1) \in SUBSET Goals /\ GoalsFor(t, 1)' \in SUBSET Goals
      BY DEF LiveGoals, GoalsFor
    <3>2. RowsOf(m, 1, GoalsFor(t, 1))' =
            [g \in {h \in GoalsFor(t, 1)' : <<1, m, h>> \in DOMAIN saved'} |->
               [weight |-> saved'[<<1, m, g>>].weight, score |-> ScoreFromCounts(saved'[<<1, m, g>>].tally)]]
      BY DEF RowsOf
    <3> QED BY <2>4, <2>10, <3>1, <3>2
  <2>12. OverallIn(t, m, 1)' = OverallIn(t, m, 1)
    BY <2>11 DEF OverallIn
  <2>13. Card(m, 1) = published.cards[m] /\ OverallIn(t, m, 1) = published.lines[m]
    BY <1>1, <2>3 DEF PublishedStands
  <2> QED BY <2>9, <2>12, <2>13
<1>8. Headline(1)' = published.headline
  BY <1>1, <1>4 DEF PublishedStands
<1> QED BY <1>6, <1>7, <1>8 DEF PublishedStands

\* Whatever leaves the saved rows alone and unmakes no KPI keeps the invariant.
LEMMA EditsKeepPages ==
  ASSUME PagesInvariant, PageTypes', GoalsEvolve, UNCHANGED <<saved, summary, published>>,
         quarter' = quarter \/ quarter' = 2, \A k \in DOMAIN counts' : goal'[k[3]] # NoData
  PROVE  PagesInvariant'
<1>1. PageTypes /\ RowsHaveGoals /\ NightsSaveAll /\ FinalTogether /\ ClosedIsPast
  BY DEF PagesInvariant
<1>2. FirstQuarterStands
  BY DEF FirstQuarterStands
<1>3. PublishedStands'
  BY <1>2, PublishedStays
<1>4. PeriodIsFrozen(1)' <=> PeriodIsFrozen(1)
  BY DEF PeriodIsFrozen, TeamIsFinal
<1>5. RowsHaveGoals'
  <2> SUFFICES ASSUME NEW k \in DOMAIN saved PROVE goal'[k[3]] # NoData
    BY DEF RowsHaveGoals
  <2>1. k[3] \in Goals /\ goal[k[3]] # NoData
    BY <1>1, TypesOfRows DEF RowsHaveGoals
  <2> QED BY <2>1 DEF GoalsEvolve
<1>6. NightsSaveAll'
  BY <1>1 DEF NightsSaveAll
<1>7. FinalTogether'
  BY <1>1, <1>4 DEF FinalTogether
<1>8. ClosedIsPast'
  BY <1>1, <1>4 DEF ClosedIsPast
<1> QED BY <1>3, <1>5, <1>6, <1>7, <1>8 DEF PagesInvariant

\* Tables that an action leaves alone keep their types.
LEMMA TypesStay ==
  ASSUME PageTypes, UNCHANGED <<saved, summary>>
  PROVE  /\ quarter' \in Seasons /\ place' \in [Members -> Teams] /\ left' \subseteq Members
            /\ chief' \in [Teams -> Members \cup {NoData}] /\ goal' \in [Goals -> GoalRow \cup {NoData}]
            /\ DOMAIN counts' \subseteq Seasons \X Members \X Goals
            /\ (\A k \in DOMAIN counts' : counts'[k] \in Tally)
            /\ share' \in [Teams -> (0 .. 100) \cup {NoData}]
            /\ DOMAIN result' \subseteq Seasons \X Goals
            /\ (\A k \in DOMAIN result' : result'[k] \in Int)
            => PageTypes'
BY DEF PageTypes, StandingsTypeOK

\* What each edit does.
LEMMA WorkKeepsPages ==
  ASSUME PagesInvariant, NEW m \in Members, NEW g \in Goals, NEW c \in Tallies, WorkGoesOn(m, g, c)
  PROVE  PagesInvariant'
<1>1. PageTypes /\ RowsHaveGoals
  BY DEF PagesInvariant
<1> DEFINE key == <<quarter, m, g>>
<1>2. /\ DOMAIN counts' = {key} \cup DOMAIN counts
      /\ \A k \in DOMAIN counts' : counts'[k] = c \/ (k \in DOMAIN counts /\ counts'[k] = counts[k])
  <2>1. counts' = Put(key, c, counts)
    BY DEF WorkGoesOn
  <2> HIDE DEF key
  <2> QED BY <2>1 DEF Put, Onto
<1>3. key \in Seasons \X Members \X Goals /\ key[3] = g /\ c \in Tally
  BY <1>1, TypesOfRows, StandingsAssumption DEF Seasons
<1>4. goal' = goal /\ goal[g] # NoData /\ UNCHANGED <<quarter, place, left, chief, share, result, saved, summary, published>>
  BY DEF WorkGoesOn, LiveGoals
<1> HIDE DEF key
<1>5. PageTypes'
  <2>1. DOMAIN counts' \subseteq Seasons \X Members \X Goals /\ \A k \in DOMAIN counts' : counts'[k] \in Tally
    BY <1>1, <1>2, <1>3 DEF PageTypes, StandingsTypeOK
  <2> QED BY <1>1, <1>4, <2>1, TypesStay DEF PageTypes, StandingsTypeOK
<1>6. \A k \in DOMAIN counts' : goal'[k[3]] # NoData
  BY <1>1, <1>2, <1>3, <1>4 DEF RowsHaveGoals
<1>7. GoalsEvolve
  BY <1>4 DEF GoalsEvolve
<1> QED BY <1>4, <1>5, <1>6, <1>7, EditsKeepPages

LEMMA ResultsKeepPages ==
  ASSUME PagesInvariant, NEW g \in Goals, NEW percent \in Results, RecordResult(g, percent)
  PROVE  PagesInvariant'
<1>1. PageTypes /\ RowsHaveGoals
  BY DEF PagesInvariant
<1> DEFINE key == <<quarter, g>>
<1>2. /\ DOMAIN result' = {key} \cup DOMAIN result
      /\ \A k \in DOMAIN result' : result'[k] = percent \/ (k \in DOMAIN result /\ result'[k] = result[k])
  <2>1. result' = Put(key, percent, result)
    BY DEF RecordResult
  <2> HIDE DEF key
  <2> QED BY <2>1 DEF Put, Onto
<1>3. key \in Seasons \X Goals /\ percent \in Int
  BY <1>1, TypesOfRows, StandingsAssumption DEF Seasons
<1>4. goal' = goal /\ counts' = counts /\ UNCHANGED <<quarter, place, left, chief, share, saved, summary, published>>
  BY DEF RecordResult
<1> HIDE DEF key
<1>5. PageTypes'
  <2>1. DOMAIN result' \subseteq Seasons \X Goals /\ \A k \in DOMAIN result' : result'[k] \in Int
    BY <1>1, <1>2, <1>3 DEF PageTypes
  <2> QED BY <1>1, <1>4, <2>1, TypesStay DEF PageTypes, StandingsTypeOK
<1>6. GoalsEvolve /\ \A k \in DOMAIN counts' : goal'[k[3]] # NoData
  BY <1>1, <1>4 DEF GoalsEvolve, RowsHaveGoals
<1> QED BY <1>4, <1>5, <1>6, EditsKeepPages

\* A KPI that is made, weighed anew or deleted.
LEMMA GoalsKeepPages ==
  ASSUME PagesInvariant, NEW g \in Goals,
         DropGoal(g) \/ \E w \in GoalWeights : WeighGoal(g, w) \/ CreateGoal(g, w)
  PROVE  PagesInvariant'
<1>1. PageTypes /\ RowsHaveGoals /\ goal \in [Goals -> GoalRow \cup {NoData}]
  BY DEF PagesInvariant, PageTypes, StandingsTypeOK
<1>2. UNCHANGED <<quarter, place, left, chief, share, counts, result, saved, summary, published>>
  BY DEF DropGoal, WeighGoal, CreateGoal
<1>3. PICK r \in GoalRow : /\ goal' = [goal EXCEPT ![g] = r]
                           /\ goal[g] # NoData => r.since = goal[g].since /\ (r.live => goal[g].live)
  <2>1. CASE DropGoal(g)
    <3>1. goal[g] \in GoalRow /\ goal' = [goal EXCEPT ![g] = [goal[g] EXCEPT !.live = FALSE]]
      BY <1>1, <2>1 DEF DropGoal, LiveGoals
    <3>2. [goal[g] EXCEPT !.live = FALSE] \in GoalRow /\ [goal[g] EXCEPT !.live = FALSE].since = goal[g].since
          /\ ~[goal[g] EXCEPT !.live = FALSE].live
      BY <3>1 DEF GoalRow
    <3> QED BY <3>1, <3>2
  <2>2. ASSUME NEW w \in GoalWeights, WeighGoal(g, w)
        PROVE  \E r \in GoalRow : /\ goal' = [goal EXCEPT ![g] = r]
                                  /\ goal[g] # NoData => r.since = goal[g].since /\ (r.live => goal[g].live)
    <3>1. goal[g] \in GoalRow /\ goal' = [goal EXCEPT ![g] = [goal[g] EXCEPT !.weight = w]]
      BY <1>1, <2>2 DEF WeighGoal, LiveGoals
    <3>2. w \in 0 .. 100
      BY StandingsAssumption
    <3>3. [goal[g] EXCEPT !.weight = w] \in GoalRow /\ [goal[g] EXCEPT !.weight = w].since = goal[g].since
          /\ [goal[g] EXCEPT !.weight = w].live = goal[g].live
      BY <3>1, <3>2 DEF GoalRow
    <3> QED BY <3>1, <3>3
  <2>3. ASSUME NEW w \in GoalWeights, CreateGoal(g, w)
        PROVE  \E r \in GoalRow : /\ goal' = [goal EXCEPT ![g] = r]
                                  /\ goal[g] # NoData => r.since = goal[g].since /\ (r.live => goal[g].live)
    <3> DEFINE r == [weight |-> w, since |-> quarter, live |-> TRUE]
    <3>1. w \in 0 .. 100 /\ quarter \in Seasons
      BY <1>1, StandingsAssumption DEF PageTypes, StandingsTypeOK
    <3>2. r \in GoalRow
      BY <3>1 DEF GoalRow
    <3>3. goal[g] = NoData /\ goal' = [goal EXCEPT ![g] = r]
      BY <2>3 DEF CreateGoal
    <3> HIDE DEF r
    <3> QED BY <3>2, <3>3
  <2> QED BY <2>1, <2>2, <2>3
<1>4. r # NoData
  BY StandingsAssumption
<1>5. goal' \in [Goals -> GoalRow \cup {NoData}]
  BY <1>1, <1>3
<1>6. GoalsEvolve
  BY <1>1, <1>3, <1>4 DEF GoalsEvolve
<1>7. PageTypes'
  BY <1>1, <1>2, <1>5, TypesStay DEF PageTypes, StandingsTypeOK
<1>8. \A k \in DOMAIN counts' : goal'[k[3]] # NoData
  <2> SUFFICES ASSUME NEW k \in DOMAIN counts PROVE goal'[k[3]] # NoData
    BY <1>2
  <2>1. k[3] \in Goals /\ goal[k[3]] # NoData
    BY <1>1, TypesOfRows DEF RowsHaveGoals
  <2> QED BY <1>6, <2>1 DEF GoalsEvolve
<1> QED BY <1>2, <1>6, <1>7, <1>8, EditsKeepPages

\* Whatever leaves KPIs and tasks alone.
LEMMA PeopleKeepPages ==
  ASSUME PagesInvariant,
         \/ QuarterEnds
         \/ \E m \in Members : (\E t \in Teams : Transfer(m, t)) \/ LeaveTeam(m) \/ ComeBack(m)
         \/ \E t \in Teams, percent \in GoalWeights \cup {NoData} : ShareCapital(t, percent)
  PROVE  PagesInvariant'
<1>1. PageTypes /\ RowsHaveGoals
  BY DEF PagesInvariant
<1>2. UNCHANGED <<goal, counts, result, saved, summary, published>> /\ (quarter' = quarter \/ quarter' = 2)
  BY DEF QuarterEnds, Transfer, LeaveTeam, ComeBack, ShareCapital
<1>3. quarter' \in Seasons
  BY <1>1, <1>2 DEF PageTypes, StandingsTypeOK, Seasons
<1>4. place' \in [Members -> Teams]
  <2>1. place \in [Members -> Teams]
    BY <1>1 DEF PageTypes, StandingsTypeOK
  <2>2. place' = place \/ \E m \in Members, t \in Teams : place' = [place EXCEPT ![m] = t]
    BY DEF QuarterEnds, Transfer, LeaveTeam, ComeBack, ShareCapital
  <2> QED BY <2>1, <2>2
<1>5. left' \subseteq Members
  <2>1. left \subseteq Members
    BY <1>1 DEF PageTypes, StandingsTypeOK
  <2>2. left' = left \/ \E m \in Members : left' = left \cup {m} \/ left' = left \ {m}
    BY DEF QuarterEnds, Transfer, LeaveTeam, ComeBack, ShareCapital
  <2> QED BY <2>1, <2>2
<1>6. chief' \in [Teams -> Members \cup {NoData}]
  <2>1. chief \in [Teams -> Members \cup {NoData}]
    BY <1>1 DEF PageTypes, StandingsTypeOK
  <2>2. chief' = chief \/ \E m \in Members : chief' = [t \in Teams |-> IF chief[t] = m THEN NoData ELSE chief[t]]
    BY DEF QuarterEnds, Transfer, LeaveTeam, ComeBack, ShareCapital
  <2> QED BY <2>1, <2>2
<1>7. share' \in [Teams -> (0 .. 100) \cup {NoData}]
  <2>1. share \in [Teams -> (0 .. 100) \cup {NoData}]
    BY <1>1 DEF PageTypes
  <2>2. share' = share \/ \E t \in Teams, percent \in GoalWeights \cup {NoData} : share' = [share EXCEPT ![t] = percent]
    BY DEF QuarterEnds, Transfer, LeaveTeam, ComeBack, ShareCapital
  <2>3. GoalWeights \cup {NoData} \subseteq (0 .. 100) \cup {NoData}
    BY StandingsAssumption
  <2> QED BY <2>1, <2>2, <2>3
<1>8. PageTypes'
  BY <1>1, <1>2, <1>3, <1>4, <1>5, <1>6, <1>7, TypesStay DEF PageTypes, StandingsTypeOK
<1>9. GoalsEvolve /\ \A k \in DOMAIN counts' : goal'[k[3]] # NoData
  BY <1>1, <1>2 DEF GoalsEvolve, RowsHaveGoals
<1> QED BY <1>2, <1>8, <1>9, EditsKeepPages

-----------------------------------------------------------------------------
(* A night. *)

\* What a night saves of quarter q: rows of that quarter only, all that were there, and
\* final ones as they were.
LEMMA RowsAnew ==
  ASSUME PagesInvariant, NEW q \in Seasons, NEW final \in BOOLEAN
  PROVE  LET S == SavedAnew(q, final) IN
         /\ DOMAIN S \subseteq {q} \X Members \X Goals
         /\ \A k \in DOMAIN saved : k[1] = q => k \in DOMAIN S
         /\ \A k \in DOMAIN S : /\ S[k] \in SavedRow /\ goal[k[3]] # NoData
                                /\ S[k].final <=> (final \/ (k \in DOMAIN saved /\ saved[k].final))
<1> DEFINE marked == {k \in DOMAIN counts : k[1] = q /\ k[3] \in LiveGoals}
           D == marked \cup {l \in DOMAIN saved : l[1] = q}
           S == SavedAnew(q, final)
<1>1. PageTypes /\ RowsHaveGoals
  BY DEF PagesInvariant
<1>2. /\ DOMAIN S = D
      /\ \A k \in D : S[k] = IF k \in DOMAIN saved /\ saved[k].final THEN saved[k]
                             ELSE IF k \in marked THEN [tally |-> counts[k], weight |-> goal[k[3]].weight, final |-> final]
                             ELSE [saved[k] EXCEPT !.tally = NoTasks, !.final = final]
  BY DEF SavedAnew
<1>3. ASSUME NEW k \in D
      PROVE  k \in {q} \X Members \X Goals /\ goal[k[3]] # NoData /\ k[3] \in Goals
  <2>1. k \in DOMAIN counts \/ k \in DOMAIN saved
    OBVIOUS
  <2>2. k[1] = q /\ k \in Seasons \X Members \X Goals
    BY <1>1, <2>1, TypesOfRows
  <2> QED BY <1>1, <2>1, <2>2 DEF RowsHaveGoals
<1>4. ASSUME NEW k \in D
      PROVE  S[k] \in SavedRow /\ (S[k].final <=> (final \/ (k \in DOMAIN saved /\ saved[k].final)))
  <2>1. CASE k \in DOMAIN saved /\ saved[k].final
    <3>1. S[k] = saved[k] /\ saved[k] \in SavedRow
      BY <1>1, <1>2, <2>1, TypesOfRows
    <3> QED BY <2>1, <3>1
  <2>2. CASE ~(k \in DOMAIN saved /\ saved[k].final) /\ k \in marked
    <3>1. S[k] = [tally |-> counts[k], weight |-> goal[k[3]].weight, final |-> final]
      BY <1>2, <2>2
    <3>2. counts[k] \in Tally
      BY <1>1, <2>2, TypesOfRows
    <3>3. goal[k[3]].weight \in 0 .. 100
      BY <1>1, <1>3, TypesOfRows DEF GoalRow
    <3> HIDE DEF S
    <3>4. S[k] \in SavedRow /\ S[k].final = final
      BY <3>1, <3>2, <3>3 DEF SavedRow
    <3> QED BY <2>2, <3>4
  <2>3. CASE ~(k \in DOMAIN saved /\ saved[k].final) /\ k \notin marked
    <3>1. k \in DOMAIN saved /\ saved[k] \in SavedRow
      BY <1>1, <2>3, TypesOfRows
    <3>2. S[k] = [saved[k] EXCEPT !.tally = NoTasks, !.final = final]
      BY <1>2, <2>3
    <3> DEFINE r == saved[k]
    <3> HIDE DEF S, r
    <3>3. NoTasks \in Tally
      BY DEF NoTasks, Tally
    <3>4. S[k] \in SavedRow /\ S[k].final = final
      BY <3>1, <3>2, <3>3 DEF SavedRow, r
    <3> QED BY <2>3, <3>4
  <2> QED BY <2>1, <2>2, <2>3
<1>5. DOMAIN S \subseteq {q} \X Members \X Goals
  BY <1>2, <1>3
<1> HIDE DEF S
<1>6. \A k \in DOMAIN saved : k[1] = q => k \in DOMAIN S
  BY <1>2
<1> QED BY <1>2, <1>3, <1>4, <1>5, <1>6 DEF S

\* The same of the departments.
LEMMA SummariesAnew ==
  ASSUME PagesInvariant, NEW q \in Seasons, NEW final \in BOOLEAN
  PROVE  LET S == SummaryAnew(q, final) IN
         /\ DOMAIN S = {q} \X Teams
         /\ \A k \in DOMAIN S : /\ S[k] \in SummaryRow
                                /\ S[k].final <=> (final \/ (k \in DOMAIN summary /\ summary[k].final))
<1> DEFINE goals(t) == {g \in LiveGoals : TeamOf[g] = t}
           found(g) == IF <<q, g>> \in DOMAIN result THEN result[<<q, g>>] ELSE NoData
           f(t)     == [g \in goals(t) |-> [weight |-> goal[g].weight, score |-> found(g)]]
           S        == SummaryAnew(q, final)
<1>1. PageTypes /\ goal \in [Goals -> GoalRow \cup {NoData}]
  BY DEF PagesInvariant, PageTypes, StandingsTypeOK
<1>2. /\ DOMAIN S = {q} \X Teams
      /\ \A k \in DOMAIN S : S[k] = IF TeamIsFinal(k[2], q) THEN summary[k]
                                    ELSE [score |-> WeightedAverage(f(k[2])), weight |-> share[k[2]], final |-> final]
  BY DEF SummaryAnew
<1>3. \A t : WeightedAverage(f(t)) \in Int \cup {NoData}
  <2> SUFFICES ASSUME NEW t PROVE WeightedAverage(f(t)) \in Int \cup {NoData}
    OBVIOUS
  <2> DEFINE h == f(t)
  <2>1. DOMAIN h = goals(t) /\ \A g \in goals(t) : h[g].weight = goal[g].weight /\ h[g].score = found(g)
    OBVIOUS
  <2>2. goals(t) \in SUBSET Goals /\ \A g \in goals(t) : goal[g].weight \in Nat
    <3>1. \A g \in LiveGoals : g \in Goals /\ goal[g] \in GoalRow
      BY <1>1 DEF LiveGoals
    <3>2. \A g \in LiveGoals : goal[g].weight \in 0 .. 100
      BY <3>1 DEF GoalRow
    <3> QED BY <3>1, <3>2
  <2>3. \A g : found(g) \in Int \cup {NoData}
    BY <1>1 DEF PageTypes
  <2>4. IsFiniteSet(goals(t))
    <3>1. IsFiniteSet(Goals)
      BY StandingsAssumption
    <3> QED BY ONLY <2>2, <3>1, FS_Subset
  <2> HIDE DEF h, found, goals
  <2>5. Averaged(h)
    BY <2>1, <2>2, <2>3, <2>4 DEF Averaged, Weighed
  <2>6. WeightedAverage(h) \in Int \cup {NoData}
    BY <2>5, AverageIsBetween
  <2> QED BY <2>6 DEF h
<1> HIDE DEF f, S
<1>4. ASSUME NEW k \in DOMAIN S
      PROVE  S[k] \in SummaryRow /\ (S[k].final <=> (final \/ (k \in DOMAIN summary /\ summary[k].final)))
  <2>1. k = <<q, k[2]>> /\ k[2] \in Teams
    BY <1>2
  <2>2. CASE TeamIsFinal(k[2], q)
    <3>1. k \in DOMAIN summary /\ summary[k].final /\ S[k] = summary[k]
      BY <1>2, <2>1, <2>2 DEF TeamIsFinal
    <3> QED BY <1>1, <3>1, TypesOfRows
  <2>3. CASE ~TeamIsFinal(k[2], q)
    <3>1. ~(k \in DOMAIN summary /\ summary[k].final)
      BY <2>1, <2>3 DEF TeamIsFinal
    <3>2. S[k] = [score |-> WeightedAverage(f(k[2])), weight |-> share[k[2]], final |-> final]
      BY <1>2, <2>3
    <3>3. share[k[2]] \in (0 .. 100) \cup {NoData}
      BY <1>1, <2>1 DEF PageTypes
    <3>4. S[k] \in SummaryRow /\ S[k].final = final
      BY <1>3, <3>2, <3>3 DEF SummaryRow
    <3> QED BY <3>1, <3>4
  <2> QED BY <2>2, <2>3
<1> QED BY <1>2, <1>4 DEF S

\* A night keeps the invariant, whether it closes the first quarter or not.
LEMMA NightKeepsPages ==
  ASSUME PagesInvariant, Night
  PROVE  PagesInvariant'
<1> DEFINE closes == quarter = 2 /\ ~PeriodIsFrozen(1)
           R2 == SavedAnew(quarter, FALSE)
           R1 == SavedAnew(1, TRUE)
           S2 == SummaryAnew(quarter, FALSE)
           S1 == SummaryAnew(1, TRUE)
<1>1. /\ PageTypes /\ RowsHaveGoals /\ NightsSaveAll /\ FinalTogether /\ ClosedIsPast /\ PublishedStands
      /\ quarter \in Seasons /\ 1 \in Seasons /\ (quarter = 1 \/ quarter = 2)
  BY DEF PagesInvariant, PageTypes, StandingsTypeOK, Seasons
<1>2. /\ UNCHANGED <<quarter, place, left, chief, goal, share, counts, result, edits>>
      /\ saved' = Onto(R2, IF closes THEN Onto(R1, saved) ELSE saved)
      /\ summary' = Onto(S2, IF closes THEN Onto(S1, summary) ELSE summary)
  BY DEF Night
<1>3. PICK t0 \in Teams : TRUE
  BY StandingsAssumption
<1>4. /\ DOMAIN R2 \subseteq {quarter} \X Members \X Goals
      /\ \A k \in DOMAIN saved : k[1] = quarter => k \in DOMAIN R2
      /\ \A k \in DOMAIN R2 : /\ R2[k] \in SavedRow /\ goal[k[3]] # NoData
                              /\ R2[k].final <=> (k \in DOMAIN saved /\ saved[k].final)
  BY <1>1, RowsAnew
<1>5. /\ DOMAIN R1 \subseteq {1} \X Members \X Goals
      /\ \A k \in DOMAIN saved : k[1] = 1 => k \in DOMAIN R1
      /\ \A k \in DOMAIN R1 : R1[k] \in SavedRow /\ goal[k[3]] # NoData /\ R1[k].final
  BY <1>1, RowsAnew
<1>6. /\ DOMAIN S2 = {quarter} \X Teams
      /\ \A k \in DOMAIN S2 : S2[k] \in SummaryRow /\ (S2[k].final <=> (k \in DOMAIN summary /\ summary[k].final))
  BY <1>1, SummariesAnew
<1>7. DOMAIN S1 = {1} \X Teams /\ \A k \in DOMAIN S1 : S1[k] \in SummaryRow /\ S1[k].final
  BY <1>1, SummariesAnew
<1> HIDE DEF R1, R2, S1, S2, closes
<1>8. /\ DOMAIN saved' = DOMAIN R2 \cup DOMAIN saved \cup (IF closes THEN DOMAIN R1 ELSE {})
      /\ \A k \in DOMAIN saved' : saved'[k] = IF k \in DOMAIN R2 THEN R2[k]
                                              ELSE IF closes /\ k \in DOMAIN R1 THEN R1[k] ELSE saved[k]
  BY <1>2 DEF Onto
<1>9. /\ DOMAIN summary' = DOMAIN S2 \cup DOMAIN summary \cup (IF closes THEN DOMAIN S1 ELSE {})
      /\ \A k \in DOMAIN summary' : summary'[k] = IF k \in DOMAIN S2 THEN S2[k]
                                                  ELSE IF closes /\ k \in DOMAIN S1 THEN S1[k] ELSE summary[k]
  BY <1>2 DEF Onto
<1>10. /\ \A k \in DOMAIN saved : saved[k] \in SavedRow /\ goal[k[3]] # NoData
       /\ \A k \in DOMAIN saved : k \in Seasons \X Members \X Goals
       /\ \A k \in DOMAIN summary : summary[k] \in SummaryRow /\ k \in Seasons \X Teams
  BY <1>1, TypesOfRows DEF RowsHaveGoals
<1>11. ASSUME NEW k \in DOMAIN saved'
       PROVE  /\ saved'[k] \in SavedRow /\ goal[k[3]] # NoData
              /\ k \in Seasons \X Members \X Goals /\ (k[1] = 1 \/ k[1] = 2)
              /\ closes /\ k[1] = 1 => saved'[k].final
              /\ ~(closes /\ k[1] = 1) => (saved'[k].final <=> (k[1] = 1 /\ PeriodIsFrozen(1)))
  <2>1. CASE k \in DOMAIN R2
    <3>1. saved'[k] = R2[k] /\ R2[k] \in SavedRow /\ goal[k[3]] # NoData /\ k[1] = quarter
          /\ k \in Seasons \X Members \X Goals
      BY <1>1, <1>4, <1>8, <2>1
    <3>2. saved'[k].final <=> (k \in DOMAIN saved /\ saved[k].final)
      BY <1>4, <2>1, <3>1
    <3>3. ~(k \in DOMAIN saved /\ saved[k].final) /\ ~(k[1] = 1 /\ PeriodIsFrozen(1))
      BY <1>1, <3>1 DEF FinalTogether, ClosedIsPast
    <3>4. ~(closes /\ k[1] = 1)
      BY <3>1 DEF closes
    <3> QED BY <1>1, <3>1, <3>2, <3>3, <3>4
  <2>2. CASE k \notin DOMAIN R2 /\ closes /\ k \in DOMAIN R1
    <3>1. saved'[k] = R1[k] /\ R1[k] \in SavedRow /\ goal[k[3]] # NoData /\ k[1] = 1 /\ R1[k].final
          /\ k \in Seasons \X Members \X Goals
      BY <1>1, <1>5, <1>8, <2>2
    <3> QED BY <2>2, <3>1
  <2>3. CASE k \notin DOMAIN R2 /\ ~(closes /\ k \in DOMAIN R1)
    <3>1. k \in DOMAIN saved /\ saved'[k] = saved[k]
      BY <1>8, <2>3
    <3>2. ~(closes /\ k[1] = 1)
      BY <1>5, <2>3, <3>1
    <3>3. saved[k].final <=> (k[1] = 1 /\ PeriodIsFrozen(1))
      BY <1>1, <3>1 DEF FinalTogether
    <3>4. k[1] = 1 \/ k[1] = 2
      BY <1>10, <3>1 DEF Seasons
    <3> QED BY <1>10, <3>1, <3>2, <3>3, <3>4
  <2> QED BY <2>1, <2>2, <2>3
<1>12. ASSUME NEW k \in DOMAIN summary'
       PROVE  /\ summary'[k] \in SummaryRow
              /\ k \in Seasons \X Teams /\ (k[1] = 1 \/ k[1] = 2)
              /\ closes /\ k[1] = 1 => summary'[k].final
              /\ ~(closes /\ k[1] = 1) => (summary'[k].final <=> (k[1] = 1 /\ PeriodIsFrozen(1)))
  <2>1. CASE k \in DOMAIN S2
    <3>1. summary'[k] = S2[k] /\ S2[k] \in SummaryRow /\ k[1] = quarter /\ k \in Seasons \X Teams
      BY <1>1, <1>6, <1>9, <2>1
    <3>2. summary'[k].final <=> (k \in DOMAIN summary /\ summary[k].final)
      BY <1>6, <2>1, <3>1
    <3>3. ~(k \in DOMAIN summary /\ summary[k].final) /\ ~(k[1] = 1 /\ PeriodIsFrozen(1))
      BY <1>1, <3>1 DEF FinalTogether, ClosedIsPast
    <3>4. ~(closes /\ k[1] = 1)
      BY <3>1 DEF closes
    <3> QED BY <1>1, <3>1, <3>2, <3>3, <3>4
  <2>2. CASE k \notin DOMAIN S2 /\ closes /\ k \in DOMAIN S1
    <3>1. summary'[k] = S1[k] /\ S1[k] \in SummaryRow /\ k[1] = 1 /\ S1[k].final /\ k \in Seasons \X Teams
      BY <1>1, <1>7, <1>9, <2>2
    <3> QED BY <2>2, <3>1
  <2>3. CASE k \notin DOMAIN S2 /\ ~(closes /\ k \in DOMAIN S1)
    <3>1. k \in DOMAIN summary /\ summary'[k] = summary[k]
      BY <1>9, <2>3
    <3>2. k \in Seasons \X Teams /\ (k[1] = 1 \/ k[1] = 2)
      BY <1>10, <3>1 DEF Seasons
    <3>3. ~(closes /\ k[1] = 1)
      BY <1>7, <2>3, <3>1, <3>2
    <3>4. summary[k].final <=> (k[1] = 1 /\ PeriodIsFrozen(1))
      BY <1>1, <3>1 DEF FinalTogether
    <3> QED BY <1>10, <3>1, <3>2, <3>3, <3>4
  <2> QED BY <2>1, <2>2, <2>3
<1>13. PageTypes'
  <2>1. /\ DOMAIN saved' \subseteq Seasons \X Members \X Goals
        /\ \A k \in DOMAIN saved' : saved'[k] \in [tally : Tally, weight : 0 .. 100, final : BOOLEAN]
    BY <1>11 DEF SavedRow
  <2>2. DOMAIN summary' \subseteq Seasons \X Teams /\ \A k \in DOMAIN summary' : summary'[k] \in SummaryRow
    BY <1>12
  <2> QED BY <1>1, <1>2, <2>1, <2>2 DEF PageTypes, StandingsTypeOK
<1>14. RowsHaveGoals'
  BY <1>1, <1>2, <1>11 DEF RowsHaveGoals
<1>15. NightsSaveAll'
  <2>1. \A k \in DOMAIN S2 : k[1] = quarter
    BY <1>6
  <2>2. \A t \in Teams : <<quarter, t>> \in DOMAIN summary' /\ (closes => <<1, t>> \in DOMAIN summary')
    BY <1>6, <1>7, <1>9
  <2>3. ASSUME NEW k \in DOMAIN summary', NEW t \in Teams PROVE <<k[1], t>> \in DOMAIN summary'
    <3>1. k[1] = quarter \/ (closes /\ k[1] = 1) \/ k \in DOMAIN summary
      BY <1>7, <1>9, <2>1
    <3>2. k \in DOMAIN summary => <<k[1], t>> \in DOMAIN summary
      BY <1>1 DEF NightsSaveAll
    <3> QED BY <1>9, <2>2, <3>1, <3>2
  <2>4. ASSUME NEW k \in DOMAIN saved', NEW t \in Teams PROVE <<k[1], t>> \in DOMAIN summary'
    <3>1. k[1] = quarter \/ (closes /\ k[1] = 1) \/ k \in DOMAIN saved
      BY <1>4, <1>5, <1>8
    <3>2. k \in DOMAIN saved => <<k[1], t>> \in DOMAIN summary
      BY <1>1 DEF NightsSaveAll
    <3> QED BY <1>9, <2>2, <3>1, <3>2
  <2> QED BY <2>3, <2>4 DEF NightsSaveAll
<1>16. CASE closes
  <2>1. quarter = 2 /\ \A t \in Teams : <<1, t>> \in DOMAIN summary' /\ <<1, t>>[1] = 1
    BY <1>7, <1>9, <1>16 DEF closes
  <2>2. PeriodIsFrozen(1)'
    BY <1>3, <1>12, <1>16, <2>1 DEF PeriodIsFrozen, TeamIsFinal
  <2>3. FinalTogether'
    BY <1>11, <1>12, <1>16, <2>2 DEF FinalTogether
  <2>4. ClosedIsPast'
    BY <1>2, <2>1, <2>2 DEF ClosedIsPast
  <2>5. published' = [cards |-> [m \in Members |-> Card(m, 1)'], place |-> place, goals |-> LiveGoals,
                      lines |-> [m \in Members |-> OverallIn(place[m], m, 1)'], headline |-> Headline(1)']
    BY <1>16 DEF Night, closes
  <2>6. /\ published'.headline = Headline(1)' /\ published'.goals = LiveGoals /\ published'.place = place
        /\ \A m \in Members : published'.cards[m] = Card(m, 1)' /\ published'.lines[m] = OverallIn(place[m], m, 1)'
    BY <2>5
  <2>7. LiveGoals' = LiveGoals /\ place' = place
    BY <1>2 DEF LiveGoals
  <2>8. \A m \in Members : OverallIn(published.place[m], m, 1)' = OverallIn(place[m], m, 1)'
    BY <2>6, <2>7 DEF OverallIn, GoalsFor
  <2>9. PublishedStands'
    BY <2>6, <2>7, <2>8 DEF PublishedStands
  <2> QED BY <1>13, <1>14, <1>15, <2>3, <2>4, <2>9 DEF PagesInvariant
<1>17. CASE ~closes
  <2>1. UNCHANGED published
    BY <1>17 DEF Night, closes
  <2>2. PeriodIsFrozen(1)' <=> PeriodIsFrozen(1)
    <3>1. ASSUME PeriodIsFrozen(1)' PROVE PeriodIsFrozen(1)
      <4>1. PICK t \in Teams : <<1, t>> \in DOMAIN summary' /\ summary'[<<1, t>>].final
        BY <3>1 DEF PeriodIsFrozen, TeamIsFinal
      <4> QED BY <1>12, <1>17, <4>1
    <3>2. ASSUME PeriodIsFrozen(1) PROVE PeriodIsFrozen(1)'
      <4>1. PICK t \in Teams : <<1, t>> \in DOMAIN summary
        BY <3>2 DEF PeriodIsFrozen, TeamIsFinal
      <4>2. <<1, t>> \in DOMAIN summary' /\ <<1, t>>[1] = 1
        BY <1>9, <4>1
      <4>3. summary'[<<1, t>>].final
        BY <1>12, <1>17, <3>2, <4>2
      <4> QED BY <4>2, <4>3 DEF PeriodIsFrozen, TeamIsFinal
    <3> QED BY <3>1, <3>2
  <2>3. FinalTogether'
    BY <1>11, <1>12, <1>17, <2>2 DEF FinalTogether
  <2>4. ClosedIsPast'
    BY <1>1, <1>2, <2>1, <2>2 DEF ClosedIsPast
  <2>5. CASE published = NoData
    <3>1. PublishedStands'
      BY <2>1, <2>5 DEF PublishedStands
    <3> QED BY <1>13, <1>14, <1>15, <2>3, <2>4, <3>1 DEF PagesInvariant
  <2>6. CASE published # NoData
    <3>1. quarter = 2
      BY <1>1, <2>6 DEF ClosedIsPast
    <3>2. FirstQuarterStands
      <4>1. ASSUME NEW k \in {1} \X Members \X Goals
            PROVE  (k \in DOMAIN saved' <=> k \in DOMAIN saved) /\ (k \in DOMAIN saved => saved'[k] = saved[k])
        <5>1. k \notin DOMAIN R2
          BY <1>4, <3>1
        <5> QED BY <1>8, <1>17, <5>1
      <4>2. ASSUME NEW k \in {1} \X Teams
            PROVE  (k \in DOMAIN summary' <=> k \in DOMAIN summary) /\ (k \in DOMAIN summary => summary'[k] = summary[k])
        <5>1. k \notin DOMAIN S2
          BY <1>6, <3>1
        <5> QED BY <1>9, <1>17, <5>1
      <4> QED BY <4>1, <4>2 DEF FirstQuarterStands
    <3>3. GoalsEvolve
      BY <1>2 DEF GoalsEvolve
    <3>4. PublishedStands'
      BY <1>13, <2>1, <3>2, <3>3, PublishedStays
    <3> QED BY <1>13, <1>14, <1>15, <2>3, <2>4, <3>4 DEF PagesInvariant
  <2> QED BY <2>5, <2>6
<1> QED BY <1>16, <1>17

\* A step in which nothing happens.
LEMMA NothingKeepsPages ==
  ASSUME PagesInvariant, UNCHANGED readVars
  PROVE  PagesInvariant'
<1>1. PageTypes /\ RowsHaveGoals
  BY DEF PagesInvariant
<1>2. /\ UNCHANGED <<quarter, place, left, chief, goal, share, counts>>
      /\ UNCHANGED <<result, saved, summary, published>>
  BY DEF readVars
<1>3. PageTypes'
  BY <1>1, <1>2 DEF PageTypes, StandingsTypeOK
<1>4. GoalsEvolve /\ \A k \in DOMAIN counts' : goal'[k[3]] # NoData
  BY <1>1, <1>2 DEF GoalsEvolve, RowsHaveGoals
<1> QED BY <1>2, <1>3, <1>4, EditsKeepPages

(* The pages agree with each other and over time: on every path, rankings  *)
(* match the cards, a closed quarter reads as it was published, all three  *)
(* places where it says so agree that it is closed, and the headline lies  *)
(* between the results that it is made of.                                 *)
THEOREM ThePagesAgree == StandingsSpec => []PagesAgree
<1>1. StandingsInit => PagesInvariant
  BY PagesBegin
<1>2. PagesInvariant /\ [StandingsNext]_readVars => PagesInvariant'
  <2> SUFFICES ASSUME PagesInvariant, [StandingsNext]_readVars PROVE PagesInvariant'
    OBVIOUS
  <2>1. CASE Night
    BY <2>1, NightKeepsPages
  <2>2. CASE \E m \in Members, g \in Goals, c \in Tallies : WorkGoesOn(m, g, c)
    BY <2>2, WorkKeepsPages
  <2>3. CASE \E g \in Goals, percent \in Results : RecordResult(g, percent)
    BY <2>3, ResultsKeepPages
  <2>4. CASE \E g \in Goals : DropGoal(g) \/ \E w \in GoalWeights : WeighGoal(g, w) \/ CreateGoal(g, w)
    BY <2>4, GoalsKeepPages
  <2>5. CASE \/ QuarterEnds
             \/ \E m \in Members : (\E t \in Teams : Transfer(m, t)) \/ LeaveTeam(m) \/ ComeBack(m)
             \/ \E t \in Teams, percent \in GoalWeights \cup {NoData} : ShareCapital(t, percent)
    BY <2>5, PeopleKeepPages
  <2>6. CASE UNCHANGED readVars
    BY <2>6, NothingKeepsPages
  <2> QED BY <2>1, <2>2, <2>3, <2>4, <2>5, <2>6 DEF StandingsNext
<1>3. PagesInvariant => PagesAgree
  BY PagesHold
<1> QED BY <1>1, <1>2, <1>3, PTL DEF StandingsSpec

=============================================================================
