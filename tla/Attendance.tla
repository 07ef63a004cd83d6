----------------------------- MODULE Attendance -----------------------------
(***************************************************************************)
(* Clocking in, clocking out and the hourly auto-close.                    *)
(*                                                                         *)
(* A request reads the clock first and writes later, in one statement that *)
(* decides for itself whether it applies: an INSERT that yields to the     *)
(* unique index on open records, an UPDATE of open records only.  That     *)
(* statement and the commit are one action, because nothing but audit and  *)
(* notification rows is written between them; a rival waits for the commit *)
(* or finds the row as it was.  clock is the organization's wall clock.    *)
(***************************************************************************)
EXTENDS Integers, FiniteSets

CONSTANTS
  Clockers,      \* the employees, all of them with a login
  Records,       \* the pool of attendance_records ids
  Taps,          \* concurrent requests and workers
  DayLength,     \* ticks from one midnight to the next
  LastTick,      \* bound of the clock
  Empty          \* the null of the database, and an idle request

ASSUME AttendanceAssumption ==
  /\ DayLength \in Nat \ {0}
  /\ LastTick \in Nat
  /\ Empty \notin Nat
  /\ Empty \notin Clockers \cup {"employee", "system"}
  /\ Empty \notin [emp : Clockers, in : Nat, out : Nat \cup {Empty},
                   by : {"employee", "system", Empty}]

VARIABLES
  record,        \* the table attendance_records
  tap,           \* what each request or worker is doing
  away,          \* the employees whose status is inactive
  clock

attendanceVars == <<record, tap, away, clock>>

(***************************************************************************)
(* The table, with its constraints: the fields of the end are set together *)
(* (check_attendance_closed_fields_together) and no record ends before it  *)
(* began (check_attendance_out_after_in).  close_reason goes with "system".*)
(***************************************************************************)
AttendanceRecord ==
  {r \in [emp : Clockers, in : Nat, out : Nat \cup {Empty},
          by : {"employee", "system", Empty}] :
     /\ r.out = Empty <=> r.by = Empty
     /\ r.out # Empty => r.out >= r.in}

RecordIsOpen(id) == record[id] # Empty /\ record[id].out = Empty

\* get_open_record: the employee's records that are still open.
OpenRecords(e) == {id \in Records : RecordIsOpen(id) /\ record[id].emp = e}

TapRecord ==
  [op : {"in", "out"}, emp : Clockers, at : 0 .. LastTick,
   step : {"write", "reread"}]
  \cup [op : {"close"}, at : 0 .. LastTick]

AttendanceTypeOK ==
  /\ record \in [Records -> AttendanceRecord \cup {Empty}]
  /\ tap \in [Taps -> TapRecord \cup {Empty}]
  /\ away \subseteq Clockers
  /\ clock \in 0 .. LastTick

AttendanceInit ==
  /\ record = [id \in Records |-> Empty]
  /\ tap = [s \in Taps |-> Empty]
  /\ away = {}
  /\ clock = 0

(***************************************************************************)
(* Clocking in                                                             *)
(***************************************************************************)
\* Bound: the pool of ids holds a record for every clock-in under way.
RoomForRecords ==
  Cardinality({id \in Records : record[id] = Empty})
    > Cardinality({s \in Taps : tap[s] # Empty /\ tap[s].op = "in"})

\* clock_in up to its INSERT: the status is checked and the moment taken.
BeginClockIn(s, e) ==
  /\ tap[s] = Empty
  /\ e \notin away
  /\ RoomForRecords
  /\ tap' = [tap EXCEPT ![s] = [op |-> "in", emp |-> e, at |-> clock, step |-> "write"]]
  /\ UNCHANGED <<record, away, clock>>

\* Mutant of CreateOpenRecord: the unique index does not exist.
CreateRecordAnyway(s) ==
  /\ tap[s] # Empty /\ tap[s].op = "in" /\ tap[s].step = "write"
  /\ \E id \in Records :
       /\ record[id] = Empty
       /\ record' = [record EXCEPT ![id] =
            [emp |-> tap[s].emp, in |-> tap[s].at, out |-> Empty, by |-> Empty]]
  /\ tap' = [tap EXCEPT ![s] = Empty]
  /\ UNCHANGED <<away, clock>>

\* create_open_record: INSERT ... ON CONFLICT DO NOTHING on the index of open
\* records.  The winner is done; the loser goes on to read the open record.
CreateOpenRecord(s) ==
  /\ tap[s] # Empty /\ tap[s].op = "in" /\ tap[s].step = "write"
  /\ \/ /\ OpenRecords(tap[s].emp) = {}
        /\ \E id \in Records :
             /\ record[id] = Empty
             /\ record' = [record EXCEPT ![id] =
                  [emp |-> tap[s].emp, in |-> tap[s].at, out |-> Empty, by |-> Empty]]
        /\ tap' = [tap EXCEPT ![s] = Empty]
     \/ /\ OpenRecords(tap[s].emp) # {}
        /\ tap' = [tap EXCEPT ![s].step = "reread"]
        /\ UNCHANGED record
  /\ UNCHANGED <<away, clock>>

\* The loser reads the record it is answered with; by now there may be none,
\* and the request then ends in an error instead.  Nothing is written.
AnswerWithOpenRecord(s) ==
  /\ tap[s] # Empty /\ tap[s].op = "in" /\ tap[s].step = "reread"
  /\ tap' = [tap EXCEPT ![s] = Empty]
  /\ UNCHANGED <<record, away, clock>>

(***************************************************************************)
(* Clocking out                                                            *)
(***************************************************************************)
BeginClockOut(s, e) ==
  /\ tap[s] = Empty
  /\ tap' = [tap EXCEPT ![s] = [op |-> "out", emp |-> e, at |-> clock, step |-> "write"]]
  /\ UNCHANGED <<record, away, clock>>

\* The later of two moments (GREATEST).
LaterOf(m, n) == IF m >= n THEN m ELSE n

\* Mutant of CloseOpenRecord: the UPDATE takes the employee's latest record, open or not.
CloseLatestRecord(s) ==
  /\ tap[s] # Empty /\ tap[s].op = "out"
  /\ record' = [id \in Records |->
       IF record[id] # Empty /\ record[id].emp = tap[s].emp
          /\ \A other \in Records :
               record[other] # Empty /\ record[other].emp = tap[s].emp
                 => record[other].in <= record[id].in
         THEN [record[id] EXCEPT !.out = LaterOf(tap[s].at, record[id].in), !.by = "employee"]
         ELSE record[id]]
  /\ tap' = [tap EXCEPT ![s] = Empty]
  /\ UNCHANGED <<away, clock>>

\* close_open_record: UPDATE ... WHERE clock_out_at IS NULL.  Matching no row is
\* NotClockedInException.
CloseOpenRecord(s) ==
  /\ tap[s] # Empty /\ tap[s].op = "out"
  /\ record' = [id \in Records |->
       IF id \in OpenRecords(tap[s].emp)
         THEN [record[id] EXCEPT !.out = LaterOf(tap[s].at, record[id].in), !.by = "employee"]
         ELSE record[id]]
  /\ tap' = [tap EXCEPT ![s] = Empty]
  /\ UNCHANGED <<away, clock>>

(***************************************************************************)
(* The auto-close                                                          *)
(***************************************************************************)
\* The midnight that the day of a moment began with, on the organization's clock.
LastMidnight(moment) == (moment \div DayLength) * DayLength

\* auto_close_stale_records takes the moment and works out the cutoff; the scan
\* that hands out the work only picks organizations with an open record.
BeginAutoClose(s) ==
  /\ tap[s] = Empty
  /\ \E id \in Records : RecordIsOpen(id)
  /\ tap' = [tap EXCEPT ![s] = [op |-> "close", at |-> LastMidnight(clock)]]
  /\ UNCHANGED <<record, away, clock>>

\* Mutant of Stale: records are picked by the day they began, midnight itself included.
StaleByDay(id, cutoff) == RecordIsOpen(id) /\ record[id].in <= cutoff

\* Mutant of Stale: only yesterday's records, so those of a missed night stay open.
StaleSinceYesterday(id, cutoff) ==
  RecordIsOpen(id) /\ record[id].in < cutoff /\ record[id].in >= cutoff - DayLength

Stale(id, cutoff) == RecordIsOpen(id) /\ record[id].in < cutoff

\* close_stale_open_records: one UPDATE for all that are still open and began
\* before the cutoff.
CloseStaleOpenRecords(s) ==
  /\ tap[s] # Empty /\ tap[s].op = "close"
  /\ record' = [id \in Records |->
       IF Stale(id, tap[s].at)
         THEN [record[id] EXCEPT !.out = tap[s].at, !.by = "system"]
         ELSE record[id]]
  /\ tap' = [tap EXCEPT ![s] = Empty]
  /\ UNCHANGED <<away, clock>>

(***************************************************************************)
(* Surroundings                                                            *)
(***************************************************************************)
\* An exception, a lost connection, a killed worker: nothing is written.
AbandonTap(s) ==
  /\ tap[s] # Empty
  /\ tap' = [tap EXCEPT ![s] = Empty]
  /\ UNCHANGED <<record, away, clock>>

\* offboard_employee and reinstate_employee, as far as attendance sees them:
\* neither touches an open record.
LeaveStaff(e) ==
  /\ e \notin away
  /\ away' = away \cup {e}
  /\ UNCHANGED <<record, tap, clock>>

ReturnToStaff(e) ==
  /\ e \in away
  /\ away' = away \ {e}
  /\ UNCHANGED <<record, tap, clock>>

TimePasses ==
  /\ clock < LastTick
  /\ clock' = clock + 1
  /\ UNCHANGED <<record, tap, away>>

AttendanceNext ==
  \/ \E s \in Taps :
       \/ \E e \in Clockers : BeginClockIn(s, e) \/ BeginClockOut(s, e)
       \/ CreateOpenRecord(s)
       \/ AnswerWithOpenRecord(s)
       \/ CloseOpenRecord(s)
       \/ BeginAutoClose(s)
       \/ CloseStaleOpenRecords(s)
       \/ AbandonTap(s)
  \/ \E e \in Clockers : LeaveStaff(e) \/ ReturnToStaff(e)
  \/ TimePasses

AttendanceSpec == AttendanceInit /\ [][AttendanceNext]_attendanceVars

(***************************************************************************)
(* Beat starts the auto-close every hour, in a worker that people's        *)
(* requests do not occupy (SF: it gets its turn); a worker that has begun  *)
(* goes on, and a killed one is started again.  That it is not killed for  *)
(* ever is the <>[] conjunct (a statement that matches no row leaves what  *)
(* an abandoned request leaves, and is none).                              *)
(***************************************************************************)
TapGoesOn(s) ==
  \/ CreateOpenRecord(s) \/ AnswerWithOpenRecord(s)
  \/ CloseOpenRecord(s)  \/ CloseStaleOpenRecords(s)

AttendanceFairness ==
  /\ \A s \in Taps : WF_attendanceVars(TapGoesOn(s))
  /\ SF_attendanceVars(\E s \in Taps : BeginAutoClose(s))
  /\ <>[][\A s \in Taps : AbandonTap(s) => TapGoesOn(s)]_attendanceVars

(***************************************************************************)
(* What attendance promises                                                *)
(***************************************************************************)
\* "Currently clocked in" means one record: two taps at once, a tap racing a
\* clock-out or the auto-close never leave an employee with two open records
\* (models.py, uq_attendance_one_open_per_employee).
OneOpenRecord ==
  \A i, j \in Records :
    RecordIsOpen(i) /\ RecordIsOpen(j) /\ record[i].emp = record[j].emp => i = j

\* The first end stands: a clock-out and the auto-close that both set out to end
\* a record end it once, and nothing rewrites a record that has ended.
EndedRecordsStand ==
  [][\A id \in Records :
       record[id] # Empty /\ record[id].out # Empty => record'[id] = record[id]]_attendanceVars

\* What the system ends, it ends at a midnight that has passed and that lies after
\* the clock-in, never within the day it began (close_stale_open_records).
SystemEndsAtMidnight ==
  \A id \in Records :
    record[id] # Empty /\ record[id].by = "system" =>
      /\ record[id].out = LastMidnight(record[id].out)
      /\ record[id].in < record[id].out
      /\ record[id].out <= clock

\* Nobody stays clocked in for good: a record from before the last midnight ends,
\* whoever forgot it or left, and however many nights were missed.
ForgottenRecordsEnd ==
  \A id \in Records :
    (RecordIsOpen(id) /\ record[id].in < LastMidnight(clock)) ~> ~RecordIsOpen(id)

=============================================================================
