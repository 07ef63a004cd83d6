------------------------------ MODULE Deadlines ------------------------------
(***************************************************************************)
(* add_business_hours: the deadline of a workflow step, some working hours *)
(* after its start.  Moments are full hours on the organization's clock,   *)
(* counted from the midnight a Monday begins with; the conversion from UTC *)
(* and back moves start and result alike, and no clock is changed during   *)
(* working hours.  Each turn of the loop is a step.                        *)
(***************************************************************************)
EXTENDS Integers, FiniteSets

CONSTANTS
  Starts,              \* the moments a step may start at
  Turnarounds,         \* expected_turnaround_hours
  WorkdayStartHour, WorkdayEndHour

VARIABLE sum           \* the calculation: its input, current, remaining, result

NoResult == -1

ASSUME DeadlinesAssumption ==
  /\ Starts \subseteq Nat /\ Turnarounds \subseteq Nat
  /\ WorkdayStartHour \in 0 .. 23 /\ WorkdayEndHour \in WorkdayStartHour + 1 .. 24

HourOf(m)    == m % 24
IsWeekday(m) == (m \div 24) % 7 < 5
AtHour(m, h) == m - HourOf(m) + h

IsBeforeWork(m) == IsWeekday(m) /\ HourOf(m) < WorkdayStartHour

IsAtWork(m) == IsWeekday(m) /\ WorkdayStartHour <= HourOf(m) /\ HourOf(m) < WorkdayEndHour

\* The opening of the first weekday after the day of m (the inner loop).
NextOpening(m) ==
  LET openings == {AtHour(m, WorkdayStartHour) + 24 * n : n \in 1 .. 3}
  IN  CHOOSE d \in openings :
        IsWeekday(d) /\ \A e \in openings : IsWeekday(e) => d <= e

NextWorkingMoment(m) ==
  IF IsBeforeWork(m) THEN AtHour(m, WorkdayStartHour)
  ELSE IF IsAtWork(m) THEN m
  ELSE NextOpening(m)

DeadlinesInit ==
  \E start \in Starts, hours \in Turnarounds :
    sum = [start |-> start, hours |-> hours, current |-> NextWorkingMoment(start),
           remaining |-> hours, result |-> NoResult]

LeftToday == AtHour(sum.current, WorkdayEndHour) - sum.current

EndsToday ==
  /\ sum.result = NoResult /\ sum.remaining <= LeftToday
  /\ sum' = [sum EXCEPT !.result = sum.current + sum.remaining]

\* Mutant of GoesOnAnotherDay: the loop goes on when the day is just long enough.
GoesOnAtClosingTime ==
  /\ sum.result = NoResult /\ sum.remaining >= LeftToday
  /\ sum' = [sum EXCEPT !.remaining = @ - LeftToday,
                        !.current = NextWorkingMoment(AtHour(@, WorkdayEndHour))]

GoesOnAnotherDay ==
  /\ sum.result = NoResult /\ sum.remaining > LeftToday
  /\ sum' = [sum EXCEPT !.remaining = @ - LeftToday,
                        !.current = NextWorkingMoment(AtHour(@, WorkdayEndHour))]

DeadlinesNext == EndsToday \/ GoesOnAnotherDay

DeadlinesSpec == DeadlinesInit /\ [][DeadlinesNext]_sum

\* The working hours between two moments.
WorkingHours(from, to) ==
  Cardinality({h \in from .. to - 1 :
     (h \div 24) % 7 < 5 /\ h % 24 >= WorkdayStartHour /\ h % 24 < WorkdayEndHour})

\* The deadline is the first moment by which the asked-for hours have been worked,
\* wherever the start falls, in the evening or at a weekend, and however many days
\* it takes: never a day late at the closing hour.
DeadlineCountsWorkingHours ==
  sum.result # NoResult /\ sum.hours > 0 =>
    /\ WorkingHours(sum.start, sum.result) = sum.hours
    /\ WorkingHours(sum.start, sum.result - 1) < sum.hours

=============================================================================
