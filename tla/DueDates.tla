------------------------------- MODULE DueDates -------------------------------
(***************************************************************************)
(* Due dates of clients: computeClientDueDate of the billing service and    *)
(* isDueTomorrow of the invoice scheduler, over the part of Go's time       *)
(* package they use.                                                       *)
(*                                                                         *)
(* A time is the day it falls on.  A due date is 23:59:59 of its day, so it *)
(* is Before(now) exactly when its day is before today.                    *)
(***************************************************************************)
EXTENDS Integers

-----------------------------------------------------------------------------
(***************************************************************************)
(* package time                                                            *)
(***************************************************************************)

LeapYear(y) == (y % 4 = 0 /\ y % 100 # 0) \/ y % 400 = 0

DaysIn(y, m) ==
  IF m \in {4, 6, 9, 11} THEN 30
  ELSE IF m # 2 THEN 31
  ELSE IF LeapYear(y) THEN 29 ELSE 28

Day(y, m, d) == [year |-> y, month |-> m, day |-> d]

Dates == {t \in [year : Nat, month : 1..12, day : 1..31] : t.day <= DaysIn(t.year, t.month)}

Before(s, t) ==
  \/ s.year < t.year
  \/ s.year = t.year /\ s.month < t.month
  \/ s.year = t.year /\ s.month = t.month /\ s.day < t.day

\* time.Date with a month of 13 or a day past the end of its month: the excess
\* is carried over (one carry is all the program's uses need).
MonthOf(y, m) == IF m = 13 THEN Day(y + 1, 1, 1) ELSE Day(y, m, 1)

Normalised(y, m, d) ==
  LET first == MonthOf(y, m)
      days  == DaysIn(first.year, first.month)
      after == MonthOf(first.year, first.month + 1)
  IN IF d <= days THEN Day(first.year, first.month, d)
                  ELSE Day(after.year, after.month, d - days)

\* t.AddDate(0, 0, 1) and t.AddDate(0, 1, 0)
NextDay(t)   == Normalised(t.year, t.month, t.day + 1)
NextMonth(t) == Normalised(t.year, t.month + 1, t.day)

-----------------------------------------------------------------------------
(***************************************************************************)
(* The program's definitions.                                              *)
(***************************************************************************)

\* The due day, clamped to the days the month of t has.
ClampedIn(t, dueDay) ==
  LET last == DaysIn(t.year, t.month)
  IN Day(t.year, t.month, IF dueDay > last THEN last ELSE dueDay)

\* Mutants: a due date that is today counts as over; the next month is never taken.
ComputeDueDateAfterToday(now, dueDay) ==
  LET wanted == IF dueDay < 1 THEN now.day ELSE IF dueDay > 31 THEN 31 ELSE dueDay
      d      == ClampedIn(now, wanted)
  IN IF ~Before(now, d) THEN ClampedIn(NextMonth(now), wanted) ELSE d

ComputeDueDateThisMonth(now, dueDay) ==
  ClampedIn(now, IF dueDay < 1 THEN now.day ELSE IF dueDay > 31 THEN 31 ELSE dueDay)

\* computeClientDueDate
ComputeClientDueDate(now, dueDay) ==
  LET wanted == IF dueDay < 1 THEN now.day ELSE IF dueDay > 31 THEN 31 ELSE dueDay
      d      == ClampedIn(now, wanted)
  IN IF Before(d, now) THEN ClampedIn(NextMonth(now), wanted) ELSE d

\* isDueTomorrow
IsDueOn(tomorrow, dueDay) == dueDay >= 1 /\ tomorrow = ClampedIn(tomorrow, dueDay)

\* The billing period of a due date is its calendar month: periodStart.
PeriodOf(due) == Day(due.year, due.month, 1)

-----------------------------------------------------------------------------
(***************************************************************************)
(* The reference: the next due date is the first day from today on that is *)
(* the (clamped) due day of its month.  It is this month's or the next's.  *)
(***************************************************************************)

FollowingMonth(t) == MonthOf(t.year, t.month + 1)

NextDueDate(today, dueDay) ==
  LET candidates == {ClampedIn(today, dueDay), ClampedIn(FollowingMonth(today), dueDay)}
      upcoming   == {t \in candidates : ~Before(t, today)}
  IN CHOOSE t \in upcoming : \A u \in upcoming : ~Before(u, t)

\* The days on which today's date does not exist in the following month, so
\* that NextMonth(today) lands in the month after it.
Overflows(today) ==
  LET next == FollowingMonth(today) IN today.day > DaysIn(next.year, next.month)

\* The month before t's has more days than t's.
FollowsLongerMonth(t) == t.month # 1 /\ DaysIn(t.year, t.month - 1) > DaysIn(t.year, t.month)

=============================================================================
