------------------------ MODULE InvoiceSchedulerProofs ------------------------
(***************************************************************************)
(* Proofs about InvoiceScheduler, for any clients, due days and days.       *)
(*                                                                         *)
(* The lemmas are about the calendar of DueDates: what is computed is a     *)
(* date, and the due date computed on a day is never before that day.  They *)
(* carry the invariants through the steps that make an invoice; of every    *)
(* other step only that it leaves the invoices alone matters.               *)
(***************************************************************************)
EXTENDS InvoiceScheduler, TLAPS

-----------------------------------------------------------------------------
(***************************************************************************)
(* The calendar.                                                           *)
(***************************************************************************)

\* A month has 28 to 31 days.
LEMMA DaysInType ==
  ASSUME NEW y \in Nat, NEW m \in 1..12 PROVE DaysIn(y, m) \in 28..31
BY DEF DaysIn

\* The first day of a month and of the month after it.
LEMMA MonthOfType ==
  ASSUME NEW y \in Nat, NEW m \in 1..13
  PROVE  /\ MonthOf(y, m) \in Dates
         /\ MonthOf(y, m).day = 1
         /\ m # 13 => MonthOf(y, m).year = y /\ MonthOf(y, m).month = m
         /\ m = 13 => MonthOf(y, m).year = y + 1 /\ MonthOf(y, m).month = 1
<1>1. CASE m = 13
  <2>1. MonthOf(y, m) = [year |-> y + 1, month |-> 1, day |-> 1]
    BY <1>1 DEF MonthOf, Day
  <2>2. DaysIn(y + 1, 1) \in 28..31
    BY DaysInType
  <2> QED BY <1>1, <2>1, <2>2 DEF Dates
<1>2. CASE m # 13
  <2>1. MonthOf(y, m) = [year |-> y, month |-> m, day |-> 1] /\ m \in 1..12
    BY <1>2 DEF MonthOf, Day
  <2>2. DaysIn(y, m) \in 28..31
    BY <2>1, DaysInType
  <2> QED BY <1>2, <2>1, <2>2 DEF Dates
<1> QED BY <1>1, <1>2

\* time.Date carries an excess of at most one month's days over: the result is
\* a date of the month asked for or of the one after it.
LEMMA NormalisedType ==
  ASSUME NEW y \in Nat, NEW m \in 1..13, NEW d \in 1..32
  PROVE  /\ Normalised(y, m, d) \in Dates
         /\ \/ MonthOf(y, m).year < Normalised(y, m, d).year
            \/ /\ MonthOf(y, m).year = Normalised(y, m, d).year
               /\ MonthOf(y, m).month <= Normalised(y, m, d).month
<1> DEFINE first == MonthOf(y, m)
           after == MonthOf(first.year, first.month + 1)
<1>1. first \in Dates
  BY MonthOfType
<1>2. first.year \in Nat /\ first.month \in 1..12
  BY <1>1 DEF Dates
<1>3. /\ after \in Dates
      /\ \/ first.year < after.year
         \/ first.year = after.year /\ first.month < after.month
  <2>1. PICK k \in 1..13 : k = first.month + 1
    BY <1>2
  <2>2. /\ MonthOf(first.year, k) \in Dates
        /\ k # 13 => MonthOf(first.year, k).year = first.year
                     /\ MonthOf(first.year, k).month = k
        /\ k = 13 => MonthOf(first.year, k).year = first.year + 1
    BY <1>2, MonthOfType
  <2> HIDE DEF first
  <2> QED BY <1>2, <2>1, <2>2
<1>4. DaysIn(first.year, first.month) \in 28..31
  BY <1>2, DaysInType
<1>5. after.year \in Nat /\ after.month \in 1..12
  BY <1>3 DEF Dates
<1>6. DaysIn(after.year, after.month) \in 28..31
  BY <1>5, DaysInType
<1>7. CASE d <= DaysIn(first.year, first.month)
  <2>1. Normalised(y, m, d) = [year |-> first.year, month |-> first.month, day |-> d]
    BY <1>7 DEF Normalised, Day
  <2> QED BY <1>2, <1>4, <1>7, <2>1 DEF Dates
<1>8. CASE ~(d <= DaysIn(first.year, first.month))
  <2>1. Normalised(y, m, d) = [year |-> after.year, month |-> after.month,
                               day |-> d - DaysIn(first.year, first.month)]
    BY <1>8 DEF Normalised, Day
  <2>2. d - DaysIn(first.year, first.month) \in 1..4
    BY <1>4, <1>8
  <2> QED BY <1>2, <1>3, <1>5, <1>6, <2>1, <2>2 DEF Dates
<1> QED BY <1>7, <1>8

LEMMA NextDayType == ASSUME NEW t \in Dates PROVE NextDay(t) \in Dates
<1>1. t.year \in Nat /\ t.month \in 1..13 /\ t.day \in 1..31
  BY DEF Dates
<1>2. PICK d \in 1..32 : d = t.day + 1
  BY <1>1
<1>3. Normalised(t.year, t.month, d) \in Dates
  BY <1>1, NormalisedType
<1> QED BY <1>2, <1>3 DEF NextDay

\* AddDate(0, 1, 0) lands in a later month, if not always in the next one.
LEMMA NextMonthIsLater ==
  ASSUME NEW t \in Dates
  PROVE  /\ NextMonth(t) \in Dates
         /\ \/ t.year < NextMonth(t).year
            \/ t.year = NextMonth(t).year /\ t.month < NextMonth(t).month
<1>1. t.year \in Nat /\ t.month \in 1..12 /\ t.day \in 1..31
  BY DEF Dates
<1>2. PICK m \in 1..13, d \in 1..32 : m = t.month + 1 /\ d = t.day
  BY <1>1
<1> DEFINE first == MonthOf(t.year, m)
           next  == Normalised(t.year, m, d)
<1>3. NextMonth(t) = next
  BY <1>2 DEF NextMonth
<1>4. /\ next \in Dates
      /\ \/ first.year < next.year
         \/ first.year = next.year /\ first.month <= next.month
  BY <1>1, NormalisedType
<1>5. /\ first \in Dates
      /\ m # 13 => first.year = t.year /\ first.month = m
      /\ m = 13 => first.year = t.year + 1
  BY <1>1, MonthOfType
<1>6. next.year \in Nat /\ next.month \in 1..12 /\ first.year \in Nat /\ first.month \in 1..12
  BY <1>4, <1>5 DEF Dates
<1> HIDE DEF first, next
<1> QED BY <1>1, <1>2, <1>3, <1>4, <1>5, <1>6

\* A due day clamped to a month is a date of that month.
LEMMA ClampedInType ==
  ASSUME NEW t \in Dates, NEW n \in 1..31
  PROVE  /\ ClampedIn(t, n) \in Dates
         /\ ClampedIn(t, n).year = t.year /\ ClampedIn(t, n).month = t.month
<1>1. t.year \in Nat /\ t.month \in 1..12
  BY DEF Dates
<1>2. DaysIn(t.year, t.month) \in 28..31
  BY <1>1, DaysInType
<1> DEFINE day == IF n > DaysIn(t.year, t.month) THEN DaysIn(t.year, t.month) ELSE n
<1>3. ClampedIn(t, n) = [year |-> t.year, month |-> t.month, day |-> day]
  BY DEF ClampedIn, Day
<1>4. day \in 1..31 /\ day <= DaysIn(t.year, t.month)
  BY <1>2
<1> QED BY <1>1, <1>3, <1>4 DEF Dates

\* The due date computed on a day is not before that day, whatever the due day -
\* also where it is not the next one (see Overflows).
LEMMA DueDateIsNotOver ==
  ASSUME NEW now \in Dates, NEW dueDay \in Int
  PROVE  /\ ComputeClientDueDate(now, dueDay) \in Dates
         /\ ~Before(ComputeClientDueDate(now, dueDay), now)
<1> DEFINE wanted == IF dueDay < 1 THEN now.day ELSE IF dueDay > 31 THEN 31 ELSE dueDay
           d      == ClampedIn(now, wanted)
           later  == ClampedIn(NextMonth(now), wanted)
<1>1. wanted \in 1..31
  BY DEF Dates
<1>2. d \in Dates
  BY <1>1, ClampedInType
<1>3. NextMonth(now) \in Dates
  BY NextMonthIsLater
<1>4. /\ later \in Dates
      /\ later.year = NextMonth(now).year /\ later.month = NextMonth(now).month
  BY <1>1, <1>3, ClampedInType
<1>5. ~Before(later, now)
  <2>1. now.year < later.year \/ (now.year = later.year /\ now.month < later.month)
    BY <1>4, NextMonthIsLater
  <2>2. now.year \in Nat /\ later.year \in Nat /\ now.month \in Nat /\ later.month \in Nat
    BY <1>4 DEF Dates
  <2> QED BY <2>1, <2>2 DEF Before
<1>6. ComputeClientDueDate(now, dueDay) = IF Before(d, now) THEN later ELSE d
  BY DEF ComputeClientDueDate
<1> QED BY <1>2, <1>4, <1>5, <1>6

LEMMA PeriodOfType == ASSUME NEW t \in Dates PROVE PeriodOf(t) \in Dates
<1>1. t.year \in Nat /\ t.month \in 1..12
  BY DEF Dates
<1>2. DaysIn(t.year, t.month) \in 28..31
  BY <1>1, DaysInType
<1> QED BY <1>1, <1>2 DEF PeriodOf, Day, Dates

\* ClampedIn asks only for the month of a date.
LEMMA ClampedInMonth ==
  ASSUME NEW s, NEW t, s.year = t.year, s.month = t.month, NEW n
  PROVE  ClampedIn(s, n) = ClampedIn(t, n)
BY DEF ClampedIn

\* Two dates of one month that fall on the same due day are the same.
LEMMA OneDueDayAMonth ==
  ASSUME NEW s \in Dates, NEW t \in Dates, NEW n, IsDueOn(s, n), IsDueOn(t, n), PeriodOf(s) = PeriodOf(t)
  PROVE  s = t
<1>1. PeriodOf(s).year = s.year /\ PeriodOf(s).month = s.month /\ PeriodOf(t).year = t.year /\ PeriodOf(t).month = t.month
  BY DEF PeriodOf, Day
<1> QED BY <1>1, ClampedInMonth DEF IsDueOn

\* The days of this month and the next: unless today does not exist in the next
\* month, AddDate(0, 1, 0) lands in it.
LEMMA NextMonthFollows ==
  ASSUME NEW t \in Dates, ~Overflows(t)
  PROVE  NextMonth(t).year = FollowingMonth(t).year /\ NextMonth(t).month = FollowingMonth(t).month
<1> DEFINE first == FollowingMonth(t)
<1>1. t.day <= DaysIn(first.year, first.month)
  <2>1. t.year \in Nat /\ t.month \in 1..12 /\ t.day \in Nat
    BY DEF Dates
  <2>2. PICK m \in 1..13 : m = t.month + 1
    BY <2>1
  <2>3. first = MonthOf(t.year, m) /\ first \in Dates
    BY <2>1, <2>2, MonthOfType DEF FollowingMonth
  <2>4. DaysIn(first.year, first.month) \in Nat
    BY <2>3, DaysInType DEF Dates
  <2> QED BY <2>1, <2>4 DEF Overflows
<1>2. NextMonth(t) = Day(first.year, first.month, t.day)
  BY <1>1 DEF NextMonth, Normalised, FollowingMonth
<1> HIDE DEF first
<1> QED BY <1>2 DEF Day, first

\* The month after a date's is later, and is a date.
LEMMA FollowingMonthIsLater ==
  ASSUME NEW t \in Dates
  PROVE  /\ FollowingMonth(t) \in Dates
         /\ \/ t.year < FollowingMonth(t).year
            \/ t.year = FollowingMonth(t).year /\ t.month < FollowingMonth(t).month
<1>1. t.year \in Nat /\ t.month \in 1..12
  BY DEF Dates
<1>2. PICK m \in 1..13 : m = t.month + 1
  BY <1>1
<1>3. FollowingMonth(t) = MonthOf(t.year, m)
  BY <1>2 DEF FollowingMonth
<1>4. MonthOf(t.year, m) \in Dates /\ (m # 13 => MonthOf(t.year, m).year = t.year /\ MonthOf(t.year, m).month = m)
      /\ (m = 13 => MonthOf(t.year, m).year = t.year + 1)
  BY <1>1, MonthOfType
<1> QED BY <1>1, <1>2, <1>3, <1>4

\* computeClientDueDate finds the first due day from now on, for every date that
\* exists in the month after it and every due day.
LEMMA ComputesTheNext ==
  ASSUME NEW now \in Dates, ~Overflows(now), NEW n \in 1..31
  PROVE  ComputeClientDueDate(now, n) = NextDueDate(now, n)
<1> DEFINE d == ClampedIn(now, n)
           e == ClampedIn(FollowingMonth(now), n)
           upcoming == {t \in {d, e} : ~Before(t, now)}
<1>1. ComputeClientDueDate(now, n) = IF Before(d, now) THEN e ELSE d
  <2>1. ClampedIn(NextMonth(now), n) = e
    BY NextMonthFollows, ClampedInMonth
  <2> QED BY <2>1 DEF ComputeClientDueDate
<1>2. /\ d \in Dates /\ d.year = now.year /\ d.month = now.month
      /\ e \in Dates /\ e.year = FollowingMonth(now).year /\ e.month = FollowingMonth(now).month
  BY ClampedInType, FollowingMonthIsLater
<1>3. NextDueDate(now, n) = CHOOSE t \in upcoming : \A u \in upcoming : ~Before(u, t)
  BY DEF NextDueDate
<1> HIDE DEF d, e
<1>4. /\ d.year \in Nat /\ d.month \in Nat /\ d.day \in Nat /\ e.year \in Nat /\ e.month \in Nat
      /\ now.year \in Nat /\ now.month \in Nat
  BY <1>2 DEF Dates
<1>5. Before(d, e) /\ ~Before(e, d) /\ ~Before(d, d) /\ ~Before(e, now)
  BY <1>2, <1>4, FollowingMonthIsLater DEF Before
<1>6. CASE Before(d, now)
  <2>1. upcoming = {e}
    BY <1>5, <1>6
  <2>2. ~Before(e, e)
    BY <1>2 DEF Before, Dates
  <2> HIDE DEF upcoming
  <2>3. (CHOOSE t \in upcoming : \A u \in upcoming : ~Before(u, t)) = e
    BY <2>1, <2>2
  <2> QED BY <1>1, <1>3, <1>6, <2>3
<1>7. CASE ~Before(d, now)
  <2>1. upcoming = {d, e}
    BY <1>5, <1>7
  <2> HIDE DEF upcoming
  <2>2. \A t \in upcoming : (\A u \in upcoming : ~Before(u, t)) <=> t = d
    BY <1>5, <2>1
  <2>3. (CHOOSE t \in upcoming : \A u \in upcoming : ~Before(u, t)) = d
    BY <2>1, <2>2
  <2> QED BY <1>1, <1>3, <1>7, <2>3
<1> QED BY <1>6, <1>7

\* The day after today is of this month, or the first of the next.
LEMMA NextDayIs ==
  ASSUME NEW t \in Dates
  PROVE  \/ t.day < DaysIn(t.year, t.month) /\ NextDay(t) = Day(t.year, t.month, t.day + 1)
         \/ t.day = DaysIn(t.year, t.month) /\ NextDay(t) = FollowingMonth(t) /\ FollowingMonth(t).day = 1
<1>1. t.year \in Nat /\ t.month \in 1..12 /\ t.day \in 1..31 /\ t.day <= DaysIn(t.year, t.month)
  BY DEF Dates
<1>2. DaysIn(t.year, t.month) \in 28..31
  BY <1>1, DaysInType
<1>3. MonthOf(t.year, t.month) = Day(t.year, t.month, 1)
  BY <1>1 DEF MonthOf
<1>4. MonthOf(t.year, t.month).year = t.year /\ MonthOf(t.year, t.month).month = t.month
  BY <1>3 DEF Day
<1>5. CASE t.day < DaysIn(t.year, t.month)
  <2>1. t.day + 1 <= DaysIn(t.year, t.month)
    BY <1>1, <1>2, <1>5
  <2> QED BY <1>4, <1>5, <2>1 DEF NextDay, Normalised
<1>6. CASE t.day = DaysIn(t.year, t.month)
  <2>1. ~(t.day + 1 <= DaysIn(t.year, t.month)) /\ (t.day + 1) - DaysIn(t.year, t.month) = 1
    BY <1>1, <1>2, <1>6
  <2>2. NextDay(t) = Day(FollowingMonth(t).year, FollowingMonth(t).month, 1)
    <3> DEFINE f == MonthOf(t.year, t.month)
               d == t.day + 1
    <3>1. NextDay(t) = IF d <= DaysIn(f.year, f.month) THEN Day(f.year, f.month, d)
                       ELSE Day(MonthOf(f.year, f.month + 1).year, MonthOf(f.year, f.month + 1).month,
                                d - DaysIn(f.year, f.month))
      BY DEF NextDay, Normalised
    <3>2. MonthOf(f.year, f.month + 1) = FollowingMonth(t) /\ DaysIn(f.year, f.month) = DaysIn(t.year, t.month)
      BY <1>4 DEF FollowingMonth
    <3>3. ~(d <= DaysIn(f.year, f.month)) /\ d - DaysIn(f.year, f.month) = 1
      BY <2>1, <3>2
    <3> HIDE DEF f, d
    <3> QED BY <3>1, <3>2, <3>3
  <2>3. FollowingMonth(t) = Day(FollowingMonth(t).year, FollowingMonth(t).month, 1) /\ FollowingMonth(t).day = 1
    BY DEF FollowingMonth, MonthOf, Day
  <2> QED BY <1>6, <2>2, <2>3
<1> QED BY <1>1, <1>2, <1>5, <1>6

\* The due date computed on a due day, or the day before it, is that day - but for due
\* day 1 after a month that is longer.
LEMMA DueOnTheDay ==
  ASSUME NEW now \in Dates, NEW t \in Dates, NEW n \in 1..31, IsDueOn(t, n),
         t = now \/ t = NextDay(now), n > 1 \/ ~FollowsLongerMonth(t)
  PROVE  ComputeClientDueDate(now, n) = t
<1> DEFINE d == ClampedIn(now, n)
<1>1. ComputeClientDueDate(now, n) = IF Before(d, now) THEN ClampedIn(NextMonth(now), n) ELSE d
  BY DEF ComputeClientDueDate
<1>2. t = ClampedIn(t, n)
  BY DEF IsDueOn
<1>3. now.year \in Nat /\ now.month \in 1..12 /\ now.day \in 1..31
  BY DEF Dates
<1>4. CASE t = now
  BY <1>1, <1>2, <1>3, <1>4 DEF Before
<1>5. CASE now.day < DaysIn(now.year, now.month) /\ t = Day(now.year, now.month, now.day + 1)
  <2>1. t.year = now.year /\ t.month = now.month /\ t.day = now.day + 1
    BY <1>5 DEF Day
  <2>2. d = t
    BY <1>2, <2>1, ClampedInMonth
  <2> HIDE DEF d
  <2>3. ~Before(d, now)
    BY <1>3, <2>1, <2>2 DEF Before
  <2> QED BY <1>1, <2>2, <2>3
<1>6. CASE now.day = DaysIn(now.year, now.month) /\ t = FollowingMonth(now) /\ t.day = 1
  <2>1. DaysIn(now.year, now.month) \in 28..31 /\ DaysIn(t.year, t.month) \in 28..31
    BY <1>3, DaysInType DEF Dates
  <2>2. n = 1
    <3>1. ClampedIn(t, n).day = IF n > DaysIn(t.year, t.month) THEN DaysIn(t.year, t.month) ELSE n
      BY DEF ClampedIn, Day
    <3> QED BY <1>2, <1>6, <2>1, <3>1
  <2>3. d.year = now.year /\ d.month = now.month /\ d.day = 1
    BY <2>1, <2>2 DEF ClampedIn, Day
  <2> HIDE DEF d
  <2>4. Before(d, now)
    BY <1>3, <1>6, <2>1, <2>3 DEF Before
  <2>5. ~Overflows(now)
    <3>1. CASE now.month = 12
      <4>1. t.month = 1 /\ DaysIn(now.year, now.month) = 31
        BY <1>6, <3>1 DEF FollowingMonth, MonthOf, Day, DaysIn
      <4>2. DaysIn(t.year, t.month) = 31
        BY <4>1 DEF DaysIn
      <4> QED BY <1>6, <4>1, <4>2 DEF Overflows
    <3>2. CASE now.month # 12
      <4>1. t.year = now.year /\ t.month = now.month + 1
        BY <1>3, <1>6, <3>2 DEF FollowingMonth, MonthOf, Day
      <4>2. t.month # 1 /\ t.month - 1 = now.month
        BY <1>3, <4>1
      <4>3. ~(DaysIn(now.year, now.month) > DaysIn(t.year, t.month))
        BY <2>2, <4>1, <4>2 DEF FollowsLongerMonth
      <4> QED BY <1>6, <2>1, <4>3 DEF Overflows
    <3> QED BY <3>1, <3>2
  <2>6. ClampedIn(NextMonth(now), n) = ClampedIn(t, n)
    BY <1>6, <2>5, NextMonthFollows, ClampedInMonth
  <2> QED BY <1>1, <1>2, <2>4, <2>6
<1> QED BY <1>4, <1>5, <1>6, NextDayIs

\* Every due date computed falls on the due day of its month.
LEMMA DueDatesAreDueDays ==
  ASSUME NEW now \in Dates, NEW n \in 1..31
  PROVE  IsDueOn(ComputeClientDueDate(now, n), n)
<1>1. ASSUME NEW s \in Dates PROVE ClampedIn(ClampedIn(s, n), n) = ClampedIn(s, n)
  <2>1. ClampedIn(s, n).year = s.year /\ ClampedIn(s, n).month = s.month
    BY ClampedInType
  <2> QED BY <2>1 DEF ClampedIn
<1>2. NextMonth(now) \in Dates
  BY NextMonthIsLater
<1> QED BY <1>1, <1>2 DEF ComputeClientDueDate, IsDueOn

-----------------------------------------------------------------------------
(***************************************************************************)
(* The invariants.                                                         *)
(***************************************************************************)

\* The part of TypeOK that concerns dates and invoices.
DateType ==
  /\ today \in Dates
  /\ tomorrow \in Dates
  /\ nextRun \in Dates
  /\ invoices \in [Client -> SUBSET Invoice]
  /\ examined \in [Client -> Dates \union {Never}]

IInv == DateType /\ NotOverdueWhenMade

LEMMA InitEstablishes ==
  ASSUME Init PROVE IInv
BY DayAssumption DEF Init, IInv, DateType, NotOverdueWhenMade

\* Generating an invoice, by the job or by hand, preserves what is said of the
\* invoices: the new one is of a new period, and due today or later unless it
\* is the first of a template client.
LEMMA GeneratePreserves ==
  ASSUME IInv, NEW c \in Client, GenerateMonthlyInvoice(c)
  PROVE  /\ invoices' \in [Client -> SUBSET Invoice]
         /\ NotOverdueWhenMade'
<1> DEFINE due == DueDateOf(c)
           inv == [period |-> PeriodOf(due), due |-> due, made |-> today]
<1>1. /\ due \in Dates
      /\ ~Before(due, today) \/ (c \in Template /\ due = Created[c])
  <2>1. CASE c \in Template /\ invoices[c] = {}
    BY <2>1, ClientAssumption DEF DueDateOf
  <2>2. CASE ~(c \in Template /\ invoices[c] = {})
    <3>1. due = ComputeClientDueDate(today, DueDay[c])
      BY <2>2 DEF DueDateOf
    <3>2. DueDay[c] \in Int
      BY ClientAssumption
    <3>3. today \in Dates
      BY DEF IInv, DateType
    <3> QED BY <3>1, <3>2, <3>3, DueDateIsNotOver
  <2> QED BY <2>1, <2>2
<1>2. inv \in Invoice
  BY <1>1, PeriodOfType DEF Invoice, IInv, DateType
<1>3. inv.due = due /\ inv.made = today /\ inv.period = PeriodOf(due)
  OBVIOUS
<1>4. CASE ExistsForPeriod(c, inv.period)
  BY <1>4 DEF GenerateMonthlyInvoice, IInv, DateType, NotOverdueWhenMade
<1>5. CASE ~ExistsForPeriod(c, inv.period)
  <2>1. invoices' = [invoices EXCEPT ![c] = @ \union {inv}]
    BY <1>5 DEF GenerateMonthlyInvoice
  <2> HIDE DEF inv, due
  <2>2. invoices' \in [Client -> SUBSET Invoice]
    BY <1>2, <2>1 DEF IInv, DateType
  <2>3. \A k \in Client : \A i \in invoices'[k] :
          i \in invoices[k] \/ (k = c /\ i = inv)
    BY <2>1 DEF IInv, DateType
  <2>4. NotOverdueWhenMade'
    BY <1>1, <1>3, <2>3 DEF IInv, NotOverdueWhenMade
  <2> QED BY <2>2, <2>4
<1> QED BY <1>4, <1>5

\* Every step preserves the invariant.
LEMMA StepPreserves ==
  ASSUME IInv, [Next]_vars PROVE IInv'
<1> USE DEF IInv
<1>1. ASSUME NEW c \in Client, GenerateByHand(c) PROVE IInv'
  BY <1>1, GeneratePreserves DEF GenerateByHand, DateType, clock, goroutine
<1>2. ASSUME NEW c \in Client, HandleClient(c) PROVE IInv'
  <2>1. DateType'
    BY <1>2, GeneratePreserves DEF HandleClient, DateType, clock
  <2>2. NotOverdueWhenMade'
    BY <1>2, GeneratePreserves DEF HandleClient, NotOverdueWhenMade
  <2> QED BY <2>1, <2>2
<1>3. ASSUME UNCHANGED invoices PROVE NotOverdueWhenMade'
  BY <1>3 DEF NotOverdueWhenMade
<1>4. NextDay(today) \in Dates
  BY NextDayType DEF DateType
<1>5. ASSUME NEW c \in Client, FailClient(c) PROVE IInv'
  BY <1>3, <1>5 DEF FailClient, DateType, clock
<1>6. CASE Startup \/ TimerFires
  BY <1>3, <1>4, <1>6 DEF Startup, TimerFires, BeginJob, DateType, clock
<1>7. CASE EndJob
  BY <1>3, <1>4, <1>7 DEF EndJob, DateType, clock
<1>8. CASE Crash
  BY <1>3, <1>8 DEF Crash, DateType, clock
<1>9. CASE Tick
  BY <1>3, <1>4, <1>9 DEF Tick, DateType, goroutine
<1>10. CASE WindowOver \/ UNCHANGED vars
  BY <1>3, <1>10 DEF WindowOver, vars, clock, goroutine, DateType
<1> QED
  BY <1>1, <1>2, <1>5, <1>6, <1>7, <1>8, <1>9, <1>10 DEF Next

LEMMA Invariance == Spec => []IInv
<1>1. Init => IInv
  BY InitEstablishes
<1>2. IInv /\ [Next]_vars => IInv'
  BY StepPreserves
<1> QED BY <1>1, <1>2, PTL DEF Spec

\* No invoice was past its due date when it was made, but for the first one of a
\* template client.
THEOREM InvoicesAreMadeInTime == Spec => []NotOverdueWhenMade
BY Invariance, PTL DEF IInv

-----------------------------------------------------------------------------
(***************************************************************************)
(* Invoices before the due day.                                            *)
(***************************************************************************)

\* Every invoice of a client without a template is of the month of its due date, and due
\* on the client's due day.
DueOnDueDays ==
  \A c \in Client \ Template : \A inv \in invoices[c] :
    inv.period = PeriodOf(inv.due) /\ IsDueOn(inv.due, DueDay[c])

\* A job is about the day after the one it runs on; the one run at startup may have seen
\* midnight.  What it has to handle is due then.
JobDay ==
  /\ Working => tomorrow = NextDay(today) \/ (sched = "starting" /\ tomorrow = today)
  /\ \A c \in todo : Working /\ IsDueOn(tomorrow, DueDay[c])

\* A client a job handled for a day has the invoice due on it.
HandledHaveInvoice ==
  \A c \in Client \ Template :
    examined[c] # Never /\ (DueDay[c] > 1 \/ ~FollowsLongerMonth(examined[c]))
    => \E inv \in invoices[c] : inv.period = PeriodOf(examined[c]) /\ inv.due = examined[c]

DayInv == todo \subseteq Client /\ DueOnDueDays /\ JobDay /\ HandledHaveInvoice

\* An invoice that is generated is due on a due day, and none is taken away.
LEMMA GenerateOnDueDays ==
  ASSUME IInv, DueOnDueDays, NEW c \in Client, GenerateMonthlyInvoice(c)
  PROVE  DueOnDueDays' /\ \A k \in Client : invoices[k] \subseteq invoices'[k]
<1> DEFINE due == DueDateOf(c)
           inv == [period |-> PeriodOf(due), due |-> due, made |-> today]
<1>1. inv.due = due /\ inv.period = PeriodOf(due)
  OBVIOUS
<1>2. c \notin Template => IsDueOn(due, DueDay[c])
  BY DueDatesAreDueDays, ClientAssumption DEF DueDateOf, IInv, DateType
<1>3. invoices' = invoices \/ invoices' = [invoices EXCEPT ![c] = @ \union {inv}]
  BY DEF GenerateMonthlyInvoice
<1> HIDE DEF due, inv
<1>4. \A k \in Client : invoices[k] \subseteq invoices'[k] /\ \A i \in invoices'[k] : i \in invoices[k] \/ (k = c /\ i = inv)
  BY <1>3 DEF IInv, DateType
<1>5. DueOnDueDays'
  BY <1>1, <1>2, <1>4 DEF DueOnDueDays
<1> QED BY <1>4, <1>5

\* Generating when the due date is the day t leaves an invoice of the period of t.
LEMMA GenerateMakesIt ==
  ASSUME IInv, NEW c \in Client, GenerateMonthlyInvoice(c), NEW t, DueDateOf(c) = t
  PROVE  \E inv \in invoices'[c] : inv.period = PeriodOf(t)
<1> DEFINE inv == [period |-> PeriodOf(t), due |-> t, made |-> today]
<1>1. inv.period = PeriodOf(t)
  OBVIOUS
<1>2. invoices' = IF ExistsForPeriod(c, inv.period) THEN invoices
                  ELSE [invoices EXCEPT ![c] = @ \union {inv}]
  BY DEF GenerateMonthlyInvoice
<1> HIDE DEF inv
<1> QED BY <1>1, <1>2 DEF ExistsForPeriod, IInv, DateType

\* The job handles a client: the invoice of the day is there, from before or from now.
LEMMA HandleDay ==
  ASSUME IInv, DayInv, NEW c \in Client, HandleClient(c)
  PROVE  DayInv'
<1>1. /\ todo' = todo \ {c} /\ UNCHANGED <<today, sched, tomorrow>> /\ c \in todo /\ Working
      /\ examined' = [examined EXCEPT ![c] = tomorrow]
      /\ IF ExistsForPeriod(c, PeriodOf(tomorrow)) THEN UNCHANGED invoices ELSE GenerateMonthlyInvoice(c)
  BY DEF HandleClient, clock
<1>2. JobDay' /\ todo' \subseteq Client
  BY <1>1 DEF DayInv, JobDay, Working
<1>3. DueOnDueDays' /\ \A k \in Client : invoices[k] \subseteq invoices'[k]
  <2>1. CASE ExistsForPeriod(c, PeriodOf(tomorrow))
    BY <1>1, <2>1 DEF DayInv, DueOnDueDays
  <2>2. CASE ~ExistsForPeriod(c, PeriodOf(tomorrow))
    BY <1>1, <2>2, GenerateOnDueDays DEF DayInv
  <2> QED BY <2>1, <2>2
<1>4. /\ tomorrow \in Dates /\ today \in Dates /\ IsDueOn(tomorrow, DueDay[c])
      /\ tomorrow = today \/ tomorrow = NextDay(today)
  BY <1>1 DEF IInv, DateType, DayInv, JobDay
<1>5. ASSUME c \notin Template, DueDay[c] > 1 \/ ~FollowsLongerMonth(tomorrow)
      PROVE  \E inv \in invoices'[c] : inv.period = PeriodOf(tomorrow) /\ inv.due = tomorrow
  <2>1. PICK inv \in invoices'[c] : inv.period = PeriodOf(tomorrow)
    <3>1. CASE ExistsForPeriod(c, PeriodOf(tomorrow))
      BY <1>1, <3>1 DEF ExistsForPeriod
    <3>2. CASE ~ExistsForPeriod(c, PeriodOf(tomorrow))
      <4>1. DueDateOf(c) = tomorrow
        BY <1>4, <1>5, DueOnTheDay, ClientAssumption DEF DueDateOf
      <4> QED BY <1>1, <3>2, <4>1, GenerateMakesIt
    <3> QED BY <3>1, <3>2
  <2>2. inv.period = PeriodOf(inv.due) /\ IsDueOn(inv.due, DueDay[c])
    BY <1>3, <1>5 DEF DueOnDueDays
  <2>3. inv.due \in Dates
    <3>1. invoices' \in [Client -> SUBSET Invoice]
      BY <1>1, GeneratePreserves DEF IInv, DateType
    <3> QED BY <3>1 DEF Invoice
  <2>4. inv.due = tomorrow
    BY <1>4, <2>1, <2>2, <2>3, OneDueDayAMonth
  <2> QED BY <2>1, <2>4
<1>6. HandledHaveInvoice'
  <2> SUFFICES ASSUME NEW k \in Client \ Template, examined'[k] # Never,
                      DueDay[k] > 1 \/ ~FollowsLongerMonth(examined'[k])
               PROVE  \E inv \in invoices'[k] : inv.period = PeriodOf(examined'[k]) /\ inv.due = examined'[k]
    BY DEF HandledHaveInvoice
  <2>1. CASE k = c
    <3>1. examined'[k] = tomorrow
      BY <1>1, <2>1 DEF IInv, DateType
    <3> QED BY <1>5, <2>1, <3>1
  <2>2. CASE k # c
    <3>1. examined'[k] = examined[k]
      BY <1>1, <2>2 DEF IInv, DateType
    <3> QED BY <1>3, <3>1 DEF DayInv, HandledHaveInvoice
  <2> QED BY <2>1, <2>2
<1> QED BY <1>2, <1>3, <1>6 DEF DayInv

\* An invoice made by hand adds to those there are.
LEMMA ByHandDay ==
  ASSUME IInv, DayInv, NEW c \in Client, GenerateByHand(c)
  PROVE  DayInv'
<1>1. UNCHANGED <<today, sched, tomorrow, todo, examined>> /\ GenerateMonthlyInvoice(c)
  BY DEF GenerateByHand, clock, goroutine
<1>2. DueOnDueDays' /\ \A k \in Client : invoices[k] \subseteq invoices'[k]
  BY <1>1, GenerateOnDueDays DEF DayInv
<1>3. HandledHaveInvoice'
  BY <1>1, <1>2 DEF DayInv, HandledHaveInvoice
<1> QED BY <1>1, <1>2, <1>3 DEF DayInv, JobDay, Working

\* DayInv is inductive under IInv.
LEMMA StepDay == ASSUME IInv, DayInv, [Next]_vars PROVE DayInv'
<1>1. ASSUME UNCHANGED <<invoices, examined>> PROVE DueOnDueDays' /\ HandledHaveInvoice'
  BY <1>1 DEF DayInv, DueOnDueDays, HandledHaveInvoice
<1>2. ASSUME NEW c \in Client, HandleClient(c) PROVE DayInv'
  BY <1>2, HandleDay
<1>3. ASSUME NEW c \in Client, GenerateByHand(c) PROVE DayInv'
  BY <1>3, ByHandDay
<1>4. ASSUME NEW c \in Client, FailClient(c) PROVE DayInv'
  BY <1>1, <1>4 DEF FailClient, clock, DayInv, JobDay, Working
<1>5. CASE Startup \/ TimerFires
  <2>1. /\ UNCHANGED <<invoices, examined, today>> /\ tomorrow' = NextDay(today)
        /\ todo' = {c \in Client : IsDueOn(NextDay(today), DueDay[c])} /\ sched' \in {"starting", "running"}
    BY <1>5 DEF Startup, TimerFires, BeginJob, clock
  <2>2. JobDay' /\ todo' \subseteq Client
    BY <2>1 DEF JobDay, Working
  <2> QED BY <1>1, <2>1, <2>2 DEF DayInv
<1>6. CASE EndJob \/ Crash
  <2>1. UNCHANGED <<invoices, examined>> /\ todo' = {} /\ sched' \in {"waiting", "down"}
    BY <1>6 DEF EndJob, Crash
  <2> QED BY <1>1, <2>1 DEF DayInv, JobDay, Working
<1>7. CASE Tick
  <2>1. UNCHANGED <<invoices, examined, sched, tomorrow, todo>>
    BY <1>7 DEF Tick, goroutine
  <2>2. Working => sched = "starting" /\ (early \/ tomorrow = NextDay(today))
    BY <1>7 DEF Tick, MayPass, Working
  <2>3. today' = today \/ (~early /\ today' = NextDay(today))
    BY <1>7 DEF Tick
  <2>4. JobDay'
    BY <2>1, <2>2, <2>3 DEF DayInv, JobDay, Working
  <2> QED BY <1>1, <2>1, <2>4 DEF DayInv
<1>8. CASE WindowOver \/ UNCHANGED vars
  BY <1>1, <1>8 DEF WindowOver, vars, clock, goroutine, DayInv, JobDay, Working
<1> QED BY <1>2, <1>3, <1>4, <1>5, <1>6, <1>7, <1>8 DEF Next

\* The due date the service computes on any day that can be reached is the next one,
\* whatever the due day - unless today does not exist in the next month (computeClientDueDate).
THEOREM NextDueDatesAreComputed == Spec => []ComputesNextDueDate
<1>1. IInv => ComputesNextDueDate
  BY ComputesTheNext DEF IInv, DateType, ComputesNextDueDate
<1> QED BY <1>1, Invariance, PTL

\* A client that a job handled the day before its due day has, on that day, the invoice
\* that is due: across crashes in the middle of a job, jobs that run twice or past midnight,
\* invoices made by hand and the ends of months (runDailyInvoiceGeneration).
THEOREM InvoicesPrecedeTheirDueDay == Spec => []InvoicedBeforeDueDay
<1>1. Init => DayInv
  BY DEF Init, DayInv, DueOnDueDays, JobDay, HandledHaveInvoice, Working
<1>2. IInv /\ DayInv => InvoicedBeforeDueDay
  <2>1. \A t \in Dates : t # Never
    <3>1. Never.day = 0
      BY DEF Never, Day
    <3> QED BY <3>1 DEF Dates
  <2> QED BY <2>1 DEF IInv, DateType, DayInv, HandledHaveInvoice, InvoicedBeforeDueDay
<1> QED BY <1>1, <1>2, Invariance, StepDay, PTL DEF Spec

=============================================================================
