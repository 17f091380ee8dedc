------------------------------ MODULE Calendar ------------------------------
(***************************************************************************)
(* The dates of src/financeToolUtils.ts and of the tools that count with   *)
(* them. A date is the number of days since the first of January of a year *)
(* before every date in use, a month the number of months since then;      *)
(* leap days are left out. Some tools resolve the month "current", others  *)
(* hand it on to the API: that is in LedgerTools.                          *)
(***************************************************************************)
EXTENDS Integers, FiniteSets, FiniteSetsExt

DaysBefore == <<0, 31, 59, 90, 120, 151, 181, 212, 243, 273, 304, 334>>

MonthStart(n) == 365 * (n \div 12) + DaysBefore[(n % 12) + 1]

\* toMonthKey, and the month of a date given for a month.
MonthOf(date) ==
  12 * (date \div 365) + Cardinality({i \in 2 .. 12 : DaysBefore[i] <= (date % 365)})

\* Faulty variant: the month ends on its first day.
FirstDay(date) == MonthStart(MonthOf(date))

\* toMonthEnd: day zero of the next month.
MonthEnd(date) == MonthStart(MonthOf(date) + 1) - 1

\* addMonths, setUTCMonth: the day is kept, and what a short month lacks of it
\* runs over into the next.
AddMonths(date, k) == MonthStart(MonthOf(date) + k) + (date - MonthStart(MonthOf(date)))

\* isWithinMonthRange
IsWithinMonthRange(date, from, to) == from <= date /\ date <= MonthEnd(to)

\* The dates first, first + one month, ... up to the last one that is not after
\* limit: listMonthsInRange, and the loop of previousMonths.
MonthsFrom(first, limit) ==
  LET cursor[i \in Nat] == IF i = 0 THEN first ELSE AddMonths(cursor[i - 1], 1)
  IN {cursor[i] : i \in {j \in 0 .. (limit - first) \div 28 : cursor[j] <= limit}}

ListMonthsInRange(from, to) == MonthsFrom(from, to)

\* previousMonths
PreviousMonths(latest, count) == MonthsFrom(AddMonths(latest, -count), latest - 1)

-----------------------------------------------------------------------------
\* Frequencies of scheduled transactions: days or months between two dates.
DaysBetween ==
  [daily |-> 1, weekly |-> 7, everyOtherWeek |-> 14, twiceAMonth |-> 15,
   every4Weeks |-> 28]

MonthsBetween ==
  [monthly |-> 1, everyOtherMonth |-> 2, every3Months |-> 3, every4Months |-> 4,
   twiceAYear |-> 6, yearly |-> 12, everyOtherYear |-> 24]

Frequencies == {"never"} \cup DOMAIN DaysBetween \cup DOMAIN MonthsBetween

\* Faulty variant: a day is a day, also between two months.
FourWeeks(date, frequency) ==
  IF frequency \in DOMAIN DaysBetween THEN date + DaysBetween[frequency]
  ELSE date + 28 * MonthsBetween[frequency]

\* incrementScheduledDate, for everything but "never"
IncrementScheduledDate(date, frequency) ==
  IF frequency \in DOMAIN DaysBetween THEN date + DaysBetween[frequency]
  ELSE AddMonths(date, MonthsBetween[frequency])

\* The dates of a scheduled transaction up to a limit.
ScheduledDates(first, frequency, limit) ==
  LET cursor[i \in Nat] ==
        IF i = 0 THEN first ELSE IncrementScheduledDate(cursor[i - 1], frequency)
      steps == IF frequency \in DOMAIN DaysBetween
               THEN 0 .. (limit - first) \div DaysBetween[frequency]
               ELSE 0 .. (limit - first) \div 28
      dates == IF frequency = "never" THEN {first} ELSE {cursor[i] : i \in steps}
  IN {d \in dates : d <= limit}

\* expandScheduledOccurrences: the dates within so many days from a date on, of
\* one that is no transfer.
Occurrences(scheduled, asOf, windowDays) ==
  IF scheduled.transfer THEN {}
  ELSE {d \in ScheduledDates(scheduled.next, scheduled.frequency, asOf + windowDays) :
          d >= asOf}
=============================================================================
