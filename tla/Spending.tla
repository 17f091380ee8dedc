------------------------------ MODULE Spending ------------------------------
(***************************************************************************)
(* What the financial health tools compute from transactions: cash flow,   *)
(* income, spending, the explanation of changes between two periods,       *)
(* anomalies and what became of them, and recurring expenses.              *)
(* Rows are records [id, date, amount, account, category, payee, transfer, *)
(* approved, cleared, deleted]; rows given to a tool are those of the API, *)
(* which sends what is not before the first month asked for.               *)
(***************************************************************************)
EXTENDS Figures

CONSTANT None   \* a field without a value

Amount(row) == row.amount
SpentIn(row) == -row.amount

Total(rows) == SumOf(Amount, rows)
TotalSpent(rows) == SumOf(SpentIn, rows)

\* What the tools have in common: booked within the months, and no transfer.
Booked(rows, from, to) ==
  {r \in rows : ~r.deleted /\ ~r.transfer /\ IsWithinMonthRange(r.date, from, to)}

Outflows(rows) == {r \in rows : r.amount < 0}
Inflows(rows)  == {r \in rows : r.amount >= 0}

Flow(rows) == [inflow |-> Total(Inflows(rows)), outflow |-> TotalSpent(Outflows(rows))]

MonthsBetweenThem(months, from, to) ==
  {m \in months : ~m.deleted /\ from <= m.month /\ m.month <= to}

InMonth(rows, month) == {r \in rows : MonthOf(r.date) = MonthOf(month)}

\* ynab_get_cash_flow_summary: periods are those of the cached list of months, the
\* totals count what was booked in other months, too.
CashFlow(rows, months, from, to) ==
  LET listed == MonthsBetweenThem(months, from, to)
      booked == Booked(rows, from, to)
      budgeted(m) == m.budgeted
      spent(m)    == Spent(m.activity)
  IN [total    |-> Flow(booked),
      assigned |-> SumOf(budgeted, listed),
      spent    |-> SumOf(spent, listed),
      periods  |-> [m \in {n.month : n \in listed} |-> Flow(InMonth(booked, m))]]

\* ynab_get_income_summary: by month, in hundredths, for the months asked for and
\* any other month that has some
IncomeSummary(rows, from, to, readyToAssign) ==
  LET income == {r \in Booked(rows, from, to) : r.amount > 0 /\ r.category = readyToAssign}
      keys   == ListMonthsInRange(from, to) \cup {MonthStart(MonthOf(r.date)) : r \in income}
      byKey  == [m \in keys |-> Total({r \in income : MonthStart(MonthOf(r.date)) = m})]
      value(m) == byKey[m]
      total  == SumOf(value, keys)
  IN [total |-> total, months |-> byKey, average |-> Round(total, Cardinality(keys)),
      byPayee |-> [p \in {r.payee : r \in income} |->
                     Total({r \in income : r.payee = p})]]

\* Rollups of addRollup; key is the function from a row to its category, group or payee.
Rollup(rows, key) ==
  [k \in {key[r] : r \in rows} |->
     [amount |-> TotalSpent({r \in rows : key[r] = k}),
      count  |-> Cardinality({r \in rows : key[r] = k})]]

By(rows, field) == [r \in rows |-> r[field]]

\* ynab_get_spending_summary; group is the lookup of buildCategoryGroupLookup
SpendingSummary(rows, months, from, to, group) ==
  LET spending == Outflows(Booked(rows, from, to))
      budgeted(m) == m.budgeted
  IN [assigned   |-> SumOf(budgeted, MonthsBetweenThem(months, from, to)),
      spent      |-> TotalSpent(spending),
      count      |-> Cardinality(spending),
      categories |-> Rollup(spending, By(spending, "category")),
      groups     |-> Rollup(spending, [r \in spending |-> group[r.category]]),
      payees     |-> Rollup(spending, By(spending, "payee"))]

\* ynab_get_monthly_review: the part that is computed from transactions
ReviewFlow(rows, month) ==
  LET booked == Booked(rows, month, month)
  IN [flow |-> [inflow |-> Total({r \in booked : r.amount > 0}),
                outflow |-> TotalSpent(Outflows(booked))],
      categories |-> Rollup(Outflows(booked), By(Outflows(booked), "category"))]

-----------------------------------------------------------------------------
\* Faulty variant: what counts for the first period does not for the second.
EitherPeriod(r, a, b) ==
  IF IsWithinMonthRange(r.date, a.from, a.to) THEN {"a"}
  ELSE IF IsWithinMonthRange(r.date, b.from, b.to) THEN {"b"} ELSE {}

\* The periods that a row counts for; they may overlap.
PeriodsOf(r, a, b) ==
  {p \in {"a", "b"} :
     LET range == IF p = "a" THEN a ELSE b
     IN IsWithinMonthRange(r.date, range.from, range.to)}

\* isRelevantSpendingTransaction. The category and the payee tool ask for one
\* category or payee on top of it.
RelevantSpending(rows) == {r \in rows : ~r.deleted /\ ~r.transfer /\ r.amount < 0}

\* Spent in the two periods: [a, b]
SpentByPeriod(rows, a, b) ==
  [p \in {"a", "b"} |-> TotalSpent({r \in rows : p \in PeriodsOf(r, a, b)})]

\* summarizeSpendingChange, summarizeCategoryChange and summarizePayeeSpike have
\* one shape: the two periods, and drivers by a field of the row. A driver whose
\* change is zero is not shown.
ExplainChange(rows, a, b, field) ==
  LET counted == {r \in RelevantSpending(rows) : PeriodsOf(r, a, b) # {}}
      drivers == [k \in {r[field] : r \in counted} |->
                    SpentByPeriod({r \in counted : r[field] = k}, a, b)]
  IN [spent   |-> SpentByPeriod(counted, a, b),
      drivers |-> [k \in {l \in DOMAIN drivers : drivers[l].a # drivers[l].b} |-> drivers[k]]]

ChangeOf(spent) == spent.b - spent.a

\* ynab_get_spending_change_explanation by category and by payee
SpendingChange(rows, a, b) ==
  [categories |-> ExplainChange(rows, a, b, "category"),
   payees     |-> ExplainChange(rows, a, b, "payee")]

\* ynab_get_category_change_explanation
CategoryChange(rows, a, b, category) ==
  ExplainChange({r \in rows : r.category = category}, a, b, "payee")

\* ynab_get_payee_spike_explanation
PayeeSpike(rows, a, b, payee) ==
  LET paid == {r \in rows : r.payee = payee}
  IN [categories |-> ExplainChange(paid, a, b, "category"),
      accounts   |-> ExplainChange(paid, a, b, "account")]

-----------------------------------------------------------------------------
\* The categories that the anomaly tools look at, in the latest month.
Watched(categories) == {c \in Visible(categories) : ~c.card}

\* What was spent on a category in all the months before.
SpentBefore(lookups, id) ==
  LET at(i) == IF id \in DOMAIN lookups[i] THEN lookups[i][id] ELSE 0
  IN SumOf(at, DOMAIN lookups)

\* buildSpendingAnomalies: latest are the categories of the latest month, lookups
\* the amounts spent by category in the months before (buildCategorySpentLookup).
\* threshold is a quotient <<multiple, of>>. What is shown of an anomaly is spent,
\* baseline and percent, which are rounded.
SpendingAnomalies(latest, lookups, threshold, minimum, topN) ==
  LET n == Len(lookups)
      before(c) == SpentBefore(lookups, c.id)
      spent(c)  == Spent(c.activity)
      excess(c) == n * spent(c) - before(c)
      flagged == {c \in latest :
        /\ n > 0
        /\ before(c) > 0
        /\ threshold[2] * n * spent(c) >= threshold[1] * before(c)
        /\ excess(c) >= n * minimum}
      precedes(c, d) == excess(c) > excess(d) \/ (excess(c) = excess(d) /\ c.id < d.id)
      shown == {c \in flagged : Cardinality({d \in flagged : precedes(d, c)}) < topN}
  IN {[id |-> c.id, spent |-> spent(c), baseline |-> Round(before(c), n),
       percent |-> Round(10000 * excess(c), before(c))] : c \in shown}

SpentLookup(categories) ==
  [id \in {c.id : c \in categories} |->
     Spent((CHOOSE c \in categories : c.id = id).activity)]

\* Faulty variant: an anomaly has changed when the amount spent has.
ChangedBySpent(current, previous) ==
  {e \in current : \E p \in previous : p.id = e.id /\ p.spent # e.spent}

\* getChangedAnomalies
ChangedAnomalies(current, previous) ==
  {e \in current : \E p \in previous :
     /\ p.id = e.id
     /\ \/ p.spent # e.spent
        \/ p.baseline # e.baseline
        \/ p.percent # e.percent}

AnomalyIds(anomalies) == {e.id : e \in anomalies}

\* ynab_get_updated_anomalies: what is answered of the current anomalies
UpdatedAnomalies(current, previous) ==
  [added   |-> {e \in current : e.id \notin AnomalyIds(previous)},
   removed |-> AnomalyIds(previous) \ AnomalyIds(current),
   changed |-> ChangedAnomalies(current, previous)]

-----------------------------------------------------------------------------
\* Faulty variant: two bookings are enough.
TwoAreEnough(rows) ==
  LET dates == {r.date : r \in rows}
      span  == Max(dates) - Min(dates)
      n     == Cardinality(rows) - 1
  IN n >= 1 /\ 25 * n <= span /\ span <= 35 * n

\* detectCadence of ynab_get_recurring_expense_summary: the average interval is
\* the whole span divided by the number of intervals.
IsMonthly(rows) ==
  LET dates == {r.date : r \in rows}
      span  == Max(dates) - Min(dates)
      n     == Cardinality(rows) - 1
  IN n >= 2 /\ 25 * n <= span /\ span <= 35 * n

\* ynab_get_recurring_expense_summary: the estimated monthly cost by payee
RecurringExpenses(rows, fromDate, toDate) ==
  LET spending == {r \in rows : ~r.deleted /\ ~r.transfer /\ r.amount < 0
                                  /\ fromDate <= r.date /\ r.date <= toDate}
      of(p)    == {r \in spending : r.payee = p}
      monthly  == {p \in {r.payee : r \in spending} : IsMonthly(of(p))}
  IN [p \in monthly |-> Round(TotalSpent(of(p)), Cardinality(of(p)))]
=============================================================================
