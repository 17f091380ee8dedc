------------------------------ MODULE Figures ------------------------------
(***************************************************************************)
(* The figures that the financial health tools compute from accounts,      *)
(* plan months, categories and scheduled transactions: financeToolUtils,   *)
(* financialDiagnosticsUtils and the tools in features/financialHealth.    *)
(* Several of them are written twice in the code and twice here.           *)
(*                                                                         *)
(* An amount is a whole number of hundredths, the unit that                *)
(* formatMilliunits keeps apart, so formatting loses nothing. Quotients    *)
(* are compared by cross-multiplication or rounded as the code does.       *)
(* Collections are sets of records; lists of examples (topN) are left out. *)
(***************************************************************************)
EXTENDS Calendar, Sequences

Magnitude(n) == IF n < 0 THEN -n ELSE n

\* Math.round(a / b), b positive
Round(a, b) == (2 * a + b) \div (2 * b)

SumOf(of(_), S) == MapThenSumSet(of, S)

\* toSpentMilliunits
Spent(activity) == IF activity < 0 THEN -activity ELSE 0

-----------------------------------------------------------------------------
\* Accounts: [id, balance, onBudget, closed, deleted]

Balance(account) == account.balance
Debt(account)    == -account.balance

NotDeleted(accounts) == {a \in accounts : ~a.deleted}

Active(accounts) == {a \in accounts : ~a.deleted /\ ~a.closed}

Negative(accounts) == {a \in accounts : a.balance < 0}
Liquid(accounts)   == {a \in accounts : a.onBudget /\ a.balance > 0}

\* buildAccountSnapshotSummary, for ynab_get_financial_snapshot
FinancialSnapshot(accounts) ==
  [netWorth   |-> SumOf(Balance, Active(accounts)),
   liquidCash |-> SumOf(Balance, Liquid(Active(accounts))),
   debt       |-> SumOf(Debt, Negative(Active(accounts))),
   debtCount  |-> Cardinality(Negative(Active(accounts)))]

\* Faulty variant: off-budget money is cash.
AllCash(accounts) == SumOf(Balance, {a \in Active(accounts) : a.balance > 0})

\* financialDiagnosticsUtils
LiquidCash(accounts) == SumOf(Balance, Liquid(Active(accounts)))
TotalDebt(accounts)  == SumOf(Debt, Negative(Active(accounts)))
NetWorth(accounts)   == SumOf(Balance, Active(accounts))

\* ynab_get_debt_summary
DebtSummary(accounts) ==
  LET debt == TotalDebt(Active(accounts))
      cash == LiquidCash(Active(accounts))
  IN [debt   |-> debt,
      cash   |-> cash,
      count  |-> Cardinality(Negative(Active(accounts))),
      status |-> CASE debt = 0        -> "none"
                   [] debt # 0 /\ cash = 0 -> "high"
                   [] debt # 0 /\ cash # 0 /\ debt <= cash -> "manageable"
                   [] cash # 0 /\ debt > cash /\ debt <= 2 * cash -> "watch"
                   [] cash # 0 /\ debt > 2 * cash -> "high"]

\* Faulty variant: what was booked on the last day of a month is taken out.
FromMonthEnd(rows, month) == {r \in rows : r.date >= MonthEnd(month)}

AfterMonthEnd(rows, month) == {r \in rows : r.date > MonthEnd(month)}

\* reconstructHistoricalAccountBalances: the balance of each account less what was
\* booked after the month. The code goes backwards through the months and takes
\* out what is later than each.
BalancesAt(accounts, rows, month) ==
  LET later(a) == {r \in AfterMonthEnd(rows, month) : ~r.deleted /\ r.account = a.id}
      amount(r) == r.amount
  IN {[a EXCEPT !.balance = @ - SumOf(amount, later(a))] : a \in NotDeleted(accounts)}

\* ynab_get_net_worth_trajectory: unlike the others it counts closed accounts. The
\* API sends the rows that are not before the first month.
Trajectory(accounts, rows, from, to) ==
  LET sent == {r \in rows : r.date >= from}
  IN [m \in ListMonthsInRange(from, to) |->
        LET then == BalancesAt(accounts, sent, m)
        IN [netWorth   |-> SumOf(Balance, then),
            liquidCash |-> SumOf(Balance, Liquid(then)),
            debt       |-> SumOf(Debt, Negative(then))]]

-----------------------------------------------------------------------------
\* Plan months: [month, income, budgeted, activity, deleted]

\* recentMonths
RecentMonths(months, asOf, monthsBack) ==
  LET known == {m \in months : ~m.deleted /\ m.month <= asOf}
  IN {m \in known : Cardinality({n \in known : n.month > m.month}) < monthsBack}

\* averageMonthlySpendingMilliunits
AverageMonthlySpending(months) ==
  LET flow(m) == Magnitude(m.activity)
  IN IF months = {} THEN 0 ELSE Round(SumOf(flow, months), Cardinality(months))

\* Faulty variant: a part of a hundredth counts as a whole one.
DailyRoundedUp(months) == (AverageMonthlySpending(months) + 29) \div 30

\* averageDailyOutflowMilliunits
AverageDailyOutflow(months) == Round(AverageMonthlySpending(months), 30)

\* spreadPercent of the incomes is above the given percentage.
SpreadAbove(months, percent) ==
  LET income(m) == m.income
      total     == SumOf(income, months)
      incomes   == {m.income : m \in months}
  IN total # 0 /\ (Max(incomes) - Min(incomes)) * Cardinality(months) * 100 > percent * total

\* ynab_get_cash_runway: days of liquid cash
CashRunway(accounts, months, asOf, monthsBack) ==
  LET cash  == LiquidCash(accounts)
      daily == AverageDailyOutflow(RecentMonths(months, asOf, monthsBack))
  IN CASE daily = 0 -> "no_outflows"
       [] daily # 0 /\ cash >= 90 * daily -> "stable"
       [] cash < 90 * daily /\ cash >= 30 * daily -> "watch"
       [] cash < 30 * daily -> "urgent"

\* ynab_get_emergency_fund_coverage: months of liquid cash
EmergencyFundCoverage(accounts, months, asOf, monthsBack) ==
  LET cash    == LiquidCash(accounts)
      monthly == AverageMonthlySpending(RecentMonths(months, asOf, monthsBack))
  IN CASE monthly = 0 -> "no_spending"
       [] monthly # 0 /\ cash >= 6 * monthly -> "strong"
       [] cash < 6 * monthly /\ cash >= 3 * monthly -> "solid"
       [] cash < 3 * monthly /\ cash >= monthly -> "thin"
       [] cash < monthly -> "critical"

-----------------------------------------------------------------------------
\* Categories of a month: [id, group, card, hidden, deleted, budgeted, activity,
\* balance, goal, underfunded]

Visible(categories)     == {c \in categories : ~c.deleted /\ ~c.hidden}
Overspent(categories)   == {c \in categories : c.balance < 0}
Underfunded(categories) == {c \in categories : c.underfunded > 0}

UnderfundedBy(category) == category.underfunded
OverspentBy(category)   == -category.balance

\* buildBudgetHealthMonthSummary, for ynab_get_budget_health_summary and
\* ynab_get_monthly_review
BudgetHealth(detail) ==
  LET shown == Visible(detail.categories) IN
  [assigned    |-> detail.budgeted,
   spent       |-> Spent(detail.activity),
   available   |-> SumOf(Balance, {c \in shown : c.balance > 0}),
   overspentBy |-> SumOf(OverspentBy, Overspent(shown)),
   missing     |-> SumOf(UnderfundedBy, Underfunded(shown)),
   overspent   |-> Cardinality(Overspent(shown)),
   underfunded |-> Cardinality(Underfunded(shown))]

\* Faulty variant: hidden categories are looked at, too.
WithHidden(categories) ==
  LET kept == {c \in categories : ~c.deleted}
  IN [overspent |-> Overspent(kept), underfunded |-> Underfunded(kept)]

\* buildVisibleCategoryHealthSummary, for ynab_get_financial_health_check
VisibleCategoryHealth(categories) ==
  [overspent |-> Overspent(Visible(categories)),
   underfunded |-> Underfunded(Visible(categories))]

\* ynab_get_goal_progress_summary
GoalProgress(detail) ==
  LET goals == {c \in Visible(detail.categories) : c.goal} IN
  [goals    |-> Cardinality(goals),
   missing  |-> SumOf(UnderfundedBy, Underfunded(goals)),
   onTrack  |-> Cardinality({c \in goals : c.underfunded = 0}),
   offTrack |-> Cardinality(Underfunded(goals))]

\* ynab_get_category_trend_summary: one period, for a category or for a group
TrendPeriod(detail, chosen) ==
  LET matching == {c \in Visible(detail.categories) : c.id \in chosen}
      budgeted(c) == c.budgeted
      spent(c)    == Spent(c.activity)
  IN [assigned |-> SumOf(budgeted, matching), spent |-> SumOf(spent, matching),
      available |-> SumOf(Balance, matching)]

\* ynab_get_category_trend_summary: details are those of the months, in order
CategoryTrend(details, chosen) ==
  LET periods == [i \in DOMAIN details |-> TrendPeriod(details[i], chosen)]
      spent(i) == periods[i].spent
      first(S) == CHOOSE i \in S : \A j \in S : i <= j
  IN [periods |-> periods,
      average |-> Round(SumOf(spent, DOMAIN periods), Max({Len(periods), 1})),
      peak    |-> details[first({i \in DOMAIN periods :
                    \A j \in DOMAIN periods : spent(j) <= spent(i)})].month,
      change  |-> spent(Len(periods)) - spent(1)]

\* buildCleanupTransactionSummary; None stands for no category
CleanupTransactions(rows, None) ==
  [uncategorized |-> Cardinality({r \in rows : r.category = None}),
   unapproved    |-> Cardinality({r \in rows : ~r.approved}),
   uncleared     |-> Cardinality({r \in rows : ~r.cleared})]

MonthRows(rows, month) ==
  {r \in rows : ~r.deleted /\ IsWithinMonthRange(r.date, month, month)}

\* ynab_get_budget_cleanup_summary
BudgetCleanup(rows, detail, month, None) ==
  LET kept == {c \in detail.categories : ~c.deleted} IN
  [transactions   |-> CleanupTransactions(MonthRows(rows, month), None),
   overspent      |-> Cardinality(Overspent(kept)),
   hiddenProblems |-> Cardinality(
     {c \in kept : c.hidden /\ (c.balance < 0 \/ c.underfunded > 0)})]

-----------------------------------------------------------------------------
\* Scheduled transactions: [id, next, frequency, amount, transfer, deleted]

\* What falls due within so many days: <<scheduled transaction, date>>
Due(schedule, asOf, windowDays) ==
  UNION {{<<s, d>> : d \in Occurrences(s, asOf, windowDays)} :
          s \in {t \in schedule : ~t.deleted}}

DueAmount(due) == due[1].amount

\* scheduledNetNext30dMilliunits, shown by runway and coverage
ScheduledNetNext30d(schedule, asOf) == SumOf(DueAmount, Due(schedule, asOf, 30))

\* Faulty variant: the last day of a window is not in it.
WithinOpen(due, asOf, days) == {o \in due : o[2] - asOf < days}

Within(due, asOf, days) == {o \in due : o[2] - asOf <= days}

WindowDays == {7, 14, 30}

\* ynab_get_upcoming_obligations: the windows are cut from the longest one.
UpcomingObligations(schedule, asOf) ==
  LET due == Due(schedule, asOf, 30) IN
  [days \in WindowDays |->
     LET window   == Within(due, asOf, days)
         inflows  == {o \in window : o[1].amount > 0}
         outflows == {o \in window : o[1].amount < 0}
     IN [inflow  |-> SumOf(DueAmount, inflows),
         outflow |-> Magnitude(SumOf(DueAmount, outflows)),
         net     |-> SumOf(DueAmount, inflows) - Magnitude(SumOf(DueAmount, outflows)),
         obligations |-> Cardinality(outflows),
         inflowCount |-> Cardinality(inflows)]]

\* ynab_get_financial_health_check has its own: the next date of each scheduled
\* transaction only, transfers too.
Upcoming30dNet(schedule, asOf) ==
  LET amount(s) == s.amount
  IN SumOf(amount, {s \in schedule : ~s.deleted /\ s.next - asOf \in 0 .. 30})

Penalties ==
  [cash_shortfall |-> 20, negative_ready_to_assign |-> 15, overspent_categories |-> 15,
   goal_underfunding |-> 10, cleanup_backlog |-> 10, low_age_of_money |-> 5,
   income_volatility |-> 5]

\* ynab_get_financial_health_check. A month without an age of money has age 0.
HealthCheck(accounts, detail, months, rows, schedule, asOf, None) ==
  LET shown   == VisibleCategoryHealth(detail.categories)
      cleanup == CleanupTransactions(MonthRows(rows, detail.month), None)
      raised  ==
        [cash_shortfall |-> Upcoming30dNet(schedule, asOf) < -LiquidCash(accounts),
         negative_ready_to_assign |-> detail.toBeBudgeted < 0,
         overspent_categories |-> shown.overspent # {},
         goal_underfunding |-> shown.underfunded # {},
         cleanup_backlog |->
           cleanup.uncategorized + cleanup.unapproved + cleanup.uncleared > 0,
         low_age_of_money |-> detail.ageOfMoney < 14,
         income_volatility |-> SpreadAbove(RecentMonths(months, detail.month, 3), 50)]
      risks   == {code \in DOMAIN Penalties : raised[code]}
      penalty(code) == Penalties[code]
      score   == Max({0, 100 - SumOf(penalty, risks)})
  IN [netWorth |-> NetWorth(accounts), cash |-> LiquidCash(accounts),
      debt |-> TotalDebt(accounts), cleanup |-> cleanup,
      overspent |-> Cardinality(shown.overspent),
      underfunded |-> Cardinality(shown.underfunded),
      risks |-> risks, score |-> score,
      status |-> IF score >= 80 THEN "healthy"
                 ELSE IF score >= 50 THEN "watch" ELSE "needs_attention"]
=============================================================================
