--------------------------- MODULE MCLedgerTools ---------------------------
\* An instance of LedgerTools for TLC: the transactions lie on the first and last
\* days of three months, two on one date, two of one amount, one in a hidden
\* category and one a transfer.
EXTENDS LedgerTools

Booking(date, amount, account, category, payee) ==
  [date |-> date, amount |-> amount, account |-> account, category |-> category,
   payee |-> payee, transfer |-> category = None, cleared |-> payee # 2]

AllTx ==
  <<Booking(30, -14, 1, 1, 1), Booking(31, -31, 1, 2, 1), Booking(58, 90, 1, 9, 3),
    Booking(59, -50, 2, 1, 2), Booking(58, -16, 1, 1, 2), Booking(45, -14, 1, None, 4)>>

AllLedgers ==
  [t \in {"pages", "reports", "anomalies"} |-> {{}, {1, 3, 4}, {2, 3, 5, 6}, 1 .. 6}]
    @@ [t \in {"budget"} |-> {{2, 3, 4, 5}, {1, 3, 4}}] @@ [t \in {"schedule"} |-> {{}}]

\* One change tells a month read before it from one read after it, one edit a
\* schedule cached before it from the plan.
ChangesByTopic ==
  [t \in {"pages", "reports", "anomalies"} |-> 2] @@ [t \in {"budget", "schedule"} |-> 1]

Account(id, onBudget, closed, deleted) ==
  [id |-> id, onBudget |-> onBudget, closed |-> closed, deleted |-> deleted]

AllAccounts ==
  {Account(1, TRUE, FALSE, FALSE), Account(2, TRUE, FALSE, FALSE),
   Account(3, FALSE, FALSE, FALSE), Account(4, TRUE, TRUE, FALSE),
   Account(5, TRUE, FALSE, TRUE)}

ListedAccounts == <<3, 1, 5, 2, 4>>

AllOpenings == {<<100, 0, 70, 0, 5>>, <<30, -20, 0, 0, 5>>}

Category(id, hidden, budgeted, underfunded) ==
  [id |-> id, group |-> id % 2, card |-> FALSE, hidden |-> hidden, deleted |-> FALSE,
   budgeted |-> budgeted, goal |-> underfunded > 0, underfunded |-> underfunded]

AllCategories == {Category(1, FALSE, 20, 5), Category(2, TRUE, 10, 3), Category(3, FALSE, 0, 0)}

AllMonths == {0, 31, 59}

Anything ==
  [includeTransfers |-> TRUE, fromDate |-> Absent, toDate |-> Absent, payee |-> Absent,
   account |-> Absent, category |-> Absent, approved |-> Absent, cleared |-> Absent,
   minAmount |-> Absent, maxAmount |-> Absent]

Search(filter, sort, limit) ==
  [tool |-> "search", filter |-> filter, sort |-> sort, limit |-> limit]

AllWalks ==
  {Search(Anything, sort, 2) : sort \in Sorts}
    \cup {Search([Anything EXCEPT !.approved = FALSE], "date_desc", 1),
          Search([Anything EXCEPT !.includeTransfers = FALSE, !.toDate = 58, !.maxAmount = 0,
                  !.account = 1], "amount_asc", 1),
          [tool |-> "list", filter |-> [Anything EXCEPT !.payee = 2], sort |-> "date_desc",
           limit |-> 1]}
    \cup {[tool |-> tool, filter |-> Anything, sort |-> "date_desc", limit |-> 1] :
            tool \in {"accounts", "months", "scheduled", "groups", "payees"}}

Analysis(plan, latest, baselineMonths, threshold, topN) ==
  [plan |-> plan, latest |-> latest, baselineMonths |-> baselineMonths,
   threshold |-> threshold, minimum |-> 1, topN |-> topN]

AllAnalyses ==
  {Analysis("plan", 59, 1, <<3, 2>>, 5), Analysis("plan", 59, 2, <<3, 2>>, 5),
   Analysis("plan", 31, 1, <<1, 1>>, 5), Analysis("other", 59, 2, <<2, 1>>, 1),
   Analysis("other", 59, 1, <<3, 2>>, 5)}

AllOtherSpent ==
  (1 :> (0 :> 10 @@ 31 :> 10 @@ 59 :> 50)) @@ (8 :> (0 :> 4 @@ 31 :> 6 @@ 59 :> 40))

Span(from, to) == [from |-> from, to |-> to]

AllPeriods ==
  {[a |-> Span(0, 0), b |-> Span(31, 31)], [a |-> Span(31, 31), b |-> Span(59, 59)],
   [a |-> Span(0, 31), b |-> Span(31, 59)]}

Scheduled(id, first, frequency, amount, transfer) ==
  [id |-> id, first |-> first, next |-> first, frequency |-> frequency, amount |-> amount,
   transfer |-> transfer, deleted |-> FALSE]

\* From the fourth of January on, and from the last day of it or the twenty-eighth
\* where the day of the month matters.
AllSchedules ==
  {Scheduled(1, 3, frequency, -5, FALSE) : frequency \in Frequencies}
    \cup {Scheduled(1, 30, frequency, -5, FALSE) :
            frequency \in {"twiceAMonth"} \cup DOMAIN MonthsBetween}
    \cup {Scheduled(1, 27, "monthly", -5, FALSE)}

OthersScheduled == {Scheduled(2, 2, "weekly", 7, FALSE), Scheduled(3, 10, "monthly", -100, TRUE)}

AllAdditions == {Scheduled(4, 0, "monthly", -3, FALSE)}

AllAmounts == {-6}
=============================================================================
