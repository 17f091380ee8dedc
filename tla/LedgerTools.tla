---------------------------- MODULE LedgerTools ----------------------------
(***************************************************************************)
(* A client asks the read and report tools of the bridge about a YNAB plan *)
(* while its owner goes on booking. Transactions are fetched for every     *)
(* call; accounts, months and scheduled transactions are cached for the    *)
(* life of the server once they were read (PlanReads), so a report can     *)
(* combine two states of the ledger.                                       *)
(*                                                                         *)
(* A conversation is about one topic, which keeps the state space a sum:   *)
(* a walk through pages, reports, the budget of a month while months pass, *)
(* anomalies with their updates, or scheduled transactions while days pass *)
(* and the owner edits them. The ledger is external: its balances and      *)
(* activities are sums over what is booked.                                *)
(***************************************************************************)
EXTENDS Spending, Collections

CONSTANTS
  Tx,           \* transactions that may be booked: rows without approved, deleted
  Accounts,     \* account records with an opening balance
  AccountList,  \* their ids in the order of the API
  Ledgers,      \* by topic, sets of transactions of which one is booked at first
  Openings,     \* functions from accounts to opening balances
  Categories,   \* category records with what is budgeted every month
  ReadyToAssign,\* the category of income
  Months,       \* first days of the months of the plan
  Walks,        \* what a client pages through: [tool, sort, filter, limit]
  Analyses,     \* inputs of the anomaly tools
  OtherSpent,   \* spent by category and month in another plan
  Periods,      \* pairs of month ranges a client compares
  Current,      \* the input "current" for a month
  Schedules,    \* scheduled transactions one of which the plan has
  AlsoScheduled,\* those it has besides
  Additions,    \* those the owner may add
  NewAmounts,   \* amounts the owner may put in
  Today,        \* the date it is at first
  LastDay,      \* bound: the clock stops then
  Step,         \* days the clock goes on at once
  MaxChanges    \* bound by topic: changes of the ledger or of the scheduled transactions

\* Category ids are unique: the updates compare anomalies by them.
ASSUME CategoryIds == \A c, d \in Categories : c.id = d.id => c = d

VARIABLES
  topic,     \* what the conversation is about
  opening,   \* external: opening balances
  ledger,    \* external: the status of each transaction
  changes,   \* changes by the owner so far
  seen,      \* cached reads of accounts, of the list of months, of each month by its
             \* date and of the month "current", with the month that was: the
             \* transactions that were live then, or None
  walk,      \* the walk through pages, or None
  session,   \* the anomalies of the last analysis, as the server keeps them
  copy,      \* the anomalies as the client puts them together
  today,     \* external: the clock
  schedule,  \* external: the scheduled transactions
  cached     \* the cached scheduled transactions, or None

vars == <<topic, opening, ledger, changes, seen, walk, session, copy, today, schedule, cached>>

Topics == {"pages", "reports", "budget", "anomalies", "schedule"}

Transactions == DOMAIN Tx

\* The API sends rows with different ids; what it sends of lists is in order of them.
ASSUME TransactionsAssumption ==
  /\ IsFiniteSet(Transactions)
  /\ Transactions \subseteq Int
  /\ \A live \in SUBSET Transactions : live # None
  /\ \A t \in Transactions : {Tx[t].date, Tx[t].amount, Tx[t].payee} \subseteq Int

ASSUME ListsAssumption ==
  /\ AccountList \in Seq({a.id : a \in Accounts})
  /\ {a.id : a \in Accounts} \subseteq {AccountList[k] : k \in DOMAIN AccountList}
  /\ \A j, k \in DOMAIN AccountList : AccountList[j] = AccountList[k] => j = k
  /\ IsFiniteSet(Accounts) /\ \A a, b \in Accounts : a.id = b.id => a = b
  /\ IsFiniteSet(Months) /\ Months \subseteq Int
  /\ IsFiniteSet(AlsoScheduled) /\ {s.id : s \in AlsoScheduled} \subseteq Int
  /\ \A r, s \in AlsoScheduled : r.id = s.id => r = s
  /\ IsFiniteSet(Categories) /\ {c.group : c \in Categories} \subseteq Int

\* The months of a plan follow each other, each with its first day.
ASSUME MonthsAssumption ==
  /\ \A m \in Months : m = MonthStart(MonthOf(m))
  /\ \A from, to \in Months : \A n \in MonthOf(from) .. MonthOf(to) : MonthStart(n) \in Months

\* What the API promises: only an empty account is closed, only a goal is underfunded,
\* and the plan has a month for whatever is booked.
ASSUME PlanAssumption ==
  /\ \A a \in Accounts : a.closed /\ ~a.deleted =>
       /\ \A balances \in Openings : balances[a.id] = 0
       /\ \A t \in Transactions : Tx[t].account # a.id
  /\ \A c \in Categories :
       c.budgeted \in Int /\ c.underfunded \in Nat /\ (c.underfunded > 0 => c.goal)
  /\ Months # {} /\ \A t \in Transactions : Tx[t].date <= MonthEnd(Max(Months))

\* The values of constants that a run starts from.
ASSUME StartAssumption ==
  /\ Openings # {} /\ MaxChanges \in [Topics -> Nat]
  /\ \A balances \in Openings : \A a \in Accounts : balances[a.id] \in Int
  /\ Today \in Nat /\ LastDay \in Int /\ Step \in Nat /\ Today <= LastDay + Step
  /\ Current \notin Months /\ NewAmounts \subseteq Int
  /\ \A s \in Schedules \cup AlsoScheduled \cup Additions :
       /\ s.frequency \in Frequencies
       /\ {"id", "first", "next", "frequency", "amount", "transfer", "deleted"} \subseteq DOMAIN s
       /\ {s.first, s.amount} \subseteq Int
       /\ s.next = s.first /\ s.first >= Today
  /\ \A s \in Schedules : \A r \in AlsoScheduled : s.id # r.id
  /\ \A s \in Additions : ~s.deleted

\* The inputs that the tools take: the transaction lists do not let the client sort.
ASSUME WalksAssumption ==
  /\ Absent \notin Int
  /\ \A w \in Walks :
       /\ w.tool \in {"search", "list", "accounts", "months", "scheduled", "groups", "payees"}
       /\ w.sort \in Sorts
       /\ w.tool = "list" => w.sort = "date_desc"
       /\ w.limit \in Int \cup {Absent}

Statuses == {"absent", "unapproved", "approved", "deleted"}

LedgerLive(status) == {t \in DOMAIN Tx : status[t] \in {"unapproved", "approved"}}

Live == LedgerLive(ledger)

Row(t, status) ==
  [id |-> t, date |-> Tx[t].date, amount |-> Tx[t].amount, account |-> Tx[t].account,
   category |-> Tx[t].category, payee |-> Tx[t].payee, transfer |-> Tx[t].transfer,
   cleared |-> Tx[t].cleared, approved |-> status = "approved",
   deleted |-> status = "deleted"]

\* What the API sends of the ledger, deleted transactions included.
RowsOf(status) == {Row(t, status[t]) : t \in {u \in DOMAIN Tx : status[u] # "absent"}}

Rows == RowsOf(ledger)

\* getCachedRead: what is still unread is read now.
OrLive(read) == IF read = None THEN Live ELSE read

-----------------------------------------------------------------------------
\* The plan as the API shows it when the given transactions are live.

TxAmount(t) == Tx[t].amount

AccountsAt(live) ==
  {[id |-> a.id, onBudget |-> a.onBudget, closed |-> a.closed, deleted |-> a.deleted,
    balance |-> opening[a.id] + SumOf(TxAmount, {t \in live : Tx[t].account = a.id})] :
     a \in Accounts}

Activity(live, category, month) ==
  SumOf(TxAmount, {t \in live : Tx[t].category = category /\ MonthOf(Tx[t].date) = MonthOf(month)})

CategoriesAt(live, month) ==
  {[id |-> c.id, group |-> c.group, card |-> c.card, hidden |-> c.hidden,
    deleted |-> c.deleted, budgeted |-> c.budgeted, goal |-> c.goal,
    underfunded |-> c.underfunded, activity |-> Activity(live, c.id, month),
    balance |-> c.budgeted + Activity(live, c.id, month)] : c \in Categories}

Detail(live, month) ==
  LET activity(c) == Activity(live, c.id, month)
      budgeted(c) == c.budgeted
      income      == Activity(live, ReadyToAssign, month)
  IN [month |-> month, income |-> income,
      budgeted |-> SumOf(budgeted, Categories),
      activity |-> SumOf(activity, Categories),
      toBeBudgeted |-> income - SumOf(budgeted, Categories),
      ageOfMoney |-> 20,
      categories |-> CategoriesAt(live, month)]

MonthEntry(live, month) ==
  LET detail == Detail(live, month) IN
  [month |-> month, income |-> detail.income, budgeted |-> detail.budgeted,
   activity |-> detail.activity, deleted |-> FALSE]

\* A month is on the list from the first transaction in or after it.
MonthList(live) ==
  {MonthEntry(live, m) :
     m \in {n \in Months : \E t \in live : Tx[t].date >= n}}

OtherCategories(month) ==
  {[id |-> c, activity |-> -OtherSpent[c][month], card |-> FALSE, hidden |-> FALSE,
    deleted |-> FALSE] : c \in DOMAIN OtherSpent}

-----------------------------------------------------------------------------
Init ==
  /\ topic \in Topics
  /\ opening \in IF topic = "reports" THEN Openings ELSE {CHOOSE o \in Openings : TRUE}
  /\ \E booked \in Ledgers[topic] :
       ledger = [t \in Transactions |-> IF t \in booked THEN "approved" ELSE "absent"]
  /\ changes = 0
  /\ seen = [accounts |-> None, list |-> None, months |-> [m \in Months |-> None],
             current |-> None]
  /\ walk = None
  /\ session = None
  /\ copy = None
  /\ today = Today
  /\ schedule \in IF topic = "schedule" THEN {{s} \cup AlsoScheduled : s \in Schedules}
                  ELSE {AlsoScheduled}
  /\ cached = None

\* The rows that a walk is through, in one or the other order of the API.
WalkRows(w, status, order) ==
  LET sent == {t \in Transactions : /\ status[t] # "absent"
                                    /\ w.tool = "list" => Tx[t].payee = w.filter.payee}
  IN IF order = "up" THEN [t \in sent |-> Row(t, status[t])]
     ELSE [p \in {-t : t \in sent} |-> Row(-p, status[-p])]

\* Lists in the order of the API: of accounts, months (newest first), scheduled
\* transactions and category groups, which are cached, and of payees, which are
\* not and appear with their first transaction.
AccountEntries ==
  [k \in DOMAIN AccountList |-> CHOOSE a \in Accounts : a.id = AccountList[k]]

MonthEntries ==
  [p \in {-entry.month : entry \in MonthList(OrLive(seen.list))} |->
     [id |-> -p, deleted |-> FALSE]]

ScheduledEntries == [i \in {s.id : s \in schedule} |-> CHOOSE s \in schedule : s.id = i]

GroupEntries ==
  [g \in {c.group : c \in Categories} |->
     [id |-> g, deleted |-> FALSE, hidden |-> \A c \in Categories : c.group = g => c.hidden]]

PayeeIds(status) == {Tx[t].payee : t \in {u \in Transactions : status[u] # "absent"}}

PayeeEntries(status) == [i \in PayeeIds(status) |-> [id |-> i, deleted |-> FALSE]]

\* The page at an offset: of a search, of one of the transaction lists, here by
\* payee, or of one of the other lists.
Page(w, order, offset) ==
  CASE w.tool = "search" ->
         SearchPage(WalkRows(w, ledger, order), w.filter, w.sort, w.limit, offset)
    [] w.tool = "list" -> TransactionsPage(WalkRows(w, ledger, order), w.limit, offset)
    [] w.tool = "accounts" -> ListAccounts(AccountEntries, w.limit, offset)
    [] w.tool = "months" -> ListPlanMonths(MonthEntries, w.limit, offset)
    [] w.tool = "scheduled" -> ListScheduledTransactions(ScheduledEntries, w.limit, offset)
    [] w.tool = "groups" -> ListPlanCategories(GroupEntries, w.limit, offset)
    [] w.tool = "payees" -> ListPayees(PayeeEntries(ledger), w.limit, offset)

\* The ids that belong to a walk.
Wanted(w, status) ==
  CASE w.tool = "search" ->
         {t \in LedgerLive(status) : Matches(Row(t, status[t]), w.filter)}
    [] w.tool = "list" -> {t \in LedgerLive(status) : Tx[t].payee = w.filter.payee}
    [] w.tool = "accounts" -> {a.id : a \in {b \in Accounts : ~b.deleted}}
    [] w.tool = "months" -> {entry.month : entry \in MonthList(OrLive(seen.list))}
    [] w.tool = "scheduled" -> {s.id : s \in {u \in schedule : ~u.deleted}}
    [] w.tool = "groups" -> {c.group : c \in {d \in Categories : ~d.hidden}}
    [] w.tool = "payees" -> PayeeIds(status)

StartWalk(w, order) ==
  LET page == Page(w, order, Absent) IN
  /\ topic = "pages"
  /\ walk = None
  /\ walk' = [of |-> w, got |-> page.entries, next |-> page.next, total |-> page.total,
              wanted |-> Wanted(w, ledger), came |-> FALSE, left |-> FALSE]
  /\ seen' = [seen EXCEPT !.list = IF w.tool = "months" THEN OrLive(@) ELSE @]
  /\ UNCHANGED <<topic, opening, ledger, changes, session, copy, today, schedule, cached>>

\* The client asks for the page that the one before names.
NextPage(order) ==
  /\ walk # None
  /\ walk.next # Absent
  /\ LET page == Page(walk.of, order, walk.next)
     IN walk' = [walk EXCEPT !.got = @ \o page.entries, !.next = page.next,
                             !.total = page.total]
  /\ UNCHANGED <<topic, opening, ledger, changes, seen, session, copy, today, schedule, cached>>

\* The owner books, approves or deletes a transaction.
Change(t, status) ==
  LET after == [ledger EXCEPT ![t] = status] IN
  /\ topic # "schedule"
  /\ topic = "pages" => walk # None /\ walk.next # Absent
  /\ changes < MaxChanges[topic]
  /\ <<ledger[t], status>> \in {<<"absent", "unapproved">>, <<"unapproved", "approved">>,
                                <<"unapproved", "deleted">>, <<"approved", "deleted">>}
  /\ ledger' = after
  /\ changes' = changes + 1
  /\ walk' = IF walk = None THEN None
       ELSE [walk EXCEPT
               !.came = @ \/ Wanted(walk.of, after) \ Wanted(walk.of, ledger) # {},
               !.left = @ \/ Wanted(walk.of, ledger) \ Wanted(walk.of, after) # {}]
  /\ UNCHANGED <<topic, opening, seen, session, copy, today, schedule, cached>>

-----------------------------------------------------------------------------
\* A report reads what it needs; what was not cached yet is from now on. Its
\* figures are those of the properties below.
Report(withMonths) ==
  /\ topic = "reports"
  /\ seen' = [seen EXCEPT !.accounts = OrLive(@),
                          !.list = IF withMonths THEN OrLive(@) ELSE @]
  /\ UNCHANGED <<topic, opening, ledger, changes, walk, session, copy, today, schedule, cached>>

-----------------------------------------------------------------------------
\* The first day of the month it is.
CurrentMonth == MonthStart(MonthOf(today))

\* Faulty variant: the month before, as a local date gives it east of Greenwich.
MonthBefore(month) ==
  IF month = Current THEN MonthStart(MonthOf(CurrentMonth - 1)) ELSE month

\* normalizeMonthInput
NormalizeMonthInput(month) == IF month = Current THEN CurrentMonth ELSE month

\* The tools that pass the month on as it was given, and those that resolve it.
AsGiven == {"snapshot", "budget_health", "goals", "plan_month"}
Normalizing == {"health_check", "cleanup", "trend", "review", "spending"}
MonthTools == AsGiven \cup Normalizing

\* The key under which a tool reads and caches the detail of a month.
MonthKey(tool, month) == IF tool \in AsGiven THEN month ELSE NormalizeMonthInput(month)

\* getCachedPlanMonth: what is found under a key, and of which month it is. The API
\* resolves "current" when it is asked, which it is once.
SeenMonth(key) ==
  CASE key # Current -> [month |-> key, live |-> OrLive(seen.months[key])]
    [] key = Current /\ seen.current = None -> [month |-> CurrentMonth, live |-> Live]
    [] key = Current /\ seen.current # None -> seen.current

\* A tool reads a month; what else some of them read is in the other topics.
MonthReport(key) ==
  /\ topic = "budget"
  /\ CurrentMonth \in Months
  /\ seen' = IF key = Current THEN [seen EXCEPT !.current = SeenMonth(key)]
             ELSE [seen EXCEPT !.months[key] = SeenMonth(key).live]
  /\ UNCHANGED <<topic, opening, ledger, changes, walk, session, copy, today, schedule, cached>>

-----------------------------------------------------------------------------
\* The categories of a month that an analysis reads, of its plan.
CategoriesRead(a, month) ==
  IF a.plan = "other" THEN OtherCategories(month)
  ELSE CategoriesAt(OrLive(seen.months[month]), month)

BaselineMonths(a) ==
  SetToSortSeq(PreviousMonths(a.latest, a.baselineMonths), LAMBDA m, n : m < n)

\* What the anomaly tools find; the months they need are read and cached.
Anomalies(a) ==
  LET before == BaselineMonths(a)
  IN SpendingAnomalies(Watched(CategoriesRead(a, a.latest)),
       [i \in DOMAIN before |-> SpentLookup(CategoriesRead(a, before[i]))],
       a.threshold, a.minimum, a.topN)

\* The months that an analysis of the plan reads.
MonthsRead(a) ==
  IF a.plan = "other" THEN {} ELSE PreviousMonths(a.latest, a.baselineMonths) \cup {a.latest}

ReadMonths(a) ==
  seen' = [seen EXCEPT !.months =
             [m \in Months |-> IF m \in MonthsRead(a) THEN OrLive(@[m]) ELSE @[m]]]

\* ynab_get_spending_anomalies: the client gets the whole list.
Analyse(a) ==
  /\ topic = "anomalies"
  /\ ReadMonths(a)
  /\ session' = Anomalies(a)
  /\ copy' = Anomalies(a)
  /\ UNCHANGED <<topic, opening, ledger, changes, walk, today, schedule, cached>>

\* What a client makes of an update: it takes out what was removed or changed and
\* puts in what was added or changed.
Patched(list, update) ==
  {e \in list : e.id \notin update.removed \cup AnomalyIds(update.changed)}
    \cup update.added \cup update.changed

\* ynab_get_updated_anomalies with the token of the last analysis, perhaps for
\* other months, other thresholds or another plan: the client gets the difference.
Update(a) ==
  /\ topic = "anomalies"
  /\ session # None
  /\ ReadMonths(a)
  /\ session' = Anomalies(a)
  /\ copy' = Patched(copy, UpdatedAnomalies(Anomalies(a), session))
  /\ UNCHANGED <<topic, opening, ledger, changes, walk, today, schedule, cached>>

-----------------------------------------------------------------------------
DayOf(date) == date - MonthStart(MonthOf(date))

\* A day of a month, or the last one of a month that lacks it.
OnDay(n, day) == Min({MonthStart(n) + day, MonthStart(n + 1) - 1})

\* Twice a month is on a day and on the one fifteen days before or after it.
TwiceAMonth(n, day, i) ==
  IF i % 2 = 0 THEN OnDay(n + i \div 2, day)
  ELSE IF day < 15 THEN OnDay(n + i \div 2, day + 15)
  ELSE OnDay(n + i \div 2 + 1, day - 15)

\* When a scheduled transaction falls due for the i-th time: on the same day of every
\* so many months, twice a month, or every so many days.
DueDate(s, i) ==
  IF s.frequency \in DOMAIN MonthsBetween
  THEN OnDay(MonthOf(s.first) + i * MonthsBetween[s.frequency], DayOf(s.first))
  ELSE IF s.frequency = "twiceAMonth" THEN TwiceAMonth(MonthOf(s.first), DayOf(s.first), i)
  ELSE s.first + i * DaysBetween[s.frequency]

DueDates(s, limit) ==
  IF s.frequency = "never" THEN {d \in {s.first} : d <= limit}
  ELSE {d \in {DueDate(s, i) : i \in 0 .. limit} : d <= limit}

\* The next date at a date; a transaction that was due once is gone after it.
AdvancedTo(s, date) ==
  LET next == {d \in DueDates(s, date + 800) : d >= date}
  IN IF s.next >= date THEN s
     ELSE IF next = {} THEN [s EXCEPT !.deleted = TRUE] ELSE [s EXCEPT !.next = Min(next)]

\* Time passes: what is due is booked and the next date of it moves on.
PassTo(date) ==
  /\ today' = date
  /\ schedule' = {AdvancedTo(s, date) : s \in schedule}
  /\ UNCHANGED <<topic, opening, ledger, changes, seen, walk, session, copy, cached>>

Pass == topic = "schedule" /\ today < LastDay /\ PassTo(today + Step)

\* The next month of the plan begins.
MonthTurns ==
  LET next == MonthStart(MonthOf(today) + 1)
  IN topic = "budget" /\ next \in Months /\ next <= LastDay /\ PassTo(next)

ReadSchedule ==
  /\ topic = "schedule"
  /\ cached = None
  /\ cached' = schedule
  /\ UNCHANGED <<topic, opening, ledger, changes, seen, walk, session, copy, today, schedule>>

\* The owner takes a scheduled transaction away, puts it off, which makes it start
\* anew, changes what it comes to, or adds one.
Reschedule ==
  LET ids == {s.id : s \in schedule} IN
  /\ topic = "schedule"
  /\ changes < MaxChanges[topic]
  /\ changes' = changes + 1
  /\ \/ \E s \in {t \in schedule : ~t.deleted} :
          \/ schedule' = schedule \ {s}
          \/ schedule' = (schedule \ {s})
                \cup {[s EXCEPT !.first = today + Step, !.next = today + Step]}
          \/ \E amount \in NewAmounts :
               schedule' = (schedule \ {s}) \cup {[s EXCEPT !.amount = amount]}
     \/ \E s \in {t \in Additions : t.id \notin ids} :
          schedule' = schedule \cup {[s EXCEPT !.first = today, !.next = today]}
  /\ UNCHANGED <<topic, opening, ledger, seen, walk, session, copy, today, cached>>

Next ==
  \/ \E order \in {"up", "down"} :
       \/ \E w \in Walks : StartWalk(w, order)
       \/ NextPage(order)
  \/ \E t \in Transactions, status \in Statuses : Change(t, status)
  \/ \E withMonths \in BOOLEAN : Report(withMonths)
  \/ \E a \in Analyses : Analyse(a) \/ Update(a)
  \/ \E key \in {MonthKey(tool, month) : tool \in MonthTools, month \in Months \cup {Current}} :
       MonthReport(key)
  \/ MonthTurns
  \/ Pass
  \/ ReadSchedule
  \/ Reschedule

Spec == Init /\ [][Next]_vars

-----------------------------------------------------------------------------
\* Every variable holds a value of its type.
TypeOK ==
  /\ topic \in Topics
  /\ opening \in Openings
  /\ ledger \in [Transactions -> Statuses]
  /\ changes \in 0 .. MaxChanges[topic]
  /\ LET Reads == (SUBSET Transactions) \cup {None}
     IN seen \in [accounts : Reads, list : Reads, months : [Months -> Reads],
                  current : [month : Months, live : SUBSET Transactions] \cup {None}]
  /\ walk # None =>
       /\ walk.of \in Walks
       /\ walk.total \in Nat
       /\ walk.next \in 1 .. (walk.total - 1) \cup {Absent}
       /\ {walk.came, walk.left} \subseteq BOOLEAN
  /\ (session = None) = (copy = None)
  /\ today \in Today .. LastDay + Step
  /\ \A s \in schedule : s.deleted \/ s.next >= today

\* A walk along the offsets that the pages name delivers, in whatever order the API
\* sends what it has, everything that belongs to it from start to end, unless
\* something in front of it went away meanwhile (collectionToolUtils.ts 51-70).
PagesMissOnlyWhatLeft ==
  walk # None =>
    (walk.next = Absent /\ ~walk.left => walk.wanted \subseteq ToSet(walk.got))

\* It delivers nothing twice, unless something came in front of it, and nothing that
\* does not belong to it (transactionQueryEngine.ts 154-190).
PagesRepeatOnlyWhatCame ==
  walk # None =>
    /\ ~walk.came => Cardinality(ToSet(walk.got)) = Len(walk.got)
    /\ ~walk.came => ToSet(walk.got) \subseteq walk.wanted

\* Over a steady ledger the pages make one list in the order asked for, as long as
\* every page says (transactionQueryEngine.ts 114-173).
PagesMakeOneList ==
  walk # None /\ ~walk.came /\ ~walk.left =>
    /\ walk.of.tool \in {"search", "list"} =>
         \A i \in 1 .. Len(walk.got) - 1 :
           LET one == Tx[walk.got[i]]
               two == Tx[walk.got[i + 1]]
           IN CASE walk.of.sort = "date_asc"    -> one.date <= two.date
                [] walk.of.sort = "date_desc"   -> one.date >= two.date
                [] walk.of.sort = "amount_asc"  -> one.amount <= two.amount
                [] walk.of.sort = "amount_desc" -> one.amount >= two.amount
    /\ walk.total = Cardinality(walk.wanted)
    /\ (walk.next = Absent) = (Len(walk.got) = walk.total)

\* A walk through pages delivers what it should, in the order asked for, to a client
\* that follows the offsets the pages name, whatever is booked and deleted meanwhile
\* (transactionQueryEngine.ts 114-190, collectionToolUtils.ts 51-70).
WalksDeliver == PagesMissOnlyWhatLeft /\ PagesRepeatOnlyWhatCame /\ PagesMakeOneList

-----------------------------------------------------------------------------
\* What the reports are computed from.
SeenAccounts == AccountsAt(OrLive(seen.accounts))
SeenMonths   == MonthList(OrLive(seen.list))
RowsFrom(from) == {r \in Rows : r.date >= from}
LastMonth == Max(Months)

\* The trajectory takes what was booked after a month out of the cached balances.
\* It is the history of the plan but for what was booked or deleted since the
\* balances were cached, and off by that in every month alike
\* (GetNetWorthTrajectoryTool.ts 41-52, financeToolUtils.ts 541-612).
TrajectoryOffByTheUnseen ==
  topic = "reports" =>
    LET accounts == NotDeleted(SeenAccounts)
        counted(live) == {t \in live : \E a \in accounts : a.id = Tx[t].account}
        openings(a) == opening[a.id]
        unseen == SumOf(TxAmount, counted(OrLive(seen.accounts))) - SumOf(TxAmount, counted(Live))
    IN \A from \in Months :
         LET found == Trajectory(SeenAccounts, RowsFrom(from), from, LastMonth)
         IN \A m \in DOMAIN found :
              found[m].netWorth =
                SumOf(openings, accounts) + unseen
                  + SumOf(TxAmount, {t \in counted(Live) : Tx[t].date <= MonthEnd(m)})

\* The snapshot, the health check, the debt summary and the end of the trajectory
\* give one answer to what the plan is worth, although each has its own code; the
\* trajectory counts closed accounts, which are empty (financeToolUtils.ts 254-296,
\* 510-526, financialDiagnosticsUtils.ts 20-38).
AccountFiguresAgree ==
  topic = "reports" =>
    LET snapshot == FinancialSnapshot(SeenAccounts)
        health   == HealthCheck(SeenAccounts, Detail(Live, LastMonth), SeenMonths, Rows,
                      schedule, today, None)
        debt     == DebtSummary(SeenAccounts)
        end      == Trajectory(SeenAccounts, RowsFrom(LastMonth), LastMonth, LastMonth)[LastMonth]
    IN /\ snapshot.netWorth = health.netWorth /\ snapshot.netWorth = end.netWorth
       /\ {snapshot.liquidCash, health.cash, debt.cash} = {end.liquidCash}
       /\ {snapshot.debt, health.debt, debt.debt} = {end.debt}
       /\ snapshot.debtCount = debt.count
       /\ (debt.status = "none") = (snapshot.debt = 0)

\* Tools that find a month under one key count the same problems in it; cleanup
\* counts those of hidden categories, too. A month that is asked for as "current" is
\* found under that key by budget health, goals and snapshot and under its date by
\* the others, and these two reads differ: the one may be of a month that is over,
\* and in the same month the figures are off by what was booked in between and no
\* more (financeToolUtils.ts 154-252, GetGoalProgressSummaryTool.ts 24,
\* GetBudgetHealthSummaryTool.ts 27, GetBudgetCleanupSummaryTool.ts 30-53).
BudgetFiguresAgree ==
  topic = "budget" =>
    \A month \in {m \in Months \cup {Current} : NormalizeMonthInput(m) \in Months} :
      LET given   == SeenMonth(MonthKey("goals", month))
          named   == SeenMonth(MonthKey("review", month))
          detail  == Detail(named.live, named.month)
          health  == HealthCheck(SeenAccounts, detail, SeenMonths, Rows, schedule, today, None)
          review  == BudgetHealth(detail)
          cleanup == BudgetCleanup(RowsFrom(named.month), detail, named.month, None)
          trend   == CategoryTrend(<<detail>>, {c.id : c \in detail.categories})
          budget  == BudgetHealth(Detail(given.live, given.month))
          goals   == GoalProgress(Detail(given.live, given.month))
          booked(live) ==
            {t \in live : /\ MonthOf(Tx[t].date) = MonthOf(named.month)
                          /\ Tx[t].category \in {c.id : c \in Visible(Categories)}}
          between == (booked(given.live) \ booked(named.live))
                       \cup (booked(named.live) \ booked(given.live))
          touched == Cardinality({Tx[t].category : t \in between})
      IN /\ health.overspent = review.overspent
         /\ health.underfunded = review.underfunded
         /\ health.cleanup = cleanup.transactions
         /\ cleanup.overspent = review.overspent
              + Cardinality({c \in Overspent(detail.categories) : ~c.deleted /\ c.hidden})
         /\ trend.periods[1].available = review.available - review.overspentBy
         /\ health.score = 100 => health.status = "healthy" /\ cleanup.transactions.unapproved = 0
         /\ goals.offTrack = budget.underfunded /\ goals.missing = budget.missing
         /\ goals.goals = goals.onTrack + goals.offTrack
         /\ month # Current => budget = review
         /\ given.month <= named.month
         /\ given.month = named.month =>
              /\ budget.available - budget.overspentBy
                   = review.available - review.overspentBy
                       + SumOf(TxAmount, booked(given.live)) - SumOf(TxAmount, booked(named.live))
              /\ budget.overspent - review.overspent \in -touched .. touched

\* Runway and coverage divide the same cash by rounded averages of the same months:
\* one never calls urgent what the other calls solid (GetCashRunwayTool.ts 35-45,
\* GetEmergencyFundCoverageTool.ts 24-42).
StatusesAgree ==
  topic = "reports" =>
    \A asOf \in Months, monthsBack \in {1, 3} :
      LET runway   == CashRunway(SeenAccounts, SeenMonths, asOf, monthsBack)
          coverage == EmergencyFundCoverage(SeenAccounts, SeenMonths, asOf, monthsBack)
      IN /\ coverage = "strong" => runway \in {"stable", "no_outflows"}
         /\ coverage = "solid" => runway # "urgent"
         /\ coverage = "no_spending" => runway = "no_outflows"
         /\ runway = "urgent" => coverage \in {"thin", "critical"}

\* What is computed in several places is the same in all of them: the worth of the
\* plan, the problems of a month, and what the cash still lasts for
\* (financialDiagnosticsUtils.ts, financeToolUtils.ts and the tools' own copies).
FiguresAgree == AccountFiguresAgree /\ BudgetFiguresAgree /\ StatusesAgree

\* The sum of the values of a function.
SumOver(f) == LET at(k) == f[k] IN SumOf(at, DOMAIN f)

\* Whatever the range, the totals of cash flow, spending and income are the sums of
\* their months, categories, groups and payees, and of the reviews of the months:
\* a transaction on the first or the last day of a month counts once. Periods lack
\* the months that the cached list does not have (GetCashFlowSummaryTool.ts 46-76).
TotalsAddUp ==
  topic = "reports" =>
    \A from \in Months : \A to \in {m \in Months : m >= from} :
      LET range    == {m \in Months : from <= m /\ m <= to}
          cash     == CashFlow(RowsFrom(from), SeenMonths, from, to)
          group    == [c \in {r.category : r \in Rows} |->
                         IF \E k \in Categories : k.id = c /\ ~k.deleted
                         THEN (CHOOSE k \in Categories : k.id = c).group ELSE None]
          spending == SpendingSummary(RowsFrom(from), SeenMonths, from, to, group)
          income   == IncomeSummary(RowsFrom(from), from, to, ReadyToAssign)
          inReview   == [m \in range |-> ReviewFlow(RowsFrom(m), m).flow.inflow]
          outReview  == [m \in range |-> ReviewFlow(RowsFrom(m), m).flow.outflow]
          listed     == DOMAIN cash.periods
          unlisted   == range \ listed
          amountIn(roll) == SumOver([k \in DOMAIN roll |-> roll[k].amount])
      IN /\ cash.total.inflow = SumOver(inReview)
         /\ cash.total.outflow = SumOver(outReview)
         /\ cash.total.outflow = SumOver([m \in listed |-> cash.periods[m].outflow])
                                   + SumOver([m \in unlisted |-> outReview[m]])
         /\ cash.total.inflow = SumOver([m \in listed |-> cash.periods[m].inflow])
                                  + SumOver([m \in unlisted |-> inReview[m]])
         /\ spending.spent = cash.total.outflow
         /\ {amountIn(spending.categories), amountIn(spending.groups),
             amountIn(spending.payees)} = {spending.spent}
         /\ DOMAIN income.months = range
         /\ income.total = SumOver(income.months) /\ income.total <= cash.total.inflow

\* The drivers of a change add up to it, also for periods that overlap; what a
\* driver says of a category or a payee is what the tools say that explain this
\* one, and the periods are those of the spending summary
\* (GetSpendingChangeExplanationTool.ts 216-276 and its two siblings).
ChangeIsExplained ==
  topic = "reports" =>
    \A p \in Periods :
      LET rows     == RowsFrom(Min({p.a.from, p.b.from}))
          change   == SpendingChange(rows, p.a, p.b)
          explained(e) ==
            SumOver([k \in DOMAIN e.drivers |-> ChangeOf(e.drivers[k])]) = ChangeOf(e.spent)
          agrees(e, k, one) ==
            /\ k \in DOMAIN e.drivers => e.drivers[k] = one.spent
            /\ k \notin DOMAIN e.drivers => ChangeOf(one.spent) = 0
            /\ explained(one)
          none     == [c \in {r.category : r \in Rows} |-> None]
      IN /\ explained(change.categories) /\ explained(change.payees)
         /\ \A c \in {r.category : r \in Rows} \ {None} :
              agrees(change.categories, c, CategoryChange(rows, p.a, p.b, c))
         /\ \A q \in {r.payee : r \in Rows} \ {None} :
              LET spike == PayeeSpike(rows, p.a, p.b, q)
              IN agrees(change.payees, q, spike.categories)
                   /\ agrees(change.payees, q, spike.accounts)
         /\ change.payees.spent =
              [a |-> SpendingSummary(rows, SeenMonths, p.a.from, p.a.to, none).spent,
               b |-> SpendingSummary(rows, SeenMonths, p.b.from, p.b.to, none).spent]

\* A total is the sum of its parts, and a change that of its drivers, whatever the
\* ranges (GetCashFlowSummaryTool.ts, GetSpendingChangeExplanationTool.ts).
FlowsAddUp == TotalsAddUp /\ ChangeIsExplained

\* A client that patches its list with an update has the list the server has, also
\* across months, thresholds and plans, and with months that are cached
\* (GetUpdatedAnomaliesTool.ts 59-137).
DeltaRestoresCurrent == copy = session

-----------------------------------------------------------------------------
InUse == IF cached = None THEN schedule ELSE cached

\* Obligations, runway and coverage see the same thirty days, and the windows are
\* nested. The health check counts the next date of each scheduled transaction and
\* transfers, and differs by these and by what falls due more than once
\* (GetFinancialHealthCheckTool.ts 143-149).
WindowsAgree ==
  topic = "schedule" =>
    LET windows == UpcomingObligations(InUse, today)
        amount(s) == s.amount
        transfers == {s \in InUse : ~s.deleted /\ s.transfer /\ s.next - today \in 0 .. 30}
        again     == {o \in Due(InUse, today, 30) : o[2] # o[1].next}
    IN /\ windows[30].net = ScheduledNetNext30d(InUse, today)
       /\ windows[7].obligations <= windows[14].obligations
       /\ windows[14].obligations <= windows[30].obligations
       /\ windows[30].net = Upcoming30dNet(InUse, today) - SumOf(amount, transfers)
                              + SumOf(DueAmount, again)

\* One scheduled transaction at two times, not edited in between.
IsUnedited(r, s) ==
  \A field \in {"id", "first", "frequency", "amount", "transfer"} : r[field] = s[field]

Unedited(mine, theirs) == {r \in mine : \E s \in theirs : IsUnedited(r, s)}

\* Counting on from one date gives the others: of so many days, and of a day that
\* every month has.
Countable(s) ==
  \/ s.frequency \in ({"never"} \cup DOMAIN DaysBetween) \ {"twiceAMonth"}
  \/ s.frequency \in DOMAIN MonthsBetween /\ DayOf(s.first) < 28

\* Scheduled transactions that were cached long ago still show what is due: their
\* dates are counted on from the cached one, past what was booked meanwhile. What
\* the cache shows differs from what the plan has by what the owner edited and by
\* what cannot be counted on (financeToolUtils.ts 408-438, cachedYnabReads.ts 69-75).
ScheduleOutlivesItsCache ==
  topic = "schedule" /\ cached # None =>
    LET then == {s \in Unedited(cached, schedule) : Countable(s)}
        now  == {s \in Unedited(schedule, cached) : Countable(s)}
    IN UpcomingObligations(then, today) = UpcomingObligations(now, today)

\* The dates told of the thirty days are those at which something falls due, or at
\* most three days off where these cannot be counted on: at the end of short months,
\* and twice a month as long as no cached date is over (financeToolUtils.ts 361-406).
DatesAreTold ==
  topic = "schedule" =>
    \A s \in {t \in Unedited(InUse, schedule) : ~t.transfer} :
      LET told == Occurrences(s, today, 30)
          due  == {d \in DueDates(s, today + 33) : d >= today - 3}
          near(d, e) == d - e \in -3 .. 3
      IN /\ Countable(s) => told = {d \in due : d - today \in 0 .. 30}
         /\ s.frequency # "twiceAMonth" \/ s.next >= today =>
              /\ \A d \in told : \E e \in due : near(d, e)
              /\ \A e \in due : e - today \in 3 .. 27 => \E d \in told : near(d, e)

\* A payment that is booked on schedule is recognised as a monthly expense exactly
\* if it is due every month or every four weeks, from the third time on
\* (GetRecurringExpenseSummaryTool.ts 18-36).
RecurringIsRecognised ==
  topic = "schedule" =>
    \A s \in {t \in schedule : t.amount < 0 /\ ~t.transfer} :
      LET dates == DueDates(s, today)
          rows  == {[date |-> d, amount |-> s.amount, payee |-> s.id, transfer |-> FALSE,
                     deleted |-> FALSE] : d \in dates}
          found == RecurringExpenses(rows, Today, today)
          monthly == s.frequency \in {"monthly", "every4Weeks"} /\ Cardinality(dates) >= 3
      IN found = [p \in IF monthly THEN {s.id} ELSE {} |-> -s.amount]

\* What is due is told by every tool alike, from schedules cached at any time, and
\* what was booked on schedule is recognised by its rhythm (financeToolUtils.ts 408-520).
SchedulesAgree ==
  WindowsAgree /\ ScheduleOutlivesItsCache /\ DatesAreTold /\ RecurringIsRecognised
=============================================================================
