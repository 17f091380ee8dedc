---------------------------- MODULE Collections ----------------------------
(***************************************************************************)
(* Pages of a collection (src/collectionToolUtils.ts) and the order and    *)
(* filters of transactions (features/transactions/transactionQueryEngine). *)
(* A tool call is stateless: every page fetches the whole collection,      *)
(* filters, sorts and cuts it again. Which fields of a row are shown is    *)
(* left out: a row is its id. A collection is a function from places,      *)
(* which are integers, to its rows: a filter keeps the places of the rest. *)
(***************************************************************************)
EXTENDS Integers, Sequences, FiniteSets, SequencesExt

CONSTANT Absent   \* an input that was not given, a field without a value

DefaultLimit == 50
DefaultTransactionLimit == 20

\* Array.slice, also beyond the end
Slice(s, offset, limit) ==
  SubSeq(s, offset + 1, IF offset + limit <= Len(s) THEN offset + limit ELSE Len(s))

\* normalizePaginationNumber; inputs are integers
Normalized(value, fallback, minimum) ==
  IF value = Absent THEN fallback
  ELSE IF value < minimum THEN minimum ELSE value

\* Faulty variant: the next offset is counted from the limit.
NextByLimit(s, offset, limit, returned) == offset + limit + 1

NextOffset(s, offset, limit, returned) == offset + Len(returned)

\* Faulty variant: a page that ends with the collection names a next one.
MoreAtTheEnd(s, limitInput, offsetInput) ==
  LET offset  == Normalized(offsetInput, 0, 0)
      limit   == Normalized(limitInput, DefaultLimit, 1)
      entries == Slice(s, offset, limit)
      next    == NextOffset(s, offset, limit, entries)
  IN [entries |-> entries, total |-> Len(s),
      next |-> IF next <= Len(s) THEN next ELSE Absent]

\* paginateEntries: the rows, and where the next page starts, or Absent.
PaginateEntries(s, limitInput, offsetInput) ==
  LET offset  == Normalized(offsetInput, 0, 0)
      limit   == Normalized(limitInput, DefaultLimit, 1)
      entries == Slice(s, offset, limit)
      next    == NextOffset(s, offset, limit, entries)
  IN [entries |-> entries, total |-> Len(s),
      next |-> IF next < Len(s) THEN next ELSE Absent]

\* renderCollectionResult: without pagination controls everything at once. The
\* other list tools, and buildTransactionCollectionResult, have their own copy.
CollectionResult(s, limit, offset) ==
  IF limit = Absent /\ offset = Absent
  THEN [entries |-> s, total |-> Len(s), next |-> Absent]
  ELSE PaginateEntries(s, limit, offset)

-----------------------------------------------------------------------------
\* The rows of a collection one after the other: ahead holds the pairs of places of
\* which the first comes before the second.
InOrder(rows, ahead) ==
  [k \in 1 .. Cardinality(DOMAIN rows) |->
     rows[CHOOSE i \in DOMAIN rows :
            Cardinality({j \in DOMAIN rows : <<j, i>> \in ahead}) = k - 1]]

\* As the API sent them.
AsSent(rows) == InOrder(rows, {p \in (DOMAIN rows) \X (DOMAIN rows) : p[1] < p[2]})

Sorts == {"date_asc", "date_desc", "amount_asc", "amount_desc"}

\* Faulty variant: what ties stays as the API sent it.
WithoutIds(left, right, sort) ==
  CASE sort = "date_asc"    -> left.date < right.date
    [] sort = "date_desc"   -> right.date < left.date
    [] sort = "amount_asc"  -> left.amount < right.amount
    [] sort = "amount_desc" -> right.amount < left.amount

ById(left, right) == left.id < right.id

NewestFirst(left, right) ==
  right.date < left.date \/ (left.date = right.date /\ ById(left, right))

\* compareTransactions: left comes before right.
Before(left, right, sort) ==
  CASE sort = "date_asc" ->
         left.date < right.date \/ (left.date = right.date /\ ById(left, right))
    [] sort = "date_desc" -> NewestFirst(left, right)
    [] sort = "amount_asc" ->
         left.amount < right.amount
           \/ (left.amount = right.amount /\ NewestFirst(left, right))
    [] sort = "amount_desc" ->
         right.amount < left.amount
           \/ (left.amount = right.amount /\ NewestFirst(left, right))

\* Array.sort is stable.
SortRows(rows, sort) ==
  InOrder(rows, {p \in (DOMAIN rows) \X (DOMAIN rows) :
                   \/ Before(rows[p[1]], rows[p[2]], sort)
                   \/ p[1] < p[2] /\ ~Before(rows[p[2]], rows[p[1]], sort)})

Ids(rows) == [k \in DOMAIN rows |-> rows[k].id]

Given(input) == input # Absent

\* matchesTransactionFilters, and fromDate, which the API applies
Matches(row, filter) ==
  /\ filter.includeTransfers \/ ~row.transfer
  /\ Given(filter.fromDate) => row.date >= filter.fromDate
  /\ Given(filter.toDate) => row.date <= filter.toDate
  /\ Given(filter.payee) => row.payee = filter.payee
  /\ Given(filter.account) => row.account = filter.account
  /\ Given(filter.category) => row.category = filter.category
  /\ Given(filter.approved) => row.approved = filter.approved
  /\ Given(filter.cleared) => row.cleared = filter.cleared
  /\ Given(filter.minAmount) => row.amount >= filter.minAmount
  /\ Given(filter.maxAmount) => row.amount <= filter.maxAmount

\* ynab_search_transactions
SearchPage(rows, filter, sort, limit, offset) ==
  LET matching == RestrictValues(rows, LAMBDA row : ~row.deleted /\ Matches(row, filter))
  IN CollectionResult(Ids(SortRows(matching, sort)), limit, offset)

\* ynab_list_transactions and ynab_get_transactions_by_account, _category, _month
\* and _payee, which select at the API: runTransactionCollectionTool
TransactionsPage(rows, limit, offset) ==
  LET visible == RestrictValues(rows, LAMBDA row : ~row.deleted)
  IN CollectionResult(Ids(SortRows(visible, "date_desc")),
       Normalized(limit, DefaultTransactionLimit, 1), offset)

\* The lists that stay in the order of the API, each with its own copy.
ListPage(entries, limit, offset) ==
  LET visible == RestrictValues(entries, LAMBDA entry : ~entry.deleted)
  IN CollectionResult(Ids(AsSent(visible)), limit, offset)

ListAccounts(entries, limit, offset)              == ListPage(entries, limit, offset)
ListPayees(entries, limit, offset)                == ListPage(entries, limit, offset)
ListPlanMonths(entries, limit, offset)            == ListPage(entries, limit, offset)
ListScheduledTransactions(entries, limit, offset) == ListPage(entries, limit, offset)

\* ynab_list_categories: pages of category groups
ListPlanCategories(entries, limit, offset) ==
  ListPage(RestrictValues(entries, LAMBDA group : ~group.hidden), limit, offset)
=============================================================================
