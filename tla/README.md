# Verification of the YNAB MCP bridge

TLA+ specifications of the bridge in `src/`, TLC instances that check them and TLAPS
proofs about them. Paths below are relative to the repository; `src/src` is its
TypeScript.

## The system

The bridge is one Node process. It serves MCP (Model Context Protocol) requests over
stdio or HTTP, answers them with tools that read a YNAB plan over its REST API, and in
OAuth mode is an OAuth 2 authorization server of its own in front of an upstream
provider.

| component | source | state | operations | hard part | correct when |
|---|---|---|---|---|---|
| auth2 core | `auth2/core/authCore.ts`, `state.ts` | none; everything in the store | start, callback, redeem a code, refresh | awaits in the middle of check-then-write; several writes per handler | a state and a code are spent once; tokens lead back to an authorization; a grant has one or two active refresh tokens; nothing outlives the upstream token |
| auth2 store | `auth2/store/authStore.ts` | seven tables in memory and one file | save/update/retire; every call rewrites the file | memory changes before the write is known to succeed; crash between writes | nothing a client was told is lost; used flags never go back |
| auth2 routes | `auth2/http/routes.ts` | none | /authorize, consent, /callback, /token, /register, bearer check | which error ends where | every route runs the core operation it names |
| provider adapter | `auth2/provider/providerAdapter.ts` | none | exchange code, exchange refresh token | fails, or answers and the answer is lost; rotates its refresh token | – |
| HTTP transport | `httpTransport.ts`, `originPolicy.ts`, `authAdmissionPolicy.ts` | pool of server runtimes | request, close | a response can close at any await; who is let in depends on the order of the handlers | a runtime serves one request at a time and is returned; closing ends; a protected request brings a token |
| YNAB client, limiter | `ynabApi.ts`, `ynabRateLimiter.ts` | per token: queue and timestamps | acquire, evict, retry after 429 | promise chain, timers, eviction under waiters | never more than 200 requests in an hour per token; every call is served |
| cached reads, plan resolution | `cachedYnabReads.ts`, `planToolUtils.ts` | promises by key on the API object | read, resolve, recover | shared in-flight promises that fail | one request per key; a failure is not cached |
| analysis sessions | `financialAnalysisState.ts` | sessions by token, a counter | create, get | expiry, restart | a token names the session it was given for |
| reliability runner | `reliabilityRunner.ts`, `reliabilityHttp.ts`, `reliabilitySummaryUtils.ts`, `reliabilityArtifact.ts` | next index, buckets | run probes, sum up, compare, exit code | workers on a shared index; a probe fails | every index probed once; a run ends; parts add up; better results are not judged worse |
| collection tools, query engine | `collectionToolUtils.ts`, `features/transactions`, list tools | none | filter, sort, cut a page | pages are cut from a ledger that changes between them | a walk loses and repeats only what changed places |
| report tools | `financeToolUtils.ts`, `features/financialHealth` | none; they read through the caches | some twenty reports | cached balances, months and schedules next to fresh transactions; copies of one computation | figures that are computed twice agree; parts sum up to the whole |
| configuration | `runtimeConfig.ts` | none | read settings | an old and a new way to ask for OAuth | no setting that asks for OAuth starts an open server |

Tools call the YNAB client through cached reads and plan resolution; the transport gives
each request a server runtime; in OAuth mode the routes admit a request only with a
token the store knows. `PROJECT.json` lists every component with its files, and every
hazard with its line and the properties that cover it.

## The modules

### AuthStore, AuthCore: the OAuth server

`AuthStore` has the record types of `authStore.ts` and one operator per store operation,
from the store before to the store after. `AuthCore` is the state machine:

| variable | code |
|---|---|
| `mem` | `state` inside `createAuthStore` |
| `disk` | the JSON file, what a restart reads |
| `requests` | what each handler in progress holds across its await |
| `now` | `Date.now()` |
| `provider` | external: the newest refresh token the provider gave for a flow |
| `delivered`, `faults` | history: token pairs a client received; faults so far |

An action is one uninterrupted turn of a handler, from one await to the next.
`Turn(r, writes, next, answered)` says how a turn with several store calls can end: all
persisted (`Completes`); `persist()` throws at one of them, with memory one step ahead of
the file (`PersistThrows`); the process dies between two (`DiesAfterWrite`). So every
handler has its crash points without an action for each.

| action | handler |
|---|---|
| `RegisterClient` | POST /register |
| `StartAuthorization` | `startAuthorization`: state, then transaction |
| `HandleCallback`, `IssueAuthorizationCode`, `ProviderRefuses` | `handleCallback` before and after the provider's answer |
| `RedeemCode`, `IssueTokens` | `exchangeAuthorizationCode` around its await |
| `StartRefresh`, `ProviderRefreshes`, `ProviderAnswerLost`, `RotateTokens` | `exchangeRefreshToken` around its awaits |
| `Restart`, `Tick` | process restart; the clock |

A request that fails a check gets an error and changes nothing, which is a stuttering
step; an unknown client, a wrong scope or a replay is in the guards. Abstractions: a
state and its transaction are one member of `Flows`, an access and a refresh token one
member of `Tokens`, since they are minted together; identifiers are drawn when they are
first stored; PKCE, redirect URIs, subjects and props are left out, as is the optional
`tokenExchangeCallback`, which the server does not configure. `Tick` is disabled between
the last await of a handler (a resolved promise) and its writes, which are microtasks
apart. A write of the file is atomic and durable when the call returns; loss of power
under the file system is not modelled. `parent` and `upstreamEnd` are history fields.

### AuthLedger, AuthDurability: what the file promises

`AuthLedger` is the abstract promise of the store file: an append-only ledger of spent
states, spent codes, grants and tokens in which entries never disappear and a grant is
never entered twice. `AuthDurability` maps the file of `AuthCore` to it (`FileIsLedger`).

### RateLimiter: the limiter and the fetch loop

`states` is the map, `timestamps` and `queue` the two fields of a `TokenState` object,
`callers` the fetch calls in progress. Objects have an identity of their own, because a
caller keeps using the object it found after the map has forgotten it. A timestamp is
kept as its age, up to `Window`, and a sleep as what is left of it: the state is finite
without any bound on the clock. `TakeSlot` and `Sleep` are the two ways a turn of the
loop in `acquire` ends, `Evict` is what follows the await, `BackOff` and `Retry` the 429
branch of the fetch loop. Timers and responses are handled when no microtask is pending
(`Settled`).

### PlanReads: cached reads and plan resolution

`resolutions` is the map of lookups in flight, `reads` the map of cached reads, `promises`
what each promise stands for and what became of it, `callers` the tool calls inside
`withResolvedPlan`, `account` the owner's plans. `Call` is the start of a tool, `Resolved`
and `Unresolved` the two ends of `resolvePlanId`, `Answered`, `Recover` and `Refused` those
of the operation, `LookupAnswered`, `LookupFails`, `ReadAnswered` and `ReadFails` the API.
`Read` and `Resolve` join the promise they find in the map or start one. `Change` lets the
owner edit, add or delete plans at any time. A promise that nothing refers to is free
again, so their number is no bound on time. An operation makes one read; the key of a
lookup is the plan it excludes, because the recovery is the only caller that ignores the
configured plan.

### AnalysisSessions: analyses that clients go on with

`counter` and `sessions` are the two fields of the store of `financialAnalysisState.ts`.
`StartAnalysis` and `FinishAnalysis`, `StartUpdate` and `FinishUpdate` are the anomaly
tools before and after their reads, `Refine` is the explanation tool with a token, `Fail`
a read that throws, `Restart` a new process with an empty store and a counter at zero.
Time is what is left of a session and the age of an analysis, up to its time to live, so
the clock has no bound. The payload is the number of the analysis; what it contains is in
`LedgerTools`.

### Calendar, Collections, Figures, Spending, LedgerTools: a client and its ledger

`Calendar` has the dates (days since a first of January, months without leap days),
`Collections` the pages, orders and filters of the list and search tools, `Figures` what
the report tools compute from accounts, months and scheduled transactions, `Spending`
what they compute from transactions. These four are operators, one for each tool or
helper. A figure that the code computes in two places is written twice here as well:
whether and how far the copies agree is what the properties say.

`LedgerTools` sets them in motion. A conversation has one of five topics: a walk through
pages (`StartWalk`, `NextPage`) of any of seven tools; reports (`Report` reads accounts and
months, which stay cached); the budget of a month (`MonthReport`) while months begin
(`MonthTurns`); anomalies (`Analyse`) and their updates (`Update`); scheduled transactions
that are cached (`ReadSchedule`) while days pass, due ones are booked (`Pass`), and the
owner deletes, puts off, changes or adds one (`Reschedule`). In the other topics the owner
books, approves and deletes transactions (`Change`), and the API sends collections in
either of two orders. `seen` and `cached` are the cached reads, `walk`, `copy` and `session`
what the client and the server have of a walk or an analysis.

A month is cached under the key a tool asks with. Goal progress, budget health, the
snapshot and the plan month pass the input "current" on as it is (`AsGiven`), the other
tools turn it into the date of the month first (`Normalizing`, `NormalizeMonthInput`), so
the same month may have two reads of different times. The read under "current" is of the
month that was current when it was first asked for, and never expires (`SeenMonth`).

When a scheduled transaction falls due is the owner's calendar (`DueDate`, external): on
the day of the month it started on, or on the last of a month that lacks it; twice a month
on that day and on the one fifteen days before or after it. What the tools make of a next
date is the code's arithmetic (`Occurrences` of `Figures`), written apart from it.

Amounts are whole hundredths, which is the precision that is shown. Projection of fields,
lists cut to their longest entries and prose are left out.

### HttpPolicy, HttpServer: requests

`HttpPolicy` decides: `ServerOf` is the server that settings start, `SettingsAccepted`
whether they start one, `BeforeBody` and `AfterBody` the handlers of `httpTransport.ts`
in their order, each of which answers or passes on (`FirstOf`), `PassesWithoutToken` the
guard of the routes, `Admission` the second copy of its rules, `LoggedAsProtected` the
third, of the method that the line of the log could know: none before a parser has read the
body (`MethodLogged`). Hosts and origins are kinds of names.

`HttpServer` is the life of a request:

| variable | code |
|---|---|
| `server`, `listening` | the configuration; whether the socket listens |
| `slots` | each request between its arrival and the last that goes on of it: `at` its handler, `open` its response, `cleanup` who runs it |
| `pool` | `createRuntimePool`: each runtime busy or not, and whose transport is on it |
| `peak`, `faults` | history: the most holders at once; failures so far |

| action | code |
|---|---|
| `Arrive`, `Rejected` | the handlers before and after the body |
| `Dispatch`, `DispatchFails` | acquire, connect, arm the close event; connecting fails |
| `ToolAnswers`, `HandlerThrows`, `HandlerFails` | `handleRequest` returns or throws; the error handler answers, or cuts a response off whose headers were sent (`ErrorAnswers`) |
| `CloseEvent`, `ClientLeaves` | the response closes because it was answered or the client left |
| `CleanupEnds` | the await in the cleanup is over and the runtime released |
| `Close`, `ServerClosed` | `close()` of the server |

### ReliabilityReport, ReliabilityRun: probes

`ReliabilityReport` is the summary, comparison and exit code. `ReliabilityRun` composes
workers (`Send`, `Receive`, `Refused`, `ProbeEnds`, `ProbeThrows`) with `HttpServer`:
`nextIndex`, `workers` and `buckets` are the locals of `runReliabilityProbes`. It is also
the specification under which the server is checked: besides a run, the topic may be
traffic of clients that leave when they like, one request of any kind to a server of any
settings, or a report. A probe's notification after `initialize`, and the GET the SDK's
client sends and the server answers with 405, are left out.

## The runs

Every checked specification has an `MC` module with its instances and one `.cfg` for each
run. The run names are those of `PROJECT.json`, which also has a mutant, a plausible bug in the code,
for every property of a passing run: with it TLC finds the property violated. Mutated
definitions stand before the ones they replace, called faulty variants.

| run | instance | checks |
|---|---|---|
| `auth_issue` | two clients, flows, codes, grants and requests, two faults, one tick | `TypeOK`, `SpentOnce`, `Lineage`, and `FileIsLedger` (refinement) |
| `auth_rotation` | one grant, two overlapping refreshes, four token pairs, two ticks to a second, upstream lifetimes of one or two seconds, three ticks, one fault | `AtMostTwoActive`, `DeliveredIsDurable`, and `LifetimeCapped` along chains of refreshes |
| `auth_sequential` | two grants, whose refreshes overlap with each other and with everything else but not with one of the same grant (`SequentialSpec`); three token pairs, three refresh tokens of the provider, two faults | `SuccessorRetires`, `NeverLockedOut`, `OneUpstreamTokenPerFault`, `ScopesNeverWiden` |
| `auth_resurrection` | two refreshes that wait for the provider, no faults | `SuccessorRetires` is violated |
| `limiter_one_token` | three calls, two requests in a window of four, one retry | `TypeOK` with `QueuesAreInTheMap`, `WindowBound`, `NeverOversleeps`, `EveryCallerAdmitted` |
| `limiter_eviction` | two tokens, three calls, one request in a window of two | `WindowBound` is violated |
| `plan_reads` | two calls, two plans, one change of the account | `TypeOK`, `ReadsTheRightPlan`, `SingleFlight`, `FailuresAreNotCached`, `ReadsAgree`, `EveryCallEnds` |
| `plan_stale` | one call, two plans of which one lacks what is read, no change | `MovesOnlyFromStalePlans` is violated |
| `sessions_ttl` | two calls, three analyses, one restart | `TypeOK`, `TokensAreNotReused`, `KeptForItsTtl`, `NothingStartsFromExpired` |
| `sessions_restart` | one call, two analyses, one restart | `RelativeToItsToken` is violated |
| `ledger_tools` | six transactions on the edges of three months, five accounts, two changes, or one while months begin; ninety days of schedules of every frequency, also from the last day of a month, with one edit | `TypeOK`; walks lose and repeat only what moved (`WalksDeliver`); reports agree with each other, or differ by what was booked between their reads (`FiguresAgree`), with their parts (`FlowsAddUp`) and with the history of the ledger (`TrajectoryOffByTheUnseen`); a client that patches has what the server has (`DeltaRestoresCurrent`); cached schedules go on to show what was not edited, dates are told as they fall due, and what was booked on schedule is recognised (`SchedulesAgree`) |
| `http_reliability` | two slots; runs of up to three probes by up to two workers; three strangers; some 2600 pairs of settings and a request; reports of up to 101 results; one fault | `TypeOK` with `PoolIsPeak`, `HeldByOne`, `EveryProbeOnce`, `AdmissionIsOne`, `SettingsFailClosed`, `ReportsAreSound`, and `RunEnds`, `CloseEnds` under fairness |

Several properties are conjunctions of named parts, each with a comment and a mutant of
its own: `LifetimeCapped` of `CappedByGrant` and `OverstaysLessThanACode`; `WalksDeliver` of
`PagesMissOnlyWhatLeft`, `PagesRepeatOnlyWhatCame` and `PagesMakeOneList`; `FiguresAgree` of
the accounts, the budget and the statuses derived from both; `FlowsAddUp` of `TotalsAddUp`
and `ChangeIsExplained`; `SchedulesAgree` of `WindowsAgree`, `ScheduleOutlivesItsCache`,
`DatesAreTold` and `RecurringIsRecognised`; `AdmissionIsOne` of `AdmittedOnlyWithToken` and `CopiesAgree`;
`ReportsAreSound` of `SummaryAddsUp` and `ExitCodeIsMonotone`.

`NeverLockedOut`, `OneUpstreamTokenPerFault`, `SuccessorRetires` and `ScopesNeverWiden` hold
only when refreshes of one grant do not overlap, which is why `auth_sequential` checks
`SequentialSpec`: `Spec`, and always `RefreshesDoNotOverlap`. Four runs are expected to fail, and each shows a disagreement of the code
with what its documentation or a test says:

* `auth_resurrection`: a refresh that waits for the provider marks its own token active
  again (`authCore.ts` 568) after a refresh with its successor has retired it; the refresh
  specification calls such a token no longer active.
* `limiter_eviction`: `evictStaleEntries` (`ynabRateLimiter.ts` 84) deletes a state with a
  waiter in its queue, and the next call for that token starts an empty window: more
  requests than the limit within one window.
* `plan_stale`: an error that says "not found" of a month or an account makes a call
  without a plan id leave its configured plan, although that plan exists
  (`planToolUtils.ts` 60).
* `sessions_restart`: the counter starts again with the process, and a token of the old
  one names an analysis of the new one (`financialAnalysisState.ts` 79).

### Bounds

Identifiers of the OAuth server run out: two flows, codes and grants are enough for any
two authorizations to meet, and what the properties relate are two records of a kind or a
chain of three tokens, which `auth_rotation` and `auth_resurrection` have. `MaxFaults`
bounds failed writes, crashes, restarts and lost answers together, `MaxRotations` the
provider's refresh tokens, `MaxTime` the clock. Two clock units to a second let an instant
fall between two seconds, where the code rounds down. The limiter needs no bound on time;
three calls fill a window of two and leave one to wait. In `PlanReads` four promises are
enough for two callers and two plans. In `AnalysisSessions` three analyses let a token be
drawn after one of two earlier ones was deleted. In `LedgerTools` two changes are enough
for one transaction to leave from the front of a walk and another to come, one to tell a
month or a schedule read before it from one read after it, and the transactions lie where
months, dates and amounts meet. Ninety days from the first of January have two ends of
months and a month of 28 days; `Step` lets a month pass in two or three steps. In `HttpServer` two slots suffice
for one request to take the runtime another is giving back; `MaxFaults` bounds its
failures, and the numbers of results are those at which a percentile moves.

Deadlock is not checked for `AuthCore`, whose identifiers run out, nor for `LedgerTools`
and `ReliabilityRun`, where a conversation or a run is over some time; the other models
never stop. Symmetry is used only in runs without liveness; in the refinement run it is
sound because the mapping picks from at most one key.

The upstream lifetime is counted from the redemption of the code and not from the
provider's answer (`authCore.ts` 388); `OverstaysLessThanACode` bounds what that adds.

### Fairness

Fairness is assumed by `RateLimiter`, `PlanReads` and `ReliabilityRun`. The limiter's is
weak for the turns of a task (microtasks always run) and strong for the clock and for
timers, because new calls may come in between as often as they like, and the event loop
handles a timer that is due all the same. In `PlanReads` the API answers every request, or
the client library gives up: `planToolUtils.ts` and `cachedYnabReads.ts` have no timeout of
their own and would wait with the request. In `ReliabilityRun` one weak condition on all
that goes on by itself (`GoOn`) is enough, because the work is finite: workers, handlers,
responses and cleanups take turns as long as one is due. It assumes that tools answer or
fail in the end, as the HTTP code has no timeout; nobody has to leave, close the server or
fail.

## The proofs

TLAPS checks these for all values of the constants. The modules `*Proofs` extend the module
they are about, so nothing of the runs changes; the last step of each theorem is the
temporal one, and everything before is about one state or one step.

| module | theorem | states |
|---|---|---|
| `AuthCoreProofs`, part 1 | `TypeCorrect`, `SpentOnceHolds` | `TypeOK`; `SpentOnce` |
| `AuthCoreProofs`, part 2 | `LineageHolds`, `LifetimeIsCapped`, `AtMostTwoAreActive`, `DeliveredStaysDurable` | `Lineage`; `LifetimeCapped`; `AtMostTwoActive`; `DeliveredIsDurable` |
| `AuthCoreProofs`, part 3 | `FileImplementsLedger` | `FileIsLedger`, the refinement |
| `AuthRefreshProofs` | for `SequentialSpec`: `SuccessorRetiresForGood`, `ClientsAreNeverLockedOut`, `FaultsCostOneTokenEach`, `NarrowedStaysNarrow` | `SuccessorRetires`; `NeverLockedOut`; `OneUpstreamTokenPerFault`; `ScopesNeverWiden` |
| `RateLimiterProofs` | `SleepsFit`; with one token `TypeCorrect`, `WindowHolds` | `NeverOversleeps`; `TypeOK`, `WindowBound` |
| `PlanReadsProofs` | `TypeCorrect`, `RightPlanIsRead`, `FlightsAreSingle`, `FailuresLeaveTheMaps`, `AnswersAgree` | `TypeOK`; `ReadsTheRightPlan`; `SingleFlight`; `FailuresAreNotCached`; `ReadsAgree` |
| `AnalysisSessionsProofs` | `TypeCorrect`, `TokensAreUnique`, `KeptLongEnough`, `ExpiredIsRefused` | `TypeOK`; `TokensAreNotReused`; `KeptForItsTtl`; `NothingStartsFromExpired` |
| `HttpServerProofs` | `RuntimesAreHeldByOne`, `AdmissionHolds`, `SettingsHold` | `HeldByOne`; `AdmissionIsOne`; `SettingsFailClosed` |
| `ReliabilityRunProofs` | `ProbesAreMadeOnce`, `TypeCorrect`, `ReportsHold` | `EveryProbeOnce`; `TypeOK` with `PoolIsPeak`; `ReportsAreSound` |
| `LedgerToolsProofs` | `WalksReachEverything`, `ConversationsAreTyped`, `UpdatesRestoreTheList`, `HistoryIsTold`, `FlowsHold`, `FiguresHold`, `SchedulesHold` | `WalksDeliver`; `TypeOK`; `DeltaRestoresCurrent`; `TrajectoryOffByTheUnseen`; `FlowsAddUp`; `FiguresAgree`; `SchedulesAgree` |

The assumptions about the constants say that numbers are numbers and not zero where the
code would not start with zero, that `None` is none of the values it is told from, and that
`Absent`, which a page has for no next offset, is no number. Others say more.
`CategoryIds`, `ListsAssumption`, `TransactionsAssumption`: YNAB gives each category, account
and scheduled transaction an id of its own, and the collections of a plan are finite;
`StartAssumption`: what accounts have at first are integers; a scheduled transaction, also
one the owner adds, has a frequency of the API and starts at its next date, which is not
before today; the plan has at most one of an id; "current" is no date; `WalksAssumption`: a walk is of
one of the seven tools, with a limit of at least one and one of the sort orders of its
schema. `MonthsAssumption`: the months of a plan follow one another. `PlanAssumption`: the API
closes only empty accounts, calls only goals underfunded, and has a month for whatever is
booked. `SamplesAssumption`: a
case of the report has finitely many results with latencies of at least zero, and its better
results are of the same requests, none slower and none failed that was not.

### The OAuth server

`SpentOnce` is not inductive: a handler that waits creates its code or its grant without
looking at the store again. The invariant `Inv` of `AuthCoreProofs` adds why that is safe: a
code implies that its state is used and a grant that its code is (`GoodStores`, of the
memory and of the file, because a restart replaces one by the other); a handler that waits
holds a state or a code that is used and has given nothing yet (`Grounded`); and no two
wait with the same one (`Apart`). Each store operation has a lemma that says what it keeps,
`TurnKeepsInv` carries them over the ways a turn can end, and there is a lemma for every
action.

`RecordsInv`, in part 2, extends `Inv`. Both stores are sound: every record has
the one it was made from, with no scope more, no life beyond it, and at most two active
refresh tokens to a grant. The memory has everything that the file has (`Grows`). And what a
waiting handler remembers still agrees with the memory (`Supported`). The argument is one
relation: every store operation makes a sound store from a sound one and takes nothing back
(`Extends`); that is transitive, so it holds over the writes of a turn, at each of which the
process may die; and what a handler relies on survives whatever takes nothing back, so the
turns of others cannot disturb it. That the end of a grant is counted from the redemption of
its code and not from the answer of the provider is in the invariant as an inequality with
the life of a code, and this is what `OverstaysLessThanACode` bounds. What was delivered is
on the file because the file takes nothing back either: its writes are those of the memory,
a step later.

The refinement follows from the same invariant. In a sound store no two codes, and no two
grants, belong to one flow, so the mapping, which chooses the key of a flow, is determined;
a store that takes nothing back has a ledger that takes nothing back; and a sound store
gives an entry only on top of what it rests on. Part 3 shows that the empty
file is the empty ledger and that every step of `AuthCore` is one addition or a stutter.

The four theorems of `AuthRefreshProofs` are false without their hypothesis, as TLC shows
for each, and for the first in `auth_resurrection`: a slow refresh writes scopes and an
upstream token that a fast one has replaced, and retires the token that the fast one was
answered. `SequentialInv` is `RecordsInv`, `RefreshesDoNotOverlap` and two parts. `OrderInv`:
a token with a grandchild is retired, every grant with a token has an active one, a refresh
waits with an active token and no scope that its grant has not, and the grants on the file
have at least the scopes of those in memory; the parent of a token is another one of its
grant, which makes the token that a rotation retires not the one that it creates.
`UpstreamInv` holds through faults. What a grant holds of the provider, in memory and on the
file, lags behind what the provider gave by no more than the faults so far, and by one more
while a refresh carries the provider's answer to the turn that stores it (`KeepsUp` with
`Slacks`). A refresh that waits for the provider presents what the memory holds, and one that
carries an answer misses no more than the faults did (`Carries`); a crash or a failed write
that drops a refresh with its answer is a fault, which is what its slack turns into. With
overlapping refreshes this is false: a slow one stores a token that others have replaced, any
number of them without a fault.

### The limiter

`Sound` holds for any number of tokens: ages descend in every state, whoever waits is in
the queue of its state and who sleeps is at its head, and a timer fits the window it was
computed from (`NeverOversleeps`). Evictions by other callers prune under a sleeper, which
is why that is not obvious: what is pruned has expired, and the ages of a sleeper's state
that are left start with the one that it waits for. `Min` of a set of indices is the lemma
that all pruning rests on (`LeastOfNats`, by well-founded induction), and `WindowCases` says
what pruning leaves.

`WindowBound` and `TypeOK`, which says that queues in use are those of the map, are false
with two tokens, as `limiter_eviction` shows, so the theorems have a hypothesis, `OneToken`.
It is that of a bridge with one configured access token, `YNAB_API_TOKEN`
(`readYnabConfig` of `ynabConfig.ts`). `Inv` adds to `Sound` that the
state of the token holds exactly what was sent within the window, expired ages aside
(`WindowIsKept`), and that a caller about to evict has just left an age of zero
(`NewestIsFresh`): with that the eviction cannot drop the state of the only token.

### Cached reads and plan resolution

The typed part of the invariant is not enough for `ReadsTheRightPlan`: it needs that a
promise under a key of a map is one for that key (`MapsHold`), that what is on its way is
under its key (`InTheMaps`), that a call waits for a promise of what it asked for
(`CallersHold`), and that of all calls that wait for one lookup one will take it out of the
map (`OneCreator`). `SingleFlight` is then a consequence of `InTheMaps`: two promises on their
way for one key would be one entry of the map. `ReadsAgree` needs that the read a call was
answered from is still the one in the map (`AnswersStand`).

### Analysis sessions

The invariant of `AnalysisSessionsProofs` adds that the counter is at least every token of
the current life (`Counted`), that these differ (`TokensDiffer`), and that what is left of a
session and the age of its analysis add up to the time to live (`Filed`). The action
property `NothingStartsFromExpired` follows from `Filed` at the step that starts an update.

### The HTTP server and the runs

Three invariants, each inductive by itself or on top of the one before:

* `Inv` adds to `HeldByOne` when a request can have a runtime at all (`OneByOne`: it is one
  of the pool, only once the body is read, and an armed request still has an open
  response); without the last part the shutdown, which takes off every transport, could
  leave an armed request without its own. It is stated for any function of requests and any
  sequence of runtimes (`Sound`), so that each kind of step has one lemma that says which
  replacement keeps it: nothing of the runtime changes, a runtime is taken, a cleanup
  starts, it is given back.
* `Guarded` says of every request what its state tells (`Vetted`): one that was not answered
  with 403 has a host and an origin that are accepted; one that has a runtime, or was shown a
  resource document, under OAuth was let in by the guard. The lemmas about the order of the
  handlers (`BeforeBodyAdmits`, `AfterBodyAdmits`) are what it rests on, and
  `CopiesOfTheRules` compares the copies of the admission rules for every request there is.
* `Peaked` bounds the pool: a runtime is created only if none is idle, and then every runtime
  has a holder of its own (`BusyAreHeld`, an injection), or by a dispatch that fails, which
  is counted.

`ReliabilityRunProofs` adds two about the workers. `RunInv`: their indices differ and lie
below the counter (`TakenOnce`), also those beyond the last probe, and a worker that goes on
has the index of a probe. `Progress`: a worker has the results of the steps before its own
and went on after the first two only if they succeeded, and every index beyond the last probe
is that of a worker, from which the bound on the counter follows by counting. The five
together imply `TypeOK`.

`ReportsAreSound` is about data: results never change once there are any (`SampleInv`), and
the rest are lemmas about any results. `InOrderIsTheOne` is the definition of sorting that
the percentiles need: there is a value with no more than `index` values below it and more
than that up to it, the least one, by well-founded induction. `PercentileIndex` is the
arithmetic of the code's index for a half, 95 and 99 percent. Two sums agree if they are of
the sizes of the parts of one set (`PartsSumUp`), and smaller numbers have a smaller sum
(`SumMonotone`); both by `OneByOneInduction`, on the number of summands, after
`SumIsPartial` has shown that the fold of the community modules satisfies its recursion. That
better results are not judged worse is then one lemma for each condition of the verdict; the
error rates and the reductions are products of two unknowns, for which `TimesMonotone` is
stated apart.

### A client and its ledger

Every collection of `LedgerTools` is a function from places (integers) to rows, so that the
order of the API is that of its domain; totals are folds over sets. What is proved of both is
first proved of operators of `Collections`, `Calendar` and `Figures`.

`WalksReachEverything` rests on `WalkInv`. Every page is cut from the one list of what belongs
to the walk at that time (`PagesHaveOneList`, by tool), which is sorted by an order of all
that may ever belong to it (`Orders`): the ledger changes what is on the list, never which of
two items is before the other. The place of an item (`Place`) is the number of those before
it, so it moves back only by what comes and forward only by what leaves. That gives the three
parts of the invariant: what belonged to the walk throughout and is before the next offset was
delivered (`MissesNone`), nothing came twice (`RepeatsNone`), and over a steady ledger the i-th
that was delivered has place i (`InPlace`). It is inductive because nothing but the ledger
changes during a walk: months are cached by its first page, and the schedule stands still.

`ConversationsAreTyped` needs that a next date exists and is the least (`FirstIsThere`, by
well-founded induction).

Sums are proved once. `Sums` is the total of a finite function, with the recursion of the
folds (`FoldIsSums`); totals of disjoint sets join (`TotalsJoin`), a total is that of its parts
by any key (`TotalByKey`), keeps its value when its summands are renamed (`TotalReindexed`) and
loses nothing with summands that are zero (`ZerosAreNothing`). With these, four results:

* `HistoryIsTold`: a balance is what an account opened with and what was read; less what is
  booked after a month it is what was booked up to its end, but for the difference of what was
  read and what is booked now, which is the same in every month (`BalancesAdd`).
* `FlowsHold`, totals: months of the plan that follow one another cut its dates into disjoint
  ranges (`MonthsApart`, `MonthOrder`, `RangesAreOfThePlan`), so a row of a range is in one month of
  it; months, categories, groups and payees are keys of the same rows.
* `FlowsHold`, changes: a change is the sum of what each row adds to it, positive in one
  period and negative in the other; a driver that is not shown adds nothing, also when the
  periods overlap.
* `FiguresHold`: what one tool counts and another leaves out adds nothing (an empty account, a
  category that is no goal); at the end of the last month nothing is left to take out
  (`TheEndIsNow`); a score of 100 has no penalty, and a penalty is for one problem
  (`FullScore`); a day's share of a month's spending is rounded by too little to move cash
  that lasts three months below thirty days (`RoundedShare`); and two reads of one month under
  two keys differ by the sums of what was booked or deleted between them, and in the number of
  overspent categories by no more than the categories this touched. `MonthInv` says that the
  month of the read under "current" is the current one or one that is over.

`SchedulesHold` needs no hypothesis about the schedules beyond `StartAssumption`.
`incrementScheduledDate` counts each date on from the one before, a schedule counts all of them
from its first. Where the frequency is in days, or every month has the day, these are the same
dates (`Countable`, `DatesFollow`), so that the tools find from any next date what falls due
later (`LaterDates`, `DatesFromNext`). Elsewhere dates that are counted on run over the end of a
short month, by three days at most however often that happens, and so do those of twice a month
if the next date is not over; `DatesAreTold` says that each is near a date of the schedule, and
each of these near one that is told. `ScheduleInv` says that every next date is a date of its
schedule, before which nothing is due any more; and that what the owner did not edit is in the
cache as in the plan, but for its next date and whether one that was due once is gone (`Akin`).
The other parts follow:

* What falls due in the plan and was not edited has a twin in the cache, of the same id, date
  and amount, and no two have one twin (`Matched`), so sums and counts are the same
  (`ObligationsAreAlike`).
* A window of obligations is what is due next in it and what is due again; of windows, the
  shorter is within the longer (`WindowsAreNested`).
* Dates a month apart are 28 to 31 days apart, so their mean interval is from 25 to 35 days;
  of the other frequencies it never is (`RhythmIsTold`).

### Updates of an analysis

`UpdatesRestoreTheList` needs no figure. A list of anomalies has one entry for each category
(`OnePerId`, from `CategoryIds`, because entries are made from categories), and an entry is
what its id and its three figures make it (`IsAnomaly`): so an entry of the old list is in
the new one, or removed, or replaced by the one that is compared with it. The update
compares the three figures; names of categories are not modelled, which it does not compare.

### What is model-checked only

* Liveness (`EveryCallerAdmitted`, `EveryCallEnds`, `RunEnds`, `CloseEnds`), which needs
  fairness and `ENABLED`, also out of its reach.
* The runs that are expected to fail.

## Plan

Done: the modules above and the proofs about `AuthCore`, its file and its refreshes,
`RateLimiter`, `PlanReads`, `AnalysisSessions`, `HttpServer`, `ReliabilityRun` with its
reports, and `LedgerTools`: walks, types, updates, histories, flows, figures and schedules.
Open: a decision on what the code should do with the read of "current" and with the dates
listed below, after which `BudgetFiguresAgree` and `DatesAreTold` can be made equalities.

## Not modelled

* The catalogue of tools in `serverRuntime.ts`: it registers each tool once per runtime
  and has no control of its own. Its instances are the runtimes of `HttpServer`.
* `clientProfiles/`, `localTokenService.ts`, `oauthVerifier.ts` and
  `cloudflareCompatibility.ts`: the running program does not import them.
* The local bridge that the reliability CLI starts when no URL is given, and the k6 load
  suite, which runs another program.
* A second `close()` of the HTTP server, which returns at once while the first waits.
* Formatting and projection of results, prose, logging, the MCP SDK, PKCE and redirect
  URI checks, build scripts and generated output.

What the models show where tools do not agree:

* The read under "current" never expires. Once the month is over, goal progress, budget health
  and the snapshot go on to report the old one as current, while the tools that resolve the
  input report the new one; within a month the two differ by what was booked in between
  (`BudgetFiguresAgree`).
* `addMonths` (`financeToolUtils.ts` 367) lets the 29th to 31st of a short month run over into
  the next and counts on from there, and fifteen days on are not the next date of twice a
  month: dates told are up to three days off (`DatesAreTold`), and for twice a month more once
  the cached date is over. `ScheduleOutlivesItsCache` and `DatesAreTold` name what they leave
  out.
* A scheduled transaction that the owner edited is shown as it was cached, as long as the
  process lives.
* Until a parser has read the body, every line of the log calls a request to the MCP path
  protected in OAuth mode, the public bootstrap methods included (`CopiesAgree`).

Some things the models show and no property is about: in OAuth mode a GET or OPTIONS of
the MCP path without a token is answered with 401, where `authAdmissionPolicy.ts` would
allow it, and a bootstrap method passes the guard with an Authorization header of another
scheme (`CopiesAgree` names both exceptions); an artifact compared with itself
fails where an improvement is required.

`PROJECT.json` says of every component what is modelled of it and why the rest is not.
