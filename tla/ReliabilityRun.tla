--------------------------- MODULE ReliabilityRun ---------------------------
(***************************************************************************)
(* A reliability run (src/reliabilityRunner.ts, src/reliabilityHttp.ts)    *)
(* against the HTTP server, which may be closed meanwhile. Workers take the*)
(* indices of the probes from one counter; a probe is a client that        *)
(* initializes, lists the tools and calls some, one request after the      *)
(* other, and is closed.                                                   *)
(*                                                                         *)
(* What is asked about is one of four topics, which keeps the state space  *)
(* a sum: a run; the traffic of clients that may leave before they have an *)
(* answer; a single request to one of many servers; a report.              *)
(***************************************************************************)
EXTENDS HttpServer, ReliabilityReport

CONSTANTS
  Runs,         \* [count, concurrency, closable]: the numbers asked for, and whether
                \* somebody may close the server
  Calls,        \* tool calls of a probe
  LocalServer,  \* the settings of the server that the run is for
  Request,      \* a request record of a client of that server
  Traffic,      \* requests of clients that need not wait
  PolicyCases,  \* pairs of settings and a request
  Samples       \* cases of the report: [results, better, baseline]

ASSUME RunsAssumption == Runs \subseteq [count : Nat, concurrency : Nat, closable : BOOLEAN]
ASSUME CallsAssumption == Calls \in Nat \ {0}

\* What the handlers look at is there, and what is not free text is known.
IsRequest(r) ==
  /\ DOMAIN r = {"method", "path", "host", "forwarded", "origin", "bearer", "assertion",
                 "rpc", "session", "body"}
  /\ r.bearer \in {None, "basic", "live", "dead"}
  /\ r.assertion \in BOOLEAN
  /\ r.body \in {"ok", "broken", "large"}

ASSUME RequestsAssumption ==
  /\ IsRequest(Request)
  /\ \A r \in Traffic : IsRequest(r)
  /\ \A case \in PolicyCases : IsRequest(case.request)

\* In the other results of a case every request is at least as fast, and none fails
\* that did not.
ASSUME SamplesAssumption ==
  \A case \in Samples :
    /\ IsResults(case.results) /\ IsResults(case.better)
    /\ DOMAIN case.better = DOMAIN case.results
    /\ \A i \in DOMAIN case.results :
         /\ case.better[i].operation = case.results[i].operation
         /\ case.better[i].latency <= case.results[i].latency
         /\ case.results[i].ok => case.better[i].ok
    /\ case.baseline = None \/ IsResults(case.baseline)

ASSUME ResultsAssumption == None \notin Seq(BOOLEAN)

VARIABLES
  topic,      \* what is asked about
  run,        \* the run, an empty one if it is about something else
  settings,   \* the settings of the server
  sample,     \* the case of a report, or None
  strangers,  \* requests of the traffic, or of the policy, that may still come
  nextIndex,  \* the counter of the workers
  workers,    \* where each worker is
  buckets     \* the results by index, None before they are there

runVars == <<topic, run, settings, sample, strangers, nextIndex, workers, buckets>>

vars == <<serverVars, runVars>>

NoRun == [count |-> 0, concurrency |-> 0, closable |-> FALSE]

\* runReliabilityProbes
WorkerCount(r) == AtLeast(IF r.count < r.concurrency THEN r.count ELSE r.concurrency, 1)

Workers == DOMAIN workers

Indices == DOMAIN buckets

\* The operations of a probe in order, by the JSON-RPC method that they send. The
\* notification that follows initialize is left out: it is a second request like it.
Steps == [i \in 1 .. 2 + Calls |->
            CASE i = 1 -> "initialize" [] i = 2 -> "tools/list" [] i > 2 -> "tools/call"]

\* A worker with the index that it took, which ends if there is no such probe.
AtIndex(index, count) ==
  [at |-> IF index >= count THEN "ended" ELSE "sending", index |-> index, step |-> 1,
   slot |-> 0, results |-> <<>>]

\* The workers start one after the other, and each takes its index at once.
Init ==
  /\ topic \in {"run", "traffic", "policy", "report"}
  /\ \E case \in IF topic = "policy" THEN PolicyCases
                 ELSE {[settings |-> LocalServer, request |-> None]} :
       /\ settings = case.settings
       /\ InitServer(case.settings)
       /\ strangers = CASE topic = "policy" -> {case.request}
                        [] topic = "traffic" -> Traffic
                        [] topic \in {"run", "report"} -> {}
  /\ sample \in IF topic = "report" THEN Samples ELSE {None}
  /\ run \in IF topic = "run" THEN Runs ELSE {NoRun}
  /\ nextIndex = WorkerCount(run)
  /\ workers = [w \in 1 .. WorkerCount(run) |-> AtIndex(w - 1, run.count)]
  /\ buckets = [i \in 0 .. run.count - 1 |-> None]

-----------------------------------------------------------------------------
FreeSlots == {s \in Slots : slots[s].at = "free"}

\* The client of a worker sends its next request.
Send(w) ==
  /\ workers[w].at = "sending"
  /\ \E s \in FreeSlots :
       /\ \A t \in FreeSlots : s <= t
       /\ Arrive(s, [Request EXCEPT !.rpc = Steps[workers[w].step]], TRUE)
       /\ workers' = [workers EXCEPT ![w].at = "waiting", ![w].slot = s]
  /\ UNCHANGED <<topic, run, settings, sample, strangers, nextIndex, buckets>>

\* Faulty variant: a probe goes on after a failed operation.
GoesOn(worker, ok) ==
  IF worker.step < Len(Steps) THEN [worker EXCEPT !.at = "sending", !.step = @ + 1]
  ELSE [worker EXCEPT !.at = "closing"]

\* runMeasuredHttpSequence after an operation: a probe that cannot connect or list
\* the tools is over, and only one that has connected closes its client. A failed
\* call does not stop the others.
AfterStep(worker, ok) ==
  IF ~ok /\ worker.step = 1 THEN [worker EXCEPT !.at = "unconnected"]
  ELSE IF worker.step = Len(Steps) \/ (~ok /\ worker.step = 2)
  THEN [worker EXCEPT !.at = "closing"]
  ELSE [worker EXCEPT !.at = "sending", !.step = @ + 1]

Measured(worker, ok) ==
  AfterStep([worker EXCEPT !.slot = 0, !.results = Append(@, ok)], ok)

\* The answer comes. One that the client finds wrong is not told from an error.
Receive(w) ==
  LET s == workers[w].slot IN
  /\ workers[w].at = "waiting"
  /\ slots[s].status # None
  /\ Now([slots EXCEPT ![s].awaited = FALSE])
  /\ workers' = [workers EXCEPT ![w] = Measured(@, slots[s].status = "200")]
  /\ UNCHANGED <<server, listening, pool, faults, topic, run, settings, sample, strangers,
                 nextIndex, buckets>>

\* A server that is closing or stopped may refuse the connection.
Refused(w) ==
  /\ workers[w].at = "sending"
  /\ listening # "open"
  /\ workers' = [workers EXCEPT ![w] = Measured(@, FALSE)]
  /\ UNCHANGED <<serverVars, topic, run, settings, sample, strangers, nextIndex, buckets>>

\* Faulty variant: the counter does not move on.
Unmoved(index) == index

\* nextIndex += 1
Moved(index) == index + 1

\* The probe returns its results, and its worker takes the next index.
ProbeEnds(w) ==
  /\ workers[w].at \in {"unconnected", "closing"}
  /\ buckets' = [buckets EXCEPT ![workers[w].index] = workers[w].results]
  /\ nextIndex' = Moved(nextIndex)
  /\ workers' = [workers EXCEPT ![w] = AtIndex(nextIndex, run.count)]
  /\ UNCHANGED <<serverVars, topic, run, settings, sample, strangers>>

\* Closing the client throws: the worker is rejected, and with it the run.
ProbeThrows(w) ==
  /\ workers[w].at = "closing"
  /\ Fault
  /\ workers' = [workers EXCEPT ![w].at = "rejected"]
  /\ UNCHANGED <<server, listening, slots, pool, peak, topic, run, settings, sample, strangers,
                 nextIndex, buckets>>

-----------------------------------------------------------------------------
\* Somebody who does not wait for the answer sends a request.
StrangerSends(r) ==
  /\ r \in strangers
  /\ strangers' = strangers \ {r}
  /\ \E s \in FreeSlots : (\A t \in FreeSlots : s <= t) /\ Arrive(s, r, FALSE)
  /\ UNCHANGED <<topic, run, settings, sample, nextIndex, workers, buckets>>

ServerNext ==
  /\ \/ \E s \in Slots : ServerStep(s)
     \/ \E s \in Slots : ClientLeaves(s)
     \/ (topic = "traffic" \/ run.closable) /\ Close
     \/ ServerClosed
  /\ UNCHANGED runVars

Next ==
  \/ \E w \in Workers :
       \/ Send(w)
       \/ Receive(w)
       \/ Refused(w)
       \/ ProbeEnds(w)
       \/ ProbeThrows(w)
  \/ \E r \in strangers : StrangerSends(r)
  \/ ServerNext

\* What a worker, a handler, a response and a cleanup do next when nothing fails.
WorkerGoesOn(w) == Send(w) \/ Receive(w) \/ Refused(w) \/ ProbeEnds(w)

HandlerGoesOn(s) ==
  \/ Rejected(s) \/ Dispatch(s) \/ ToolAnswers(s) \/ HandlerFails(s)
  \/ CloseEvent(s) \/ CleanupEnds(s)

GoOn ==
  \/ \E w \in Workers : WorkerGoesOn(w)
  \/ (ServerClosed \/ \E s \in Slots : HandlerGoesOn(s)) /\ UNCHANGED runVars

\* The event loop takes a turn as long as one is due: bodies arrive, tools answer and
\* responses close. Which one is left open, as the work is finite. Nobody has to
\* close the server, leave, send a request of the traffic, or fail.
Fairness == WF_vars(GoOn)

Spec == Init /\ [][Next]_vars /\ Fairness

-----------------------------------------------------------------------------
\* What a probe may leave in its bucket: it stops at a failed first or second
\* operation and makes every call otherwise.
Complete(results) ==
  \/ results = <<FALSE>>
  \/ results = <<TRUE, FALSE>>
  \/ /\ Len(results) = 2 + Calls
     /\ results[1] /\ results[2]

\* Every variable holds a value of its type, the pool is not larger than what was
\* needed at once, and buckets hold what a probe may leave.
TypeOK ==
  /\ ServerTypeOK
  /\ PoolIsPeak
  /\ nextIndex \in 1 .. run.count + WorkerCount(run)
  /\ \A w \in Workers :
       /\ workers[w].at \in {"sending", "waiting", "unconnected", "closing", "ended",
                             "rejected"}
       /\ workers[w].slot \in {0} \cup Slots
       /\ workers[w].slot = 0 <=> workers[w].at # "waiting"
       /\ workers[w].results \in Seq(BOOLEAN)
  /\ \A i \in Indices : buckets[i] = None \/ Complete(buckets[i])

\* Every index below the counter is that of one worker or has its results, never
\* both; that of a probe that threw stays with its worker. So a run that resolves has
\* the results of every probe, in the order of the indices (reliabilityRunner.ts
\* 86-111).
EveryProbeOnce ==
  topic = "run" =>
    \A i \in Indices :
      LET at == {w \in Workers : workers[w].index = i} IN
      /\ Cardinality(at) <= 1
      /\ at # {} <=> i < nextIndex /\ buckets[i] = None
      /\ buckets[i] # None => i < nextIndex

\* A run ends, whatever fails, also if one of its workers was rejected, and leaves a
\* server without a runtime that is still held.
RunEnds ==
  topic = "run" ~>
    [](/\ \A w \in Workers : workers[w].at \in {"ended", "rejected"}
       /\ \A i \in DOMAIN pool : ~pool[i].busy)

\* Closing the server ends, with every response closed and no runtime attached.
CloseEnds ==
  listening = "closing" ~>
    /\ listening = "stopped"
    /\ \A i \in DOMAIN pool : pool[i].attached = None

-----------------------------------------------------------------------------
\* The three copies of the admission rules agree: what the guard lets pass without
\* a token the admission policy allows, but for requests with an Authorization
\* header of another scheme; what the policy allows and the guard asks a token for is
\* no POST. A line of the log calls nothing unprotected that the guard asks a token
\* for, unless it brings one or an assertion; a line written after the body was read
\* calls nothing protected that passes without a token, while earlier lines call
\* every request to these paths protected (routes.ts 263-294,
\* authAdmissionPolicy.ts 84-115, httpTransport.ts 954-968, 987-990, 1014-1020).
CopiesAgree ==
  topic = "policy" /\ server # None =>
    \A s \in Slots :
      LET r == slots[s].request
          protected == LoggedAsProtected(server, r, MethodLogged(r, BodyRead(s)))
      IN r # None /\ server.auth = "oauth" /\ r.path \in {"mcp", "resource"} =>
           /\ PassesWithoutToken(r) => Admission(r) = "allow_public" \/ r.bearer = "basic"
           /\ Admission(r) = "allow_public" /\ r.method = "POST" => PassesWithoutToken(r)
           /\ ~protected => PassesWithoutToken(r) \/ IsBearer(r) \/ r.assertion
           /\ BodyRead(s) /\ PassesWithoutToken(r) => ~protected

\* Requests get in as all copies of the admission rules say, and with a live token
\* wherever these ask for one (routes.ts 263-307, authAdmissionPolicy.ts 84-115).
AdmissionIsOne == AdmittedOnlyWithToken /\ CopiesAgree

\* Settings that ask for OAuth, in the old or the new way, start a server with OAuth
\* or none; a hardened one answers no page of an origin that is neither listed nor
\* its own, except a loopback page that asks it by a loopback name
\* (runtimeConfig.ts 295-343, 469-505, originPolicy.ts 34-85).
SettingsFailClosed ==
  topic = "policy" /\ server # None =>
    /\ (\/ settings.legacy = "oauth"
        \/ settings.deployment \in {"oauth-single-tenant", "oauth-hardened"})
         => server.auth = "oauth" /\ settings.transport = "http"
    /\ server.deployment = "oauth-hardened" =>
         \A s \in Slots :
           LET r == slots[s].request IN
           /\ slots[s].status \notin {None, "403"}
           /\ r.origin \notin {None, "null"} \cup settings.origins \cup {"public"}
           => r.origin = "local" /\ RequestHostName(r) = "local"

-----------------------------------------------------------------------------
\* A percentile has at least its share of the latencies at or below it and less
\* than its share strictly below, and the parts of a report sum up to the whole
\* (reliabilitySummaryUtils.ts 75-213).
SummaryAddsUp ==
  topic = "report" =>
    LET results == sample.results
        s       == Summary(results)
        ops     == Operations(results)
        groups  == FailureGroups(results)
        value(p) == CASE p = 50 -> s.p50 [] p = 95 -> s.p95 [] p = 99 -> s.p99
        atMost(v) == Cardinality({i \in DOMAIN results : results[i].latency <= v})
        below(v)  == Cardinality({i \in DOMAIN results : results[i].latency < v})
    IN /\ s.min <= s.p50 /\ s.p50 <= s.p95 /\ s.p95 <= s.p99 /\ s.p99 <= s.max
       /\ DOMAIN results # {} => \A p \in {50, 95, 99} :
            /\ 100 * atMost(value(p)) >= p * s.attempts
            /\ 100 * below(value(p)) < p * s.attempts
       /\ SumOf([o \in DOMAIN ops |-> ops[o].attempts]) = s.attempts
       /\ SumOf([o \in DOMAIN ops |-> ops[o].failed]) = s.failed
       /\ SumOf(groups) = s.failed

\* The exit code never gets worse when every request is at least as fast and none
\* fails that did not (reliabilityArtifact.ts 68-173, reliabilityHttp.ts 254-278, 641-671).
ExitCodeIsMonotone ==
  topic = "report" =>
    \A percent \in {0, 5, 50} :
      LET code(results) == ExitCode(results, percent, sample.baseline, None) IN
      code(sample.results) = 0 => code(sample.better) = 0

\* A report tells of all of its results, and judges them by how good they are
\* (reliabilitySummaryUtils.ts 75-213, reliabilityArtifact.ts 68-173).
ReportsAreSound == SummaryAddsUp /\ ExitCodeIsMonotone
=============================================================================
