----------------------------- MODULE HttpServer -----------------------------
(***************************************************************************)
(* The life of a request in src/httpTransport.ts. A request that is to run *)
(* takes a server runtime from a pool, the first that is idle or a new one,*)
(* connects a transport of its own to it, and gives both back when its     *)
(* response closes or its handler throws, whichever comes first; the other *)
(* may still come. Closing the transport of a request takes off whatever   *)
(* transport its runtime has.                                              *)
(*                                                                         *)
(* A request occupies a slot as long as anything of it is going on. What   *)
(* happens between two turns of the event loop is one step, but for the    *)
(* await in a cleanup.                                                     *)
(***************************************************************************)
EXTENDS HttpPolicy

CONSTANTS
  Slots,      \* positive numbers; bound: the most requests at once
  MaxFaults   \* bound: failures of the environment

ASSUME SlotsAssumption == IsFiniteSet(Slots) /\ Slots \subseteq Nat \ {0}
ASSUME MaxFaultsAssumption == MaxFaults \in Nat

\* What a response may say; "route" stands for the answer of an OAuth route, "cut" for
\* one whose connection is destroyed after its headers were sent.
Statuses ==
  {"200", "204", "400", "401", "403", "404", "405", "413", "500", "route", "cut"}

ASSUME NoneAssumption ==
  /\ None \notin Slots
  /\ None \notin Statuses \cup {"read", "run"}
  /\ None \notin Bootstrap \cup Deployments \cup {"live", "dead"}

VARIABLES
  server,    \* the configuration that runs, or None if the settings were refused
  listening, \* "open", "closing" or "stopped"
  slots,     \* the request in each slot
  pool,      \* the runtimes, in the order in which they were created
  peak,      \* history: the most requests that held a runtime at once
  faults     \* failures so far

serverVars == <<server, listening, slots, pool, peak, faults>>

\* at: where the handler is. status: what was answered, None before. open: the
\* response has not closed. cleanup: "armed" once the request holds a runtime, then
\* who runs it, "event" or "handler", then "done". awaited: its client has not got
\* the answer.
Free ==
  [at |-> "free", request |-> None, status |-> None, open |-> FALSE, runtime |-> 0,
   cleanup |-> "none", awaited |-> FALSE]

InitServer(settings) ==
  /\ server = IF SettingsAccepted(settings) THEN ServerOf(settings) ELSE None
  /\ listening = IF server = None \/ settings.transport = "stdio" THEN "stopped" ELSE "open"
  /\ slots = [s \in Slots |-> Free]
  /\ pool = <<>>
  /\ peak = 0
  /\ faults = 0

Holders(requests) == {s \in Slots : requests[s].cleanup \in {"armed", "event", "handler"}}

MaxOf(m, n) == IF m < n THEN n ELSE m

\* Nothing of the request is left.
Over(request) ==
  /\ request.at = "ended"
  /\ ~request.open
  /\ request.cleanup \in {"none", "done"}
  /\ ~request.awaited

\* A step replaces what is in the slots; a request that is over frees its slot.
Now(requests) ==
  /\ slots' = [s \in Slots |-> IF Over(requests[s]) THEN Free ELSE requests[s]]
  /\ peak' = MaxOf(peak, Cardinality(Holders(requests)))

\* External: the environment fails, a bounded number of times.
Fault == faults < MaxFaults /\ faults' = faults + 1

Answered(entry, status) == [entry EXCEPT !.at = "ended", !.status = status]

-----------------------------------------------------------------------------
\* Faulty variant: busy is what has a transport, so a runtime that is still being
\* cleaned up counts as idle.
Unattached(runtimes) == {i \in DOMAIN runtimes : runtimes[i].attached = None}

\* Faulty variant: the condition of the search is the wrong way round.
Busy(runtimes) == {i \in DOMAIN runtimes : runtimes[i].busy}

Idle(runtimes) == {i \in DOMAIN runtimes : ~runtimes[i].busy}

\* acquire: i is the first idle runtime, or the one after the last.
IsAcquired(i, runtimes) ==
  \/ i \in Idle(runtimes) /\ \A j \in Idle(runtimes) : i <= j
  \/ i = Len(runtimes) + 1 /\ Idle(runtimes) = {}

WithRuntime(runtimes, i, busy, attached) ==
  [j \in 1 .. MaxOf(i, Len(runtimes)) |->
     IF j = i THEN [busy |-> busy, attached |-> attached] ELSE runtimes[j]]

\* A request that arrives is answered at once, or its body is read. A server that
\* closes may get more requests over connections that are open.
Arrive(s, request, awaited) ==
  LET outcome == BeforeBody(server, request)
      entry   == [Free EXCEPT !.at = "reading", !.request = request, !.open = TRUE,
                              !.awaited = awaited]
  IN
  /\ listening # "stopped"
  /\ slots[s].at = "free"
  /\ Now([slots EXCEPT ![s] =
       IF outcome = "read" THEN entry ELSE Answered(entry, outcome)])
  /\ UNCHANGED <<server, listening, pool, faults>>

\* A parser has read the body of the request; what the host and the origin are
\* refused for is not read.
BodyRead(s) ==
  /\ slots[s].at \notin {"free", "reading"}
  /\ slots[s].status # "403"
  /\ slots[s].request.body = "ok"

\* The body is read, and the request answered without a runtime.
Rejected(s) ==
  LET outcome == AfterBody(server, slots[s].request) IN
  /\ slots[s].at = "reading"
  /\ outcome # "run"
  /\ Now([slots EXCEPT ![s] = Answered(@, outcome)])
  /\ UNCHANGED <<server, listening, pool, faults>>

\* createManagedRequestFromRuntimePool: acquire, connect, and then the close event is
\* armed and the request handed over to the transport.
Dispatch(s) ==
  /\ slots[s].at = "reading"
  /\ AfterBody(server, slots[s].request) = "run"
  /\ \E i \in 1 .. Len(pool) + 1 :
       /\ IsAcquired(i, pool)
       /\ Now([slots EXCEPT ![s] =
            [@ EXCEPT !.at = "handling", !.runtime = i, !.cleanup = "armed"]])
       /\ pool' = WithRuntime(pool, i, TRUE, s)
  /\ UNCHANGED <<server, listening, faults>>

\* Connecting may fail: the runtime is released and the error handler answers.
\* Creating a runtime fails before it is in the pool.
DispatchFails(s, created) ==
  /\ slots[s].at = "reading"
  /\ AfterBody(server, slots[s].request) = "run"
  /\ Fault
  /\ Now([slots EXCEPT ![s] = Answered(@, "500")])
  /\ \E i \in 1 .. Len(pool) + 1 :
       /\ IsAcquired(i, pool)
       /\ ~created => i > Len(pool)
       /\ pool' = IF created THEN WithRuntime(pool, i, FALSE, None) ELSE pool
  /\ UNCHANGED <<server, listening>>

-----------------------------------------------------------------------------
\* The cleanup of a request: who starts it closes the transport, and with it takes
\* off the transport of the runtime; the runtime is released after an await.

Runtime(s) == slots[s].runtime

Detached(runtimes, i) == [runtimes EXCEPT ![i].attached = None]

\* Faulty variant: nothing remembers that the cleanup has started.
AnyTime(request) == request.runtime # 0

\* The guard cleanedUp.
NotCleanedUp(request) == request.cleanup = "armed"

StartedBy(request, who) ==
  IF NotCleanedUp(request) THEN [request EXCEPT !.cleanup = who] ELSE request

PoolAfterStart(s) == IF NotCleanedUp(slots[s]) THEN Detached(pool, Runtime(s)) ELSE pool

\* Faulty variant: the cleanup closes the transport, and that is all.
NotReleased(runtimes, i) == runtimes

\* release
Released(runtimes, i) == [runtimes EXCEPT ![i].busy = FALSE]

CleanupEnds(s) ==
  /\ slots[s].cleanup \in {"event", "handler"}
  /\ Now([slots EXCEPT ![s].cleanup = "done"])
  /\ pool' = Released(pool, Runtime(s))
  /\ UNCHANGED <<server, listening, faults>>

\* The tool answers (a notification is accepted, which is a "200" here, too). A
\* response that has closed gets nothing, and nobody else does: the answer goes to
\* the transport of the request.
ToolAnswers(s) ==
  /\ slots[s].at = "handling"
  /\ Now([slots EXCEPT ![s] = Answered(@, IF @.open THEN "200" ELSE None)])
  /\ UNCHANGED <<server, listening, pool, faults>>

\* The transport throws: the handler runs the cleanup, unless it has started.
HandlerThrows(s) ==
  /\ slots[s].at = "handling"
  /\ Fault
  /\ Now([slots EXCEPT ![s] = [StartedBy(@, "handler") EXCEPT !.at = "failing"]])
  /\ pool' = PoolAfterStart(s)
  /\ UNCHANGED <<server, listening>>

\* Faulty variant: the error is caught and handed to nobody.
ErrorSwallowed(request) == {None}

\* What the error handler answers; once the headers are sent it leaves the response to
\* the one of Express, which destroys the connection.
ErrorAnswers(request) == IF request.open THEN {"500", "cut"} ELSE {None}

\* ... waits for it if it is its own, and the error handler answers.
HandlerFails(s) ==
  /\ slots[s].at = "failing"
  /\ slots[s].cleanup # "handler"
  /\ \E answer \in ErrorAnswers(slots[s]) :
       Now([slots EXCEPT ![s] = Answered(@, answer)])
  /\ UNCHANGED <<server, listening, pool, faults>>

\* The response closes after it was answered ...
CloseEvent(s) ==
  /\ slots[s].at = "ended"
  /\ slots[s].open
  /\ slots[s].status # None
  /\ Now([slots EXCEPT ![s] = [StartedBy(@, "event") EXCEPT !.open = FALSE]])
  /\ pool' = PoolAfterStart(s)
  /\ UNCHANGED <<server, listening, faults>>

\* ... or because the client leaves; the handler goes on. A body is not read to its
\* end then.
ClientLeaves(s) ==
  /\ slots[s].at \in {"reading", "handling", "failing"}
  /\ slots[s].open
  /\ ~slots[s].awaited
  /\ Now([slots EXCEPT ![s] =
       [StartedBy(slots[s], "event") EXCEPT !.open = FALSE,
          !.at = IF slots[s].at = "reading" THEN "ended" ELSE slots[s].at]])
  /\ pool' = PoolAfterStart(s)
  /\ UNCHANGED <<server, listening, faults>>

-----------------------------------------------------------------------------
\* close() of the server that startHttpServer returns: no more connections ...
Close ==
  /\ listening = "open"
  /\ listening' = "closing"
  /\ UNCHANGED <<server, slots, pool, peak, faults>>

\* ... and, when every response has closed, every runtime is closed.
ServerClosed ==
  /\ listening = "closing"
  /\ \A s \in Slots : ~slots[s].open
  /\ listening' = "stopped"
  /\ pool' = [i \in DOMAIN pool |-> [pool[i] EXCEPT !.attached = None]]
  /\ UNCHANGED <<server, slots, peak, faults>>

\* What the server does about the request in a slot.
ServerStep(s) ==
  \/ Rejected(s)
  \/ Dispatch(s)
  \/ \E created \in BOOLEAN : DispatchFails(s, created)
  \/ ToolAnswers(s)
  \/ HandlerThrows(s)
  \/ HandlerFails(s)
  \/ CloseEvent(s)
  \/ CleanupEnds(s)

-----------------------------------------------------------------------------
\* Every variable holds a value of its type.
ServerTypeOK ==
  /\ listening \in {"open", "closing", "stopped"}
  /\ \A s \in Slots :
       /\ slots[s].at \in {"free", "reading", "handling", "failing", "ended"}
       /\ slots[s].status \in Statuses \cup {None}
       /\ {slots[s].open, slots[s].awaited} \subseteq BOOLEAN
       /\ slots[s].cleanup \in {"none", "armed", "event", "handler", "done"}
       /\ slots[s].runtime \in {0} \cup DOMAIN pool
       /\ slots[s].cleanup = "none" <=> slots[s].runtime = 0
  /\ pool \in Seq([busy : BOOLEAN, attached : Slots \cup {None}])
  /\ peak \in 0 .. Cardinality(Slots)
  /\ faults \in 0 .. MaxFaults

\* A runtime serves one request at a time, whoever starts and whoever finishes its
\* cleanup: it is busy exactly while one request has not given it back, and the
\* transport on it is that request's, until its cleanup starts (httpTransport.ts
\* 650-716, 829-890).
HeldByOne ==
  /\ \A s, t \in Holders(slots) : Runtime(s) = Runtime(t) => s = t
  /\ \A i \in DOMAIN pool :
       /\ pool[i].busy <=> \E s \in Holders(slots) : Runtime(s) = i
       /\ pool[i].attached # None =>
            slots[pool[i].attached].cleanup = "armed" /\ Runtime(pool[i].attached) = i
  /\ \A s \in Slots : slots[s].cleanup = "armed" => pool[Runtime(s)].attached = s

\* The pool never holds more runtimes than requests ever ran at once, but for those
\* that were created when connecting to them failed.
PoolIsPeak == Len(pool) <= peak + faults

\* What runs a tool or shows a document behind OAuth brought a live token, or is a
\* bootstrap method that both copies of the admission rules let in, and came to an
\* allowed host from an allowed origin (routes.ts 263-307, authAdmissionPolicy.ts).
AdmittedOnlyWithToken ==
  \A s \in Slots :
    LET r == slots[s].request IN
    (slots[s].runtime # 0 \/ (slots[s].status = "200" /\ r.path = "resource"))
      /\ server.auth = "oauth"
    => /\ HostAccepted(server, r) /\ OriginAccepted(server, r)
       /\ \/ r.bearer = "live"
          \/ r.path = "mcp" /\ r.rpc \in Bootstrap
               /\ (Admission(r) = "allow_public" \/ r.bearer = "basic")
=============================================================================
