---------------------------- MODULE RateLimiter ----------------------------
(***************************************************************************)
(* The sliding-window limiter of src/ynabRateLimiter.ts under the fetch    *)
(* loop of src/ynabApi.ts.                                                 *)
(*                                                                         *)
(* acquire() chains a task on the promise queue of its token's state. Only *)
(* the head of a queue runs: it prunes, and either takes a timestamp or    *)
(* sleeps and tries again. When it is done its caller evicts every state   *)
(* without timestamps from the map. A caller keeps the state object it     *)
(* found, so an evicted object lives on as long as somebody waits in its   *)
(* queue.                                                                  *)
(*                                                                         *)
(* A timestamp is kept as its age, Date.now() minus the timestamp, up to   *)
(* Window where it no longer matters how old it is; a sleep is the time    *)
(* that is left of it. So the clock needs no bound.                        *)
(***************************************************************************)
EXTENDS Integers, Sequences, SequencesExt

CONSTANTS
  Keys,         \* access tokens
  Callers,      \* calls of the fetch function that may be in progress together
  Objects,      \* identities of TokenState objects, used again when unreachable
  MaxRequests,  \* requests per window
  Window,       \* windowMs
  RetryLimit,   \* retries after a 429
  None          \* no entry in the map

ASSUME LimiterAssumption ==
  /\ {MaxRequests, Window} \subseteq Nat \ {0}
  /\ RetryLimit \in Nat
  /\ None \notin Objects

VARIABLES
  states,      \* the map from token to TokenState
  timestamps,  \* timestamps of each TokenState, as ages, oldest first
  queue,       \* the promise chain of each TokenState, the running task first
  callers,     \* what each caller is doing
  sent         \* history: ages of the requests admitted for a token in the window

vars == <<states, timestamps, queue, callers, sent>>

Idle == [at |-> "idle"]

\* In acquire, with the state object the caller found.
Acquiring ==
  [at : {"queued", "sleeping", "admitted"}, key : Keys, object : Objects,
   wait : 0 .. Window, attempt : 0 .. RetryLimit]

\* In the fetch, or between two attempts.
Fetching == [at : {"fetching", "backoff"}, key : Keys, attempt : 0 .. RetryLimit]

CallerStates == {Idle} \cup Acquiring \cup Fetching

Init ==
  /\ states = [k \in Keys |-> None]
  /\ timestamps = [o \in Objects |-> <<>>]
  /\ queue = [o \in Objects |-> <<>>]
  /\ callers = [c \in Callers |-> Idle]
  /\ sent = [k \in Keys |-> <<>>]

-----------------------------------------------------------------------------
\* Faulty variant: nothing is ever pruned.
KeepAll(ages) == ages

\* What is left when ages are dropped from the front up to the first in the window.
InWindow(ages) ==
  LET fresh == {i \in DOMAIN ages : ages[i] < Window}
  IN IF fresh = {} THEN <<>> ELSE SubSeq(ages, Min(fresh), Len(ages))

\* pruneExpiredTimestamps. The ages descend, so this drops every expired one.
Prune(ages) == InWindow(ages)

MaxOf(a, b) == IF a > b THEN a ELSE b

\* Faulty variants of WaitMs: the wait is counted from the newest timestamp, or
\* is one unit too long.
WaitForNewest(ages) == MaxOf(Window - Last(ages), 1)

WaitOneMore(ages) == MaxOf(Window - Head(ages), 1) + 1

\* Until the oldest timestamp leaves the window, and at least 1.
WaitMs(ages) == MaxOf(Window - Head(ages), 1)

InAcquire(c) == callers[c].at \in {"queued", "sleeping", "admitted"}

HeldBy(cs, o) == \E c \in cs : InAcquire(c) /\ callers[c].object = o

Mapped(map, o) == \E k \in Keys : map[k] = o

\* acquire up to its await: the caller finds or creates the state of its token
\* and joins its queue. An object nothing points to is not created yet.
Acquire(c, key, attempt) ==
  \E o \in Objects :
    /\ IF states[key] # None THEN o = states[key]
       ELSE ~Mapped(states, o) /\ ~HeldBy(Callers, o)
    /\ states' = [states EXCEPT ![key] = o]
    /\ queue' = [queue EXCEPT ![o] = Append(@, c)]
    /\ callers' = [callers EXCEPT ![c] =
         [at |-> "queued", key |-> key, object |-> o, wait |-> 0,
          attempt |-> attempt]]
    /\ UNCHANGED <<timestamps, sent>>

\* A read tool calls the API.
StartFetch(c, key) ==
  /\ callers[c] = Idle
  /\ Acquire(c, key, 0)

AtHead(c) ==
  /\ callers[c].at = "queued"
  /\ Head(queue[callers[c].object]) = c

\* Faulty variant: one request too many.
OffByOne(ages) == Len(ages) <= MaxRequests

HasRoom(ages) == Len(ages) < MaxRequests

\* One turn of the task's loop with room in the window: it takes a timestamp and
\* the queue moves on.
TakeSlot(c) ==
  LET o    == callers[c].object
      kept == Prune(timestamps[o])
  IN /\ AtHead(c)
     /\ HasRoom(kept)
     /\ timestamps' = [timestamps EXCEPT ![o] = Append(kept, 0)]
     /\ queue' = [queue EXCEPT ![o] = Tail(@)]
     /\ callers' = [callers EXCEPT ![c].at = "admitted"]
     /\ sent' = [sent EXCEPT ![callers[c].key] = Append(@, 0)]
     /\ UNCHANGED states

\* One turn of the loop without room: the task sleeps at the head of the queue.
Sleep(c) ==
  LET o    == callers[c].object
      kept == Prune(timestamps[o])
  IN /\ AtHead(c)
     /\ ~HasRoom(kept)
     /\ timestamps' = [timestamps EXCEPT ![o] = kept]
     /\ callers' = [callers EXCEPT ![c].at = "sleeping", ![c].wait = WaitMs(kept)]
     /\ UNCHANGED <<states, queue, sent>>

\* No microtask is pending: no task may run and no admitted caller has to evict.
\* Timers and responses are handled only then.
Settled == \A c \in Callers : ~AtHead(c) /\ callers[c].at # "admitted"

\* The timer fires, on time or later, and the loop goes on.
Wake(c) ==
  /\ Settled
  /\ callers[c].at = "sleeping"
  /\ callers[c].wait = 0
  /\ callers' = [callers EXCEPT ![c].at = "queued"]
  /\ UNCHANGED <<states, timestamps, queue, sent>>

\* Faulty variant: an entry with room in its window is dropped already.
HasRoomAgain(ages) == Len(Prune(ages)) < MaxRequests

Stale(ages) == Prune(ages) = <<>>

\* evictStaleEntries after the await of acquire; the request is then sent. An
\* object that nothing points to any more is as good as not created.
Evict(c) ==
  LET kept == [k \in Keys |->
        IF states[k] # None /\ Stale(timestamps[states[k]]) THEN None ELSE states[k]]
  IN /\ callers[c].at = "admitted"
     /\ states' = kept
     /\ timestamps' = [o \in Objects |->
          CASE Mapped(states, o) -> Prune(timestamps[o])
            [] ~Mapped(states, o) /\ HeldBy(Callers \ {c}, o) -> timestamps[o]
            [] OTHER -> <<>>]
     /\ callers' = [callers EXCEPT ![c] =
          [at |-> "fetching", key |-> callers[c].key, attempt |-> callers[c].attempt]]
     /\ UNCHANGED <<queue, sent>>

\* The response, or an error of the connection, ends the call.
Finish(c) ==
  /\ Settled
  /\ callers[c].at = "fetching"
  /\ callers' = [callers EXCEPT ![c] = Idle]
  /\ UNCHANGED <<states, timestamps, queue, sent>>

\* A 429 with attempts left: the caller backs off before it tries again.
BackOff(c) ==
  /\ Settled
  /\ callers[c].at = "fetching"
  /\ callers[c].attempt < RetryLimit
  /\ callers' = [callers EXCEPT ![c].at = "backoff", ![c].attempt = @ + 1]
  /\ UNCHANGED <<states, timestamps, queue, sent>>

\* The delay, which the response chooses, is over.
Retry(c) ==
  /\ Settled
  /\ callers[c].at = "backoff"
  /\ Acquire(c, callers[c].key, callers[c].attempt)

\* The window is much longer than a chain of microtasks, so time stands still
\* while one is pending.
Tick ==
  /\ Settled
  /\ timestamps' = [o \in Objects |->
       [i \in DOMAIN timestamps[o] |->
          IF timestamps[o][i] < Window THEN timestamps[o][i] + 1 ELSE Window]]
  /\ callers' = [c \in Callers |->
       IF callers[c].at = "sleeping" /\ callers[c].wait > 0
       THEN [callers[c] EXCEPT !.wait = @ - 1] ELSE callers[c]]
  /\ sent' = [k \in Keys |-> InWindow([i \in DOMAIN sent[k] |-> sent[k][i] + 1])]
  /\ UNCHANGED <<states, queue>>

Next ==
  \/ \E c \in Callers :
       \/ \E key \in Keys : StartFetch(c, key)
       \/ TakeSlot(c)
       \/ Sleep(c)
       \/ Wake(c)
       \/ Evict(c)
       \/ Finish(c)
       \/ BackOff(c)
       \/ Retry(c)
  \/ Tick

\* Microtasks run; between two of their chains the event loop lets the clock go on
\* and timers fire, however often other callers come in between.
Fairness ==
  /\ SF_vars(Tick)
  /\ \A c \in Callers :
       /\ WF_vars(TakeSlot(c))
       /\ WF_vars(Sleep(c))
       /\ WF_vars(Evict(c))
       /\ SF_vars(Wake(c))

Spec == Init /\ [][Next]_vars /\ Fairness

-----------------------------------------------------------------------------
\* Nobody waits in the queue of a state the map has forgotten, where the
\* timestamps it takes count for nothing (ynabRateLimiter.ts 79-87).
QueuesAreInTheMap ==
  \A c \in Callers :
    InAcquire(c) => states[callers[c].key] = callers[c].object

\* Every variable holds a value of its type, ages never beyond the window, and the
\* queues in use are those of the map, as long as one token is used.
TypeOK ==
  /\ states \in [Keys -> Objects \cup {None}]
  /\ timestamps \in [Objects -> Seq(0 .. Window)]
  /\ queue \in [Objects -> Seq(Callers)]
  /\ callers \in [Callers -> CallerStates]
  /\ sent \in [Keys -> Seq(0 .. Window - 1)]
  /\ QueuesAreInTheMap

\* No token is used more often than MaxRequests within any Window: README.md 364,
\* "a shared per-token sliding-window limiter" (ynabRateLimiter.ts 37-60).
WindowBound == \A k \in Keys : Len(sent[k]) <= MaxRequests

\* A task sleeps only while its window is full and no longer than until the
\* oldest timestamp leaves it: the timer and the ages it was computed from stay in
\* step, whatever evictions prune meanwhile (ynabRateLimiter.ts 48-53).
NeverOversleeps ==
  \A c \in Callers :
    callers[c].at = "sleeping" /\ callers[c].wait > 0 =>
      LET ages == timestamps[callers[c].object] IN
      Len(ages) >= MaxRequests /\ Head(ages) + callers[c].wait <= Window

\* Every caller that joins a queue is admitted in the end: the chain never
\* stalls, and it is served in turn (ynabRateLimiter.ts 39-58).
EveryCallerAdmitted ==
  \A c \in Callers : callers[c].at = "queued" ~> callers[c].at = "admitted"
=============================================================================
