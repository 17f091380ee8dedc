------------------------ MODULE ReliabilityRunProofs ------------------------
(***************************************************************************)
(* Every probe of a reliability run is made once, and its results are kept *)
(* under its own index, for all numbers of probes and workers. With what   *)
(* is known of the server, every variable has its type. The report tells   *)
(* of all results, and judges them by how good they are.                   *)
(***************************************************************************)
EXTENDS HttpServerProofs, WellFoundedInduction

\* The fields of a worker that its steps read.
WorkerFields(worker) == {"at", "index", "step", "slot", "results"} \subseteq DOMAIN worker

\* A worker that has not ended has the index of a probe, and its results are a
\* sequence, so never None.
Typed ==
  /\ run.count \in Nat
  /\ nextIndex \in Nat
  /\ buckets = [i \in 0 .. run.count - 1 |-> buckets[i]]
  /\ workers = [w \in Workers |-> workers[w]]
  /\ \A w \in Workers :
       /\ WorkerFields(workers[w])
       /\ workers[w].index \in Nat
       /\ workers[w].at # "ended" => workers[w].index < run.count
       /\ workers[w].results \in Seq(BOOLEAN)

\* Whatever its worker does, an index below the counter is taken by one worker or done.
TakenOnce ==
  /\ \A v, w \in Workers : workers[v].index = workers[w].index => v = w
  /\ \A w \in Workers : workers[w].index < nextIndex
  /\ \A w \in Workers : workers[w].index < run.count => buckets[workers[w].index] = None
  /\ \A i \in 0 .. run.count - 1 :
       /\ i < nextIndex /\ buckets[i] = None => \E w \in Workers : workers[w].index = i
       /\ buckets[i] # None => i < nextIndex

RunInv == Typed /\ TakenOnce

-----------------------------------------------------------------------------
\* The workers start with the first indices.
LEMMA InitEstablishes == Init => RunInv
PROOF
<1> SUFFICES ASSUME Init
             PROVE  RunInv
  OBVIOUS
<1> DEFINE n == WorkerCount(run)
<1>1. run \in [count : Nat, concurrency : Nat, closable : BOOLEAN]
  <2>1. run \in Runs \cup {NoRun}
    <3>1. run \in IF topic = "run" THEN Runs ELSE {NoRun}
      BY DEF Init
    <3> QED
      BY <3>1
  <2>2. NoRun \in [count : Nat, concurrency : Nat, closable : BOOLEAN]
    BY DEF NoRun
  <2> QED
    BY <2>1, <2>2, RunsAssumption
<1>2. n \in Nat /\ n >= 1
  BY <1>1 DEF WorkerCount, AtLeast
<1>3. /\ nextIndex = n
      /\ workers = [w \in 1 .. n |-> AtIndex(w - 1, run.count)]
      /\ buckets = [i \in 0 .. run.count - 1 |-> None]
  BY DEF Init
<1> HIDE DEF n
<1>4. \A w \in 1 .. n :
        /\ WorkerFields(workers[w])
        /\ workers[w].index = w - 1
        /\ workers[w].at # "ended" => workers[w].index < run.count
        /\ workers[w].results = <<>>
  BY <1>1, <1>2, <1>3 DEF AtIndex, WorkerFields
<1>5. Workers = 1 .. n
  BY <1>3 DEF Workers
<1>6. Typed
  <2>1. run.count \in Nat
    BY <1>1
  <2>2. \A w \in Workers :
          /\ WorkerFields(workers[w])
          /\ workers[w].index \in Nat
          /\ workers[w].at # "ended" => workers[w].index < run.count
          /\ workers[w].results \in Seq(BOOLEAN)
    <3>1. <<>> \in Seq(BOOLEAN)
      OBVIOUS
    <3>2. \A w \in 1 .. n : w - 1 \in Nat
      BY <1>2
    <3> QED
      BY <1>4, <1>5, <3>1, <3>2
  <2>3. workers = [w \in Workers |-> workers[w]]
    BY <1>3, <1>5
  <2>4. buckets = [i \in 0 .. run.count - 1 |-> buckets[i]]
    BY <1>3
  <2> QED
    BY <1>2, <1>3, <2>1, <2>2, <2>3, <2>4 DEF Typed
<1>7. TakenOnce
  <2>1. \A i \in 0 .. run.count - 1 : i < n => i + 1 \in 1 .. n /\ workers[i + 1].index = i
    BY <1>1, <1>2, <1>4
  <2>2. \A i \in 0 .. run.count - 1 : buckets[i] = None
    BY <1>3
  <2>3. \A w \in 1 .. n : workers[w].index < run.count => buckets[workers[w].index] = None
    <3>1. \A w \in 1 .. n : workers[w].index < run.count => w - 1 \in 0 .. run.count - 1
      BY <1>1, <1>2, <1>4
    <3> QED
      BY <1>4, <2>2, <3>1
  <2>4. \A v, w \in 1 .. n : workers[v].index = workers[w].index => v = w
    BY <1>2, <1>4
  <2>5. \A w \in 1 .. n : workers[w].index < n
    BY <1>2, <1>4
  <2>6. \A i \in 0 .. run.count - 1 : i < n => \E w \in 1 .. n : workers[w].index = i
    BY <2>1
  <2> QED
    BY <1>3, <1>5, <2>2, <2>3, <2>4, <2>5, <2>6 DEF TakenOnce
<1> QED
  BY <1>6, <1>7 DEF RunInv

\* A step in which a worker goes on with its probe takes no index.
LEMMA GoesOnKeepsRunInv ==
  ASSUME RunInv, NEW w \in Workers, NEW worker,
         workers' = [workers EXCEPT ![w] = worker],
         WorkerFields(worker),
         worker.index = workers[w].index,
         worker.at # "ended",
         workers[w].at # "ended",
         worker.results \in Seq(BOOLEAN),
         UNCHANGED <<run, nextIndex, buckets>>
  PROVE  RunInv'
PROOF
<1>1. Workers' = Workers
  BY DEF RunInv, Typed, Workers
<1>2. workers'[w] = worker /\ \A v \in Workers : v # w => workers'[v] = workers[v]
  BY DEF RunInv, Typed, Workers
<1>3. workers' = [v \in Workers |-> workers'[v]]
  BY <1>1 DEF RunInv, Typed
<1>4. \A v \in Workers : workers'[v].index = workers[v].index
  BY <1>2
<1>5. Typed'
  BY <1>1, <1>2, <1>3, <1>4 DEF RunInv, Typed
<1>6. TakenOnce'
  BY <1>1, <1>4 DEF RunInv, TakenOnce
<1> QED
  BY <1>5, <1>6 DEF RunInv

LEMMA UnchangedKeepsRunInv ==
  ASSUME RunInv, UNCHANGED <<run, nextIndex, workers, buckets>>
  PROVE  RunInv'
PROOF
<1>1. Workers' = Workers
  BY DEF Workers
<1>2. Typed'
  BY <1>1 DEF RunInv, Typed
<1>3. TakenOnce'
  BY <1>1 DEF RunInv, TakenOnce
<1> QED
  BY <1>2, <1>3 DEF RunInv

\* The results go into a bucket of their own, and the worker takes an index that
\* nobody had.
LEMMA ProbeEndsKeepsRunInv ==
  ASSUME RunInv, NEW w \in Workers, ProbeEnds(w)
  PROVE  RunInv'
PROOF
<1> DEFINE worker == AtIndex(nextIndex, run.count)
           mine   == workers[w].index
<1>1. /\ WorkerFields(worker)
      /\ worker.index = nextIndex
      /\ worker.at # "ended" => ~(nextIndex >= run.count)
      /\ worker.results = <<>>
  BY DEF AtIndex, WorkerFields
<1>2. /\ workers' = [workers EXCEPT ![w] = worker]
      /\ buckets' = [buckets EXCEPT ![mine] = workers[w].results]
      /\ nextIndex' = nextIndex + 1
      /\ run' = run
      /\ workers[w].at # "ended"
  BY DEF ProbeEnds, Moved
<1> HIDE DEF worker
<1>3. Workers' = Workers
  BY <1>2 DEF RunInv, Typed, Workers
<1>4. workers'[w] = worker /\ \A v \in Workers : v # w => workers'[v] = workers[v]
  BY <1>2 DEF RunInv, Typed, Workers
<1>5. run.count \in Nat /\ nextIndex \in Nat /\ \A v \in Workers : workers[v].index \in Nat
  BY DEF RunInv, Typed
<1>6. mine \in 0 .. run.count - 1 /\ mine < nextIndex
  BY <1>2, <1>5 DEF RunInv, Typed, TakenOnce
<1>7. workers[w].results # None
  BY ResultsAssumption DEF RunInv, Typed
<1>8. /\ buckets'[mine] # None
      /\ \A i \in 0 .. run.count - 1 : i # mine => buckets'[i] = buckets[i]
  BY <1>2, <1>6, <1>7 DEF RunInv, Typed
<1>9. Typed'
  <2>1. buckets' = [i \in 0 .. run.count - 1 |-> buckets'[i]]
    BY <1>2 DEF RunInv, Typed
  <2>2. workers' = [v \in Workers |-> workers'[v]]
    BY <1>2, <1>3 DEF RunInv, Typed
  <2>3. \A v \in Workers :
          /\ WorkerFields(workers'[v])
          /\ workers'[v].index \in Nat
          /\ workers'[v].at # "ended" => workers'[v].index < run.count
          /\ workers'[v].results \in Seq(BOOLEAN)
    <3>1. SUFFICES ASSUME NEW v \in Workers
                   PROVE  /\ WorkerFields(workers'[v])
                          /\ workers'[v].index \in Nat
                          /\ workers'[v].at # "ended" => workers'[v].index < run.count
                          /\ workers'[v].results \in Seq(BOOLEAN)
      OBVIOUS
    <3>2. CASE v = w
      <4>1. <<>> \in Seq(BOOLEAN)
        OBVIOUS
      <4>2. workers'[v] = worker
        BY <1>4, <3>2
      <4>3. nextIndex \in Nat /\ (worker.at # "ended" => nextIndex < run.count) /\ run' = run
        BY <1>1, <1>2, <1>5
      <4> QED
        BY <1>1, <4>1, <4>2, <4>3
    <3>3. CASE v # w
      BY <1>4, <3>3 DEF RunInv, Typed
    <3> QED
      BY <3>2, <3>3
  <2> QED
    BY <1>2, <1>3, <1>5, <2>1, <2>2, <2>3 DEF Typed
<1>10. TakenOnce'
  <2>1. TakenOnce
    BY DEF RunInv
  <2>2. \A u, v \in Workers : workers'[u].index = workers'[v].index => u = v
    <3>1. \A v \in Workers : v # w => workers'[v].index < nextIndex
      BY <1>4, <2>1 DEF TakenOnce
    <3>2. workers'[w].index = nextIndex
      BY <1>1, <1>4
    <3>3. \A v \in Workers : v # w => workers'[v].index # workers'[w].index
      BY <1>4, <1>5, <3>1, <3>2
    <3> QED
      BY <1>4, <2>1, <3>3 DEF TakenOnce
  <2>3. \A v \in Workers : workers'[v].index < nextIndex + 1
    BY <1>1, <1>4, <1>5, <2>1 DEF TakenOnce
  <2>4. \A v \in Workers : workers'[v].index < run.count => buckets'[workers'[v].index] = None
    <3>1. SUFFICES ASSUME NEW v \in Workers, workers'[v].index < run.count
                   PROVE  buckets'[workers'[v].index] = None
      OBVIOUS
    <3>2. CASE v = w
      <4>1. nextIndex \in 0 .. run.count - 1 /\ nextIndex # mine
        BY <1>1, <1>4, <1>5, <1>6, <3>1, <3>2
      <4>2. buckets[nextIndex] = None
        BY <1>5, <2>1, <4>1 DEF TakenOnce
      <4> QED
        BY <1>1, <1>4, <1>8, <3>2, <4>1, <4>2
    <3>3. CASE v # w
      <4>1. workers[v].index # mine /\ workers[v].index \in 0 .. run.count - 1
        BY <1>4, <1>5, <2>1, <3>1, <3>3 DEF TakenOnce
      <4>2. buckets[workers[v].index] = None
        BY <1>4, <2>1, <3>1, <3>3 DEF TakenOnce
      <4> QED
        BY <1>4, <1>8, <3>3, <4>1, <4>2
    <3> QED
      BY <3>2, <3>3
  <2>5. \A i \in 0 .. run.count - 1 :
          i < nextIndex + 1 /\ buckets'[i] = None => \E v \in Workers : workers'[v].index = i
    <3>1. SUFFICES ASSUME NEW i \in 0 .. run.count - 1, i < nextIndex + 1, buckets'[i] = None
                   PROVE  \E v \in Workers : workers'[v].index = i
      OBVIOUS
    <3>2. CASE i = nextIndex
      BY <1>1, <1>4, <3>2
    <3>3. CASE i # nextIndex
      <4>1. i < nextIndex /\ i # mine /\ buckets[i] = None
        BY <1>5, <1>8, <3>1, <3>3
      <4>2. PICK v \in Workers : workers[v].index = i
        BY <2>1, <4>1 DEF TakenOnce
      <4> QED
        BY <1>4, <4>1, <4>2
    <3> QED
      BY <3>2, <3>3
  <2>6. \A i \in 0 .. run.count - 1 : buckets'[i] # None => i < nextIndex + 1
    BY <1>5, <1>6, <1>8, <2>1 DEF TakenOnce
  <2> QED
    BY <1>2, <1>3, <2>2, <2>3, <2>4, <2>5, <2>6 DEF TakenOnce
<1> QED
  BY <1>9, <1>10 DEF RunInv

\* An answer makes the results longer, and does not end the worker.
LEMMA MeasuredGoesOn ==
  ASSUME RunInv, NEW w \in Workers, workers[w].at # "ended", NEW ok \in BOOLEAN,
         workers' = [workers EXCEPT ![w] = Measured(@, ok)],
         UNCHANGED <<run, nextIndex, buckets>>
  PROVE  RunInv'
PROOF
<1> DEFINE read   == [workers[w] EXCEPT !.slot = 0, !.results = Append(@, ok)]
           worker == AfterStep(read, ok)
<1>1. WorkerFields(workers[w]) /\ workers[w].results \in Seq(BOOLEAN)
  BY DEF RunInv, Typed
<1>2. /\ WorkerFields(read)
      /\ read.index = workers[w].index
      /\ read.results = Append(workers[w].results, ok)
  BY <1>1 DEF WorkerFields
<1>3. read.results \in Seq(BOOLEAN)
  BY <1>1, <1>2
<1>4. workers' = [workers EXCEPT ![w] = worker]
  BY DEF Measured
<1> HIDE DEF read
<1>5. /\ WorkerFields(worker)
      /\ worker.index = read.index
      /\ worker.results = read.results
      /\ worker.at # "ended"
  BY <1>2 DEF AfterStep, WorkerFields
<1> HIDE DEF worker
<1> QED
  BY <1>2, <1>3, <1>4, <1>5, GoesOnKeepsRunInv

LEMMA NextKeepsRunInv ==
  ASSUME RunInv, [Next]_vars
  PROVE  RunInv'
PROOF
<1>1. ASSUME NEW w \in Workers, Send(w)
      PROVE  RunInv'
  <2>1. PICK s \in FreeSlots : workers' = [workers EXCEPT ![w].at = "waiting", ![w].slot = s]
    BY <1>1 DEF Send
  <2> DEFINE worker == [workers[w] EXCEPT !.at = "waiting", !.slot = s]
  <2>2. workers' = [workers EXCEPT ![w] = worker]
    BY <2>1 DEF RunInv, Typed, WorkerFields
  <2>3. /\ WorkerFields(worker)
        /\ worker.index = workers[w].index
        /\ worker.at = "waiting"
        /\ worker.results = workers[w].results
        /\ workers[w].results \in Seq(BOOLEAN)
        /\ workers[w].at = "sending"
    BY <1>1 DEF RunInv, Typed, WorkerFields, Send
  <2>4. UNCHANGED <<run, nextIndex, buckets>>
    BY <1>1 DEF Send
  <2> HIDE DEF worker
  <2> QED
    BY <2>2, <2>3, <2>4, GoesOnKeepsRunInv
<1>2. ASSUME NEW w \in Workers, Receive(w)
      PROVE  RunInv'
  <2> DEFINE ok == slots[workers[w].slot].status = "200"
  <2>1. /\ workers' = [workers EXCEPT ![w] = Measured(@, ok)]
        /\ UNCHANGED <<run, nextIndex, buckets>>
        /\ workers[w].at # "ended"
    BY <1>2 DEF Receive
  <2>2. ok \in BOOLEAN
    OBVIOUS
  <2> HIDE DEF ok
  <2> QED
    BY <2>1, <2>2, MeasuredGoesOn
<1>3. ASSUME NEW w \in Workers, Refused(w)
      PROVE  RunInv'
  <2>1. /\ workers' = [workers EXCEPT ![w] = Measured(@, FALSE)]
        /\ UNCHANGED <<run, nextIndex, buckets>>
        /\ workers[w].at # "ended"
    BY <1>3 DEF Refused
  <2> QED
    BY <2>1, MeasuredGoesOn
<1>4. ASSUME NEW w \in Workers, ProbeThrows(w)
      PROVE  RunInv'
  <2> DEFINE worker == [workers[w] EXCEPT !.at = "rejected"]
  <2>1. workers' = [workers EXCEPT ![w] = worker]
    BY <1>4 DEF ProbeThrows, RunInv, Typed, WorkerFields
  <2>2. /\ WorkerFields(worker)
        /\ worker.index = workers[w].index
        /\ worker.at = "rejected"
        /\ worker.results = workers[w].results
        /\ workers[w].results \in Seq(BOOLEAN)
        /\ workers[w].at = "closing"
    BY <1>4 DEF RunInv, Typed, WorkerFields, ProbeThrows
  <2>3. UNCHANGED <<run, nextIndex, buckets>>
    BY <1>4 DEF ProbeThrows
  <2> HIDE DEF worker
  <2> QED
    BY <2>1, <2>2, <2>3, GoesOnKeepsRunInv
<1>5. ASSUME NEW w \in Workers, ProbeEnds(w)
      PROVE  RunInv'
  BY <1>5, ProbeEndsKeepsRunInv
<1>6. CASE \E r \in strangers : StrangerSends(r)
  BY <1>6, UnchangedKeepsRunInv DEF StrangerSends
<1>7. CASE ServerNext
  BY <1>7, UnchangedKeepsRunInv DEF ServerNext, runVars
<1>8. CASE UNCHANGED vars
  BY <1>8, UnchangedKeepsRunInv DEF vars, runVars
<1> QED
  BY <1>1, <1>2, <1>3, <1>4, <1>5, <1>6, <1>7, <1>8 DEF Next

LEMMA RunInvImpliesEveryProbeOnce == RunInv => EveryProbeOnce
PROOF
<1> SUFFICES ASSUME RunInv, NEW i \in Indices
             PROVE  LET at == {w \in Workers : workers[w].index = i} IN
                    /\ Cardinality(at) <= 1
                    /\ at # {} <=> i < nextIndex /\ buckets[i] = None
                    /\ buckets[i] # None => i < nextIndex
  BY DEF EveryProbeOnce
<1> DEFINE at == {w \in Workers : workers[w].index = i}
<1>1. Indices = 0 .. run.count - 1 /\ run.count \in Nat
  BY DEF RunInv, Typed, Indices
<1>2. Cardinality(at) <= 1
  <2>1. CASE at = {}
    BY <2>1, FS_EmptySet
  <2>2. CASE at # {}
    <3>1. PICK w \in at : TRUE
      BY <2>2
    <3>2. at = {w}
      BY <3>1 DEF RunInv, TakenOnce
    <3>3. Cardinality({w}) = 1
      BY FS_Singleton
    <3> QED
      BY <3>2, <3>3
  <2> QED
    BY <2>1, <2>2
<1>3. at # {} <=> i < nextIndex /\ buckets[i] = None
  <2>1. ASSUME NEW w \in at
        PROVE  i < nextIndex /\ buckets[i] = None
    BY <1>1 DEF RunInv, TakenOnce
  <2>2. i < nextIndex /\ buckets[i] = None => at # {}
    BY <1>1 DEF RunInv, TakenOnce
  <2> QED
    BY <2>1, <2>2
<1>4. buckets[i] # None => i < nextIndex
  BY <1>1 DEF RunInv, TakenOnce
<1> QED
  BY <1>2, <1>3, <1>4

\* Every index below the counter of the workers is that of one worker or has its
\* results, never both: no probe is made twice or lost (reliabilityRunner.ts 86-111).
THEOREM ProbesAreMadeOnce == Spec => []EveryProbeOnce
PROOF
<1>1. RunInv /\ [Next]_vars => RunInv'
  BY NextKeepsRunInv
<1> QED
  BY InitEstablishes, <1>1, RunInvImpliesEveryProbeOnce, PTL DEF Spec

-----------------------------------------------------------------------------
(***************************************************************************)
(* Where the workers are in their probes, and how far the counter goes.    *)
(***************************************************************************)

\* A worker has the results of the steps before its own. It goes on after the first
\* two only if they succeeded.
Placed(worker) ==
  /\ worker.at \in {"sending", "waiting", "unconnected", "closing", "ended", "rejected"}
  /\ worker.slot \in {0} \cup Slots
  /\ worker.slot = 0 <=> worker.at # "waiting"
  /\ worker.step \in 1 .. 2 + Calls
  /\ worker.at \in {"sending", "waiting"} =>
       /\ Len(worker.results) = worker.step - 1
       /\ \A i \in 1 .. 2 : i < worker.step => worker.results[i] = TRUE
  /\ worker.at = "unconnected" => worker.results = <<FALSE>>
  /\ worker.at = "closing" => Complete(worker.results)

\* What the counter goes beyond the probes is the index of a worker that has ended.
Progress ==
  /\ run \in [count : Nat, concurrency : Nat, closable : BOOLEAN]
  /\ Workers = 1 .. WorkerCount(run)
  /\ nextIndex >= 1
  /\ \A w \in Workers : Placed(workers[w])
  /\ \A i \in run.count .. nextIndex - 1 : \E w \in Workers : workers[w].index = i
  /\ \A i \in 0 .. run.count - 1 : buckets[i] = None \/ Complete(buckets[i])

\* There is at least one worker, and there are three steps or more.
LEMMA CountOfWorkers ==
  ASSUME NEW r \in [count : Nat, concurrency : Nat, closable : BOOLEAN]
  PROVE  WorkerCount(r) \in Nat \ {0}
BY DEF WorkerCount, AtLeast

LEMMA StepsOfProbe == Len(Steps) = 2 + Calls /\ 2 + Calls \in Nat /\ 2 + Calls >= 3
BY CallsAssumption DEF Steps

\* A worker starts with its first step, if there is a probe of its index.
LEMMA StartIsPlaced ==
  ASSUME NEW index \in Nat, NEW count \in Nat
  PROVE  Placed(AtIndex(index, count))
PROOF
<1> DEFINE worker == AtIndex(index, count)
<1>1. /\ worker.at \in {"sending", "ended"}
      /\ worker.slot = 0 /\ worker.step = 1 /\ worker.results = <<>>
  BY DEF AtIndex
<1>2. Len(<<>>) = 0 /\ 1 \in 1 .. 2 + Calls
  BY StepsOfProbe
<1>3. \A i \in 1 .. 2 : ~(i < 1)
  OBVIOUS
<1> HIDE DEF worker
<1>4. Placed(worker)
  BY <1>1, <1>2, <1>3 DEF Placed
<1> QED
  BY <1>4 DEF worker

\* A worker whose client waits for nothing is placed if its results fit.
LEMMA RestingIsPlaced ==
  ASSUME NEW worker, worker.slot = 0, worker.step \in 1 .. 2 + Calls,
         \/ worker.at = "unconnected" /\ worker.results = <<FALSE>>
         \/ worker.at = "closing" /\ Complete(worker.results)
         \/ /\ worker.at = "sending"
            /\ Len(worker.results) = worker.step - 1
            /\ \A i \in 1 .. 2 : i < worker.step => worker.results[i] = TRUE
  PROVE  Placed(worker)
PROOF
<1>1. CASE worker.at = "unconnected" /\ worker.results = <<FALSE>>
  BY <1>1 DEF Placed
<1>2. CASE worker.at = "closing" /\ Complete(worker.results)
  BY <1>2 DEF Placed
<1>3. CASE /\ worker.at = "sending"
           /\ Len(worker.results) = worker.step - 1
           /\ \A i \in 1 .. 2 : i < worker.step => worker.results[i] = TRUE
  BY <1>3 DEF Placed
<1> QED
  BY <1>1, <1>2, <1>3

\* The results of a probe after its first and its second step.
LEMMA OneResult ==
  ASSUME NEW results \in Seq(BOOLEAN), Len(results) = 1
  PROVE  results = <<results[1]>>
PROOF
<1> DEFINE one == <<results[1]>>
<1>1. results[1] \in BOOLEAN
  OBVIOUS
<1>2. one \in Seq(BOOLEAN) /\ Len(one) = 1 /\ one[1] = results[1]
  BY <1>1
<1> HIDE DEF one
<1>3. \A i \in 1 .. Len(results) : results[i] = one[i]
  BY <1>2
<1> QED
  BY <1>2, <1>3, SeqEqual DEF one

LEMMA NextResult ==
  ASSUME NEW S, NEW a \in S, NEW b \in S
  PROVE  Append(<<>>, b) = <<b>> /\ Append(<<a>>, b) = <<a, b>>
PROOF
<1> DEFINE two == Append(<<a>>, b)
           one == Append(<<>>, b)
<1>1. two \in Seq(S) /\ Len(two) = 2 /\ two[1] = a /\ two[2] = b
  OBVIOUS
<1>2. one \in Seq(S) /\ Len(one) = 1 /\ one[1] = b
  OBVIOUS
<1> HIDE DEF one, two
<1>3. two = <<a, b>>
  <2>1. <<a, b>> \in Seq(S) /\ Len(<<a, b>>) = 2
    OBVIOUS
  <2>2. \A i \in 1 .. 2 : two[i] = <<a, b>>[i]
    BY <1>1
  <2> QED
    BY <1>1, <2>1, <2>2, SeqEqual
<1>4. one = <<b>>
  <2>1. <<b>> \in Seq(S) /\ Len(<<b>>) = 1
    OBVIOUS
  <2>2. \A i \in 1 .. 1 : one[i] = <<b>>[i]
    BY <1>2
  <2> QED
    BY <1>2, <2>1, <2>2, SeqEqual
<1> QED
  BY <1>3, <1>4 DEF one, two

\* An answer leads to the next step, or ends the probe with what it has to leave.
LEMMA MeasuredIsPlaced ==
  ASSUME NEW worker, WorkerFields(worker), Placed(worker), worker.results \in Seq(BOOLEAN),
         worker.at \in {"sending", "waiting"}, NEW ok \in BOOLEAN
  PROVE  Placed(Measured(worker, ok))
PROOF
<1> DEFINE read == [worker EXCEPT !.slot = 0, !.results = Append(@, ok)]
           next == Measured(worker, ok)
           n    == worker.step
           done == Append(worker.results, ok)
<1>1. /\ WorkerFields(read) /\ read.slot = 0 /\ read.results = done /\ read.step = n
      /\ next = AfterStep(read, ok)
  BY DEF WorkerFields, Measured
<1>2. /\ n \in 1 .. 2 + Calls
      /\ Len(worker.results) = n - 1
      /\ \A i \in 1 .. 2 : i < n => worker.results[i] = TRUE
  BY DEF Placed
<1>3. /\ done \in Seq(BOOLEAN) /\ Len(done) = n
      /\ \A i \in 1 .. n - 1 : done[i] = worker.results[i]
      /\ done[n] = ok
  BY <1>2, AppendProperties
<1> SUFFICES Placed(next)
  OBVIOUS
<1> HIDE DEF read, done, next
<1>4. CASE ~ok /\ n = 1
  <2>1. next.at = "unconnected" /\ next.slot = 0 /\ next.step = 1 /\ next.results = done
    BY <1>1, <1>4 DEF AfterStep, WorkerFields
  <2>2. done = <<FALSE>>
    <3>1. worker.results = <<>>
      BY <1>2, <1>4, EmptySeq
    <3>2. ok = FALSE /\ ok \in BOOLEAN
      BY <1>4
    <3>3. done = <<ok>>
      BY <3>1, <3>2, NextResult, Zenon DEF done
    <3> QED
      BY <3>2, <3>3, Zenon
  <2>3. next.step \in 1 .. 2 + Calls
    BY <2>1, StepsOfProbe
  <2>4. next.results = <<FALSE>>
    BY <2>1, <2>2, Zenon
  <2> QED
    BY <2>1, <2>3, <2>4, RestingIsPlaced
<1>5. CASE ~(~ok /\ n = 1) /\ (n = Len(Steps) \/ (~ok /\ n = 2))
  <2>1. next.at = "closing" /\ next.slot = 0 /\ next.step = n /\ next.results = done
    BY <1>1, <1>5 DEF AfterStep, WorkerFields
  <2>2. Complete(done)
    <3>1. CASE ~ok /\ n = 2
      <4>1. Len(worker.results) = 1 /\ worker.results[1] = TRUE
        BY <1>2, <3>1
      <4>2. worker.results = <<worker.results[1]>>
        BY <4>1, OneResult
      <4>3. ok = FALSE /\ ok \in BOOLEAN /\ worker.results[1] \in BOOLEAN
        BY <4>1, <3>1
      <4>4. done = <<worker.results[1], ok>>
        BY <4>2, <4>3, NextResult, Zenon DEF done
      <4>5. done = <<TRUE, FALSE>>
        BY <4>1, <4>3, <4>4, Zenon
      <4> QED
        BY <4>5 DEF Complete
    <3>2. CASE n = Len(Steps)
      <4>1. Len(done) = 2 + Calls /\ 1 \in 1 .. n - 1 /\ 2 \in 1 .. n - 1
        BY <1>3, <3>2, StepsOfProbe
      <4>2. worker.results[1] = TRUE /\ worker.results[2] = TRUE
        BY <1>2, <3>2, StepsOfProbe
      <4>3. done[1] = TRUE /\ done[2] = TRUE
        BY <1>3, <4>1, <4>2
      <4> QED
        BY <4>1, <4>3 DEF Complete
    <3> QED
      BY <3>1, <3>2, <1>5
  <2>3. next.step \in 1 .. 2 + Calls
    BY <1>2, <2>1
  <2>4. Complete(next.results)
    BY <2>1, <2>2, Zenon
  <2> QED
    BY <2>1, <2>3, <2>4, RestingIsPlaced
<1>6. CASE ~(~ok /\ n = 1) /\ ~(n = Len(Steps) \/ (~ok /\ n = 2))
  <2>1. next.at = "sending" /\ next.slot = 0 /\ next.step = n + 1 /\ next.results = done
    BY <1>1, <1>6 DEF AfterStep, WorkerFields
  <2>2. n + 1 \in 1 .. 2 + Calls /\ Len(done) = n + 1 - 1
    BY <1>2, <1>3, <1>6, StepsOfProbe
  <2>3. ASSUME NEW i \in 1 .. 2, i < n + 1
        PROVE  done[i] = TRUE
    <3>1. CASE i = n
      BY <1>3, <1>6, <3>1
    <3>2. CASE i # n
      <4>1. i < n /\ i \in 1 .. n - 1
        BY <1>2, <2>3, <3>2
      <4> QED
        BY <1>2, <1>3, <4>1
    <3> QED
      BY <3>1, <3>2
  <2>4. /\ next.step \in 1 .. 2 + Calls
        /\ Len(next.results) = next.step - 1
    BY <1>2, <2>1, <2>2
  <2>5. \A i \in 1 .. 2 : i < next.step => next.results[i] = TRUE
    BY <2>1, <2>3, Zenon
  <2> QED
    BY <2>1, <2>4, <2>5, RestingIsPlaced
<1> QED
  BY <1>4, <1>5, <1>6

\* The workers have the first indices, also those beyond the probes.
LEMMA InitHasProgress == Init => Progress
PROOF
<1> SUFFICES ASSUME Init
             PROVE  Progress
  OBVIOUS
<1> DEFINE n == WorkerCount(run)
<1>1. run \in [count : Nat, concurrency : Nat, closable : BOOLEAN]
  <2>1. run \in IF topic = "run" THEN Runs ELSE {NoRun}
    BY DEF Init
  <2>2. NoRun \in [count : Nat, concurrency : Nat, closable : BOOLEAN]
    BY DEF NoRun
  <2> QED
    BY <2>1, <2>2, RunsAssumption
<1>2. n \in Nat \ {0}
  BY <1>1, CountOfWorkers
<1>3. /\ nextIndex = n
      /\ workers = [w \in 1 .. n |-> AtIndex(w - 1, run.count)]
      /\ buckets = [i \in 0 .. run.count - 1 |-> None]
  BY DEF Init
<1> HIDE DEF n
<1>4. Workers = 1 .. n
  BY <1>3 DEF Workers
<1>5. \A w \in Workers : Placed(workers[w]) /\ workers[w].index = w - 1
  <2> TAKE w \in Workers
  <2>1. workers[w] = AtIndex(w - 1, run.count) /\ w - 1 \in Nat
    BY <1>2, <1>3, <1>4
  <2>2. run.count \in Nat
    BY <1>1
  <2>3. AtIndex(w - 1, run.count).index = w - 1
    BY DEF AtIndex
  <2> QED
    BY <2>1, <2>2, <2>3, StartIsPlaced
<1>6. ASSUME NEW i \in run.count .. nextIndex - 1
      PROVE  \E w \in Workers : workers[w].index = i
  <2>1. i + 1 \in Workers /\ i + 1 - 1 = i
    BY <1>1, <1>2, <1>3, <1>4
  <2>2. workers[i + 1].index = i + 1 - 1
    BY <1>5, <2>1
  <2> QED
    BY <2>1, <2>2
<1>7. nextIndex >= 1
  BY <1>2, <1>3
<1>8. \A i \in 0 .. run.count - 1 : buckets[i] = None
  BY <1>3
<1> QED
  BY <1>1, <1>4, <1>5, <1>6, <1>7, <1>8 DEF Progress, n

\* A worker that goes on with its probe.
LEMMA GoesOnKeepsProgress ==
  ASSUME RunInv, Progress, NEW w \in Workers, NEW worker,
         workers' = [workers EXCEPT ![w] = worker],
         worker.index = workers[w].index,
         Placed(worker),
         UNCHANGED <<run, nextIndex, buckets>>
  PROVE  Progress'
PROOF
<1>1. Workers' = Workers
  BY DEF RunInv, Typed, Workers
<1>2. workers'[w] = worker /\ \A v \in Workers : v # w => workers'[v] = workers[v]
  BY DEF RunInv, Typed, Workers
<1>3. \A v \in Workers : Placed(workers'[v])
  BY <1>2 DEF Progress
<1>4. \A v \in Workers : workers'[v].index = workers[v].index
  BY <1>2
<1> QED
  BY <1>1, <1>3, <1>4 DEF Progress, WorkerCount

\* A step of the server changes nothing of this.
LEMMA UnchangedKeepsProgress ==
  ASSUME Progress, UNCHANGED <<run, nextIndex, workers, buckets>>
  PROVE  Progress'
BY DEF Progress, Workers, WorkerCount

\* The worker takes the next index, and its old one was that of a probe.
LEMMA ProbeEndsKeepsProgress ==
  ASSUME RunInv, Progress, NEW w \in Workers, ProbeEnds(w)
  PROVE  Progress'
PROOF
<1> DEFINE worker == AtIndex(nextIndex, run.count)
           mine   == workers[w].index
<1>1. /\ workers' = [workers EXCEPT ![w] = worker]
      /\ buckets' = [buckets EXCEPT ![mine] = workers[w].results]
      /\ nextIndex' = nextIndex + 1
      /\ run' = run
      /\ workers[w].at \in {"unconnected", "closing"}
  BY DEF ProbeEnds, Moved
<1>2. nextIndex \in Nat /\ run.count \in Nat /\ mine \in Nat /\ mine < run.count
  BY <1>1 DEF RunInv, Typed
<1>3. Placed(worker) /\ worker.index = nextIndex
  <2>1. Placed(worker)
    BY <1>2, StartIsPlaced
  <2> QED
    BY <2>1 DEF AtIndex
<1> HIDE DEF worker
<1>4. Workers' = Workers
  BY <1>1 DEF RunInv, Typed, Workers
<1>5. workers'[w] = worker /\ \A v \in Workers : v # w => workers'[v] = workers[v]
  BY <1>1 DEF RunInv, Typed, Workers
<1>6. \A v \in Workers : Placed(workers'[v])
  BY <1>3, <1>5 DEF Progress
<1>7. ASSUME NEW i \in run.count .. nextIndex
      PROVE  \E v \in Workers : workers'[v].index = i
  <2>1. CASE i = nextIndex
    BY <2>1, <1>3, <1>5
  <2>2. CASE i # nextIndex
    <3>1. i \in run.count .. nextIndex - 1 /\ i # mine
      BY <2>2, <1>2
    <3>2. PICK v \in Workers : workers[v].index = i
      BY <3>1 DEF Progress
    <3> QED
      BY <3>1, <3>2, <1>5
  <2> QED
    BY <2>1, <2>2
<1>8. Complete(workers[w].results)
  BY <1>1 DEF Progress, Placed, Complete
<1>9. \A i \in 0 .. run.count - 1 : buckets'[i] = None \/ Complete(buckets'[i])
  <2> TAKE i \in 0 .. run.count - 1
  <2>1. CASE i = mine
    <3>1. buckets'[i] = workers[w].results
      BY <2>1, <1>1 DEF RunInv, Typed
    <3> QED
      BY <3>1, <1>8
  <2>2. CASE i # mine
    <3>1. buckets'[i] = buckets[i]
      BY <2>2, <1>1 DEF RunInv, Typed
    <3> QED
      BY <3>1 DEF Progress
  <2> QED
    BY <2>1, <2>2
<1>10. nextIndex' - 1 = nextIndex /\ nextIndex' >= 1
  BY <1>1, <1>2
<1> QED
  BY <1>1, <1>4, <1>6, <1>7, <1>9, <1>10 DEF Progress, WorkerCount

\* The steps, one by one.
LEMMA NextKeepsProgress ==
  ASSUME RunInv, Progress, [Next]_vars
  PROVE  Progress'
PROOF
<1>1. ASSUME NEW w \in Workers, Send(w)
      PROVE  Progress'
  <2>1. PICK s \in FreeSlots : workers' = [workers EXCEPT ![w].at = "waiting", ![w].slot = s]
    BY <1>1 DEF Send
  <2> DEFINE worker == [workers[w] EXCEPT !.at = "waiting", !.slot = s]
  <2>2. workers' = [workers EXCEPT ![w] = worker]
    BY <2>1 DEF RunInv, Typed, WorkerFields
  <2>3. /\ worker.at = "waiting" /\ worker.slot = s
        /\ worker.index = workers[w].index
        /\ worker.step = workers[w].step
        /\ worker.results = workers[w].results
        /\ workers[w].at = "sending"
    BY <1>1 DEF RunInv, Typed, WorkerFields, Send
  <2>4. s \in Slots /\ s # 0
    BY SlotsAssumption DEF FreeSlots
  <2> HIDE DEF worker
  <2>5. Placed(worker)
    BY <2>3, <2>4 DEF Progress, Placed
  <2>6. UNCHANGED <<run, nextIndex, buckets>>
    BY <1>1 DEF Send
  <2> QED
    BY <2>2, <2>3, <2>5, <2>6, GoesOnKeepsProgress
<1>2. ASSUME NEW w \in Workers, NEW ok \in BOOLEAN,
             workers[w].at \in {"sending", "waiting"},
             workers' = [workers EXCEPT ![w] = Measured(@, ok)],
             UNCHANGED <<run, nextIndex, buckets>>
      PROVE  Progress'
  <2> DEFINE worker == Measured(workers[w], ok)
  <2>1. WorkerFields(workers[w]) /\ workers[w].results \in Seq(BOOLEAN) /\ Placed(workers[w])
    BY DEF RunInv, Typed, Progress
  <2>2. Placed(worker)
    BY <1>2, <2>1, MeasuredIsPlaced
  <2>3. worker.index = workers[w].index
    BY <2>1 DEF Measured, AfterStep, WorkerFields
  <2>4. workers' = [workers EXCEPT ![w] = worker]
    BY <1>2
  <2> HIDE DEF worker
  <2> QED
    BY <1>2, <2>2, <2>3, <2>4, GoesOnKeepsProgress
<1>3. ASSUME NEW w \in Workers, Receive(w)
      PROVE  Progress'
  <2> DEFINE ok == slots[workers[w].slot].status = "200"
  <2>1. /\ workers' = [workers EXCEPT ![w] = Measured(@, ok)]
        /\ UNCHANGED <<run, nextIndex, buckets>>
        /\ workers[w].at = "waiting"
    BY <1>3 DEF Receive
  <2>2. ok \in BOOLEAN
    OBVIOUS
  <2> HIDE DEF ok
  <2> QED
    BY <2>1, <2>2, <1>2
<1>4. ASSUME NEW w \in Workers, Refused(w)
      PROVE  Progress'
  <2>1. /\ workers' = [workers EXCEPT ![w] = Measured(@, FALSE)]
        /\ UNCHANGED <<run, nextIndex, buckets>>
        /\ workers[w].at = "sending"
    BY <1>4 DEF Refused
  <2> QED
    BY <2>1, <1>2
<1>5. ASSUME NEW w \in Workers, ProbeThrows(w)
      PROVE  Progress'
  <2> DEFINE worker == [workers[w] EXCEPT !.at = "rejected"]
  <2>1. workers' = [workers EXCEPT ![w] = worker]
    BY <1>5 DEF ProbeThrows, RunInv, Typed, WorkerFields
  <2>2. /\ worker.at = "rejected"
        /\ worker.slot = workers[w].slot
        /\ worker.index = workers[w].index
        /\ worker.step = workers[w].step
        /\ workers[w].at = "closing"
    BY <1>5 DEF RunInv, Typed, WorkerFields, ProbeThrows
  <2> HIDE DEF worker
  <2>3. Placed(worker)
    BY <2>2 DEF Progress, Placed
  <2>4. UNCHANGED <<run, nextIndex, buckets>>
    BY <1>5 DEF ProbeThrows
  <2> QED
    BY <2>1, <2>2, <2>3, <2>4, GoesOnKeepsProgress
<1>6. ASSUME NEW w \in Workers, ProbeEnds(w)
      PROVE  Progress'
  BY <1>6, ProbeEndsKeepsProgress
<1>7. CASE \E r \in strangers : StrangerSends(r)
  BY <1>7, UnchangedKeepsProgress DEF StrangerSends
<1>8. CASE ServerNext
  BY <1>8, UnchangedKeepsProgress DEF ServerNext, runVars
<1>9. CASE UNCHANGED vars
  BY <1>9, UnchangedKeepsProgress DEF vars, runVars
<1> QED
  BY <1>1, <1>3, <1>4, <1>5, <1>6, <1>7, <1>8, <1>9 DEF Next

\* There are not more indices beyond the probes than workers.
LEMMA CounterIsBounded ==
  ASSUME RunInv, Progress
  PROVE  nextIndex \in 1 .. run.count + WorkerCount(run)
PROOF
<1> DEFINE n      == WorkerCount(run)
           beyond == run.count .. nextIndex - 1
           owner  == [i \in beyond |-> CHOOSE w \in Workers : workers[w].index = i]
<1>1. n \in Nat \ {0} /\ Workers = 1 .. n
  BY CountOfWorkers DEF Progress
<1>2. nextIndex \in Nat /\ run.count \in Nat /\ nextIndex >= 1
  BY DEF RunInv, Typed, Progress
<1> HIDE DEF n
<1>3. CASE nextIndex <= run.count
  BY <1>1, <1>2, <1>3 DEF n
<1>4. CASE nextIndex > run.count
  <2>1. \A i \in beyond : owner[i] \in Workers /\ workers[owner[i]].index = i
    BY DEF Progress
  <2> HIDE DEF owner
  <2>2. owner \in [beyond -> Workers]
    BY <2>1 DEF owner
  <2>3. \A i, j \in beyond : owner[i] = owner[j] => i = j
    BY <2>1
  <2>4. owner \in Injection(beyond, Workers)
    BY <2>2, <2>3 DEF Injection, IsInjective
  <2>5. IsFiniteSet(beyond) /\ Cardinality(beyond) = nextIndex - 1 - run.count + 1
    <3>1. run.count \in Int /\ nextIndex - 1 \in Int /\ ~(run.count > nextIndex - 1)
      BY <1>2, <1>4
    <3> QED
      BY <3>1, FS_Interval
  <2>6. IsFiniteSet(Workers) /\ Cardinality(Workers) = n
    BY <1>1, FS_Interval
  <2>7. Cardinality(beyond) <= Cardinality(Workers)
    BY <2>4, <2>5, <2>6, FS_Injection
  <2>8. nextIndex <= run.count + n
    BY <1>1, <1>2, <2>5, <2>6, <2>7
  <2> QED
    BY <1>1, <1>2, <2>8 DEF n
<1> QED
  BY <1>2, <1>3, <1>4

\* Every variable of the server and of the run has its type; the counter ends at most
\* one beyond the last probe for every worker, and what a probe leaves is complete
\* (httpTransport.ts 560-690, reliabilityRunner.ts 86-111).
THEOREM TypeCorrect == Spec => []TypeOK
PROOF
<1>1. Inv /\ [Next]_vars => Inv'
  BY NextKeepsInv
<1>2. Guarded /\ [Next]_vars => Guarded'
  BY NextIsGuarded
<1>3. Inv /\ Inv' /\ Peaked /\ [Next]_vars => Peaked'
  BY NextKeepsPeaked
<1>4. RunInv /\ [Next]_vars => RunInv'
  BY NextKeepsRunInv
<1>5. RunInv /\ Progress /\ [Next]_vars => Progress'
  BY NextKeepsProgress
<1>6. Inv /\ Guarded /\ Peaked /\ RunInv /\ Progress => TypeOK
  <2> SUFFICES ASSUME Inv, Guarded, Peaked, RunInv, Progress
               PROVE  TypeOK
    OBVIOUS
  <2>1. ServerTypeOK /\ PoolIsPeak
    BY ServerIsTyped
  <2>2. nextIndex \in 1 .. run.count + WorkerCount(run)
    BY CounterIsBounded
  <2>3. \A w \in Workers :
          /\ workers[w].at \in {"sending", "waiting", "unconnected", "closing", "ended",
                                "rejected"}
          /\ workers[w].slot \in {0} \cup Slots
          /\ workers[w].slot = 0 <=> workers[w].at # "waiting"
          /\ workers[w].results \in Seq(BOOLEAN)
    BY DEF Progress, Placed, RunInv, Typed
  <2>4. \A i \in Indices : buckets[i] = None \/ Complete(buckets[i])
    BY DEF Progress, RunInv, Typed, Indices
  <2> QED
    BY <2>1, <2>2, <2>3, <2>4 DEF TypeOK
<1> QED
  BY InitIsSound, InitIsGuarded, InitIsPeaked, InitEstablishes, InitHasProgress,
     <1>1, <1>2, <1>3, <1>4, <1>5, <1>6, PTL DEF Spec

-----------------------------------------------------------------------------
(***************************************************************************)
(* The report, for results of every number of requests.                    *)
(***************************************************************************)

\* Numbers by index, of which there are finitely many.
AreNumbers(values) ==
  IsFiniteSet(DOMAIN values) /\ \A i \in DOMAIN values : values[i] \in Nat

\* The indices of the values up to v, and below v.
UpTo(values, v)  == {i \in DOMAIN values : values[i] <= v}
Below(values, v) == {i \in DOMAIN values : values[i] < v}

\* A set of naturals has a least one.
LEMMA LeastNatural ==
  ASSUME NEW T \in SUBSET Nat, T # {}
  PROVE  \E x \in T : \A y \in T : x <= y
PROOF
<1> DEFINE less == {p \in Nat \X Nat : p[1] < p[2]}
<1>1. IsWellFoundedOn(less, Nat)
  BY NatLessThanWellFounded, Zenon DEF OpToRel
<1> HIDE DEF less
<1>2. PICK x \in T : \A y \in T : <<y, x>> \notin less
  BY <1>1, WFMin
<1> WITNESS x \in T
<1> TAKE y \in T
<1>3. <<y, x>> \in Nat \X Nat /\ ~(y < x)
  BY <1>2 DEF less
<1> QED
  BY <1>3

\* A finite set of naturals has a greatest one: that with the fewest above it.
LEMMA GreatestNatural ==
  ASSUME NEW T \in SUBSET Nat, T # {}, IsFiniteSet(T)
  PROVE  \E x \in T : \A y \in T : y <= x
PROOF
<1> DEFINE above(x) == {y \in T : y > x}
           sizes    == {Cardinality(above(x)) : x \in T}
<1>1. \A x : IsFiniteSet(above(x)) /\ Cardinality(above(x)) \in Nat
  BY FS_Subset, FS_CardinalityType
<1>2. sizes \in SUBSET Nat /\ sizes # {}
  BY <1>1
<1>3. PICK n \in sizes : \A m \in sizes : n <= m
  BY <1>2, LeastNatural
<1>4. PICK x \in T : Cardinality(above(x)) = n
  OBVIOUS
<1>5. ASSUME NEW y \in T, ~(y <= x)
      PROVE  FALSE
  <2>0. x \in Nat /\ y \in Nat /\ x < y
    BY <1>5
  <2>1. above(y) \subseteq above(x) /\ y \in above(x) /\ y \notin above(y)
    <3>1. \A z \in T : z \in Nat
      OBVIOUS
    <3>2. \A z \in T : z > y => z > x
      BY <2>0, <3>1
    <3>3. y > x /\ ~(y > y)
      BY <2>0
    <3> QED
      BY <3>2, <3>3, Zenon
  <2> HIDE DEF above
  <2>2. Cardinality(above(y)) < Cardinality(above(x))
    BY <1>1, <2>1, FS_Subset
  <2>3. Cardinality(above(x)) <= Cardinality(above(y))
    BY <1>3, <1>4
  <2> QED
    BY <1>1, <2>2, <2>3
<1> QED
  BY <1>5

\* How many values are below one and up to one are naturals, and one is at most the other.
LEMMA Counts ==
  ASSUME NEW values, AreNumbers(values), NEW v \in Nat
  PROVE  /\ IsFiniteSet(UpTo(values, v)) /\ IsFiniteSet(Below(values, v))
         /\ Cardinality(UpTo(values, v)) \in Nat
         /\ Cardinality(Below(values, v)) \in Nat
         /\ Count(values) \in Nat
         /\ Cardinality(UpTo(values, v)) <= Count(values)
         /\ Cardinality(Below(values, v)) <= Cardinality(UpTo(values, v))
PROOF
<1>1. UpTo(values, v) \subseteq DOMAIN values /\ Below(values, v) \subseteq UpTo(values, v)
  BY DEF UpTo, Below, AreNumbers
<1> QED
  BY <1>1, FS_Subset, FS_CardinalityType DEF AreNumbers, Count

\* What sorting puts at an index.
LEMMA InOrderIsTheOne ==
  ASSUME NEW values, AreNumbers(values), NEW index \in Nat, index < Count(values)
  PROVE  LET v == InOrder(values, index) IN
         /\ v \in Nat
         /\ \E i \in DOMAIN values : v = values[i]
         /\ Cardinality(Below(values, v)) <= index
         /\ index < Cardinality(UpTo(values, v))
PROOF
<1> DEFINE T   == {v \in Nat : index < Cardinality(UpTo(values, v))}
           all == {values[i] : i \in DOMAIN values}
<1>1. all \in SUBSET Nat /\ IsFiniteSet(all)
  <2> DEFINE f == [i \in DOMAIN values |-> values[i]]
  <2>1. f \in Surjection(DOMAIN values, all)
    BY DEF Surjection
  <2> QED
    BY <2>1, FS_Surjection DEF AreNumbers
<1>2. all # {}
  <2>1. DOMAIN values # {}
    BY FS_EmptySet DEF Count
  <2> QED
    BY <2>1
<1>3. T # {}
  <2>1. PICK m \in all : \A y \in all : y <= m
    BY <1>1, <1>2, GreatestNatural
  <2>2. UpTo(values, m) = DOMAIN values
    BY <2>1 DEF UpTo
  <2> QED
    BY <1>1, <2>1, <2>2 DEF Count
<1>4. PICK v \in T : \A w \in T : v <= w
  BY <1>3, LeastNatural
<1>5. v \in Nat /\ index < Cardinality(UpTo(values, v))
  OBVIOUS
<1>6. Cardinality(Below(values, v)) <= index
  <2>1. CASE v = 0
    <3>1. Below(values, v) = {}
      BY <2>1 DEF Below, AreNumbers
    <3> QED
      BY <3>1, FS_EmptySet
  <2>2. CASE v # 0
    <3>1. v - 1 \in Nat /\ v - 1 \notin T
      BY <1>4, <1>5, <2>2
    <3>2. Below(values, v) = UpTo(values, v - 1)
      BY <1>5, <2>2 DEF Below, UpTo, AreNumbers
    <3> QED
      BY <3>1, <3>2, Counts
  <2> QED
    BY <2>1, <2>2
<1>7. v \in all
  <2> SUFFICES ASSUME v \notin all PROVE FALSE
    OBVIOUS
  <2>1. UpTo(values, v) = Below(values, v)
    BY <1>1, <1>5 DEF UpTo, Below
  <2> QED
    BY <2>1, <1>5, <1>6, Counts
<1> DEFINE found(u) == /\ Cardinality(Below(values, u)) <= index
                       /\ index < Cardinality(UpTo(values, u))
<1>8. InOrder(values, index) = CHOOSE u \in all : found(u)
  BY DEF InOrder, Below, UpTo
<1>9. InOrder(values, index) \in all /\ found(InOrder(values, index))
  <2>1. v \in all /\ found(v)
    BY <1>5, <1>6, <1>7
  <2> HIDE DEF all, found
  <2> QED
    BY <1>8, <2>1
<1> QED
  BY <1>1, <1>9

\* Smaller values are smaller in order.
LEMMA InOrderMonotone ==
  ASSUME NEW values, AreNumbers(values), NEW better, AreNumbers(better),
         DOMAIN better = DOMAIN values, \A i \in DOMAIN values : better[i] <= values[i],
         NEW index \in Nat, index < Count(values)
  PROVE  InOrder(better, index) <= InOrder(values, index)
PROOF
<1> DEFINE v == InOrder(values, index)
           w == InOrder(better, index)
<1>1. Count(better) = Count(values)
  BY DEF Count
<1>2. /\ v \in Nat /\ index < Cardinality(UpTo(values, v))
      /\ w \in Nat /\ Cardinality(Below(better, w)) <= index
  BY <1>1, InOrderIsTheOne
<1> HIDE DEF v, w
<1> SUFFICES ASSUME v < w PROVE FALSE
  BY <1>2 DEF v, w
<1>3. UpTo(values, v) \subseteq Below(better, w)
  BY <1>2 DEF UpTo, Below, AreNumbers
<1>4. Cardinality(UpTo(values, v)) <= Cardinality(Below(better, w))
  BY <1>2, <1>3, Counts, FS_Subset
<1> QED
  BY <1>2, <1>4, Counts

\* A later index has no smaller value.
LEMMA InOrderAscends ==
  ASSUME NEW values, AreNumbers(values), NEW j \in Nat, NEW k \in Nat, j <= k,
         k < Count(values)
  PROVE  InOrder(values, j) <= InOrder(values, k)
PROOF
<1> DEFINE v == InOrder(values, j)
           w == InOrder(values, k)
<1>0. Count(values) \in Nat
  BY Counts
<1>1. j < Count(values)
  BY <1>0
<1>2. /\ v \in Nat /\ Cardinality(Below(values, v)) <= j
      /\ w \in Nat /\ k < Cardinality(UpTo(values, w))
  BY <1>1, InOrderIsTheOne
<1> HIDE DEF v, w
<1> SUFFICES ASSUME w < v PROVE FALSE
  BY <1>2 DEF v, w
<1>3. UpTo(values, w) \subseteq Below(values, v)
  BY <1>2 DEF UpTo, Below, AreNumbers
<1>4. Cardinality(UpTo(values, w)) <= Cardinality(Below(values, v))
  BY <1>2, <1>3, Counts, FS_Subset
<1> QED
  BY <1>2, <1>4, Counts

Shares == {50, 95, 99}

\* The index of a percentile of n values.
IndexOf(n, p) == AtLeast((n * p + 99) \div 100 - 1, 0)

LEMMA PercentileInOrder ==
  ASSUME NEW values, DOMAIN values # {}, NEW p
  PROVE  Percentile(values, p) = InOrder(values, IndexOf(Count(values), p))
BY DEF Percentile, IndexOf

\* It is the least whose share of the values is large enough.
LEMMA PercentileIndex ==
  ASSUME NEW n \in Nat, n # 0, NEW p \in Shares
  PROVE  /\ IndexOf(n, p) \in Nat /\ IndexOf(n, p) < n
         /\ 100 * (IndexOf(n, p) + 1) >= n * p
         /\ 100 * IndexOf(n, p) < n * p
PROOF
<1>1. CASE p = 50
  BY <1>1 DEF IndexOf, AtLeast
<1>2. CASE p = 95
  BY <1>2 DEF IndexOf, AtLeast
<1>3. CASE p = 99
  BY <1>3 DEF IndexOf, AtLeast
<1> QED
  BY <1>1, <1>2, <1>3 DEF Shares

\* A percentile has its share of the values up to it, and less than that below it.
LEMMA PercentileHasItsShare ==
  ASSUME NEW values, AreNumbers(values), DOMAIN values # {}, NEW p \in Shares
  PROVE  LET v == Percentile(values, p) IN
         /\ v \in Nat
         /\ \E i \in DOMAIN values : v = values[i]
         /\ 100 * Cardinality(UpTo(values, v)) >= p * Count(values)
         /\ 100 * Cardinality(Below(values, v)) < p * Count(values)
PROOF
<1> DEFINE k == IndexOf(Count(values), p)
           v == Percentile(values, p)
<1>1. Count(values) \in Nat /\ Count(values) # 0
  BY FS_EmptySet, FS_CardinalityType DEF Count, AreNumbers
<1>2. /\ k \in Nat /\ k < Count(values)
      /\ 100 * (k + 1) >= Count(values) * p
      /\ 100 * k < Count(values) * p
  BY <1>1, PercentileIndex
<1>3. v = InOrder(values, k)
  BY PercentileInOrder
<1> HIDE DEF k, v
<1>4. /\ v \in Nat
      /\ \E i \in DOMAIN values : v = values[i]
      /\ Cardinality(Below(values, v)) <= k
      /\ k < Cardinality(UpTo(values, v))
  BY <1>2, <1>3, InOrderIsTheOne
<1>5. Cardinality(Below(values, v)) \in Nat /\ Cardinality(UpTo(values, v)) \in Nat
  BY <1>4, Counts
<1>6. p \in Nat
  BY DEF Shares
<1>7. p * Count(values) = Count(values) * p
  BY <1>1, <1>6
<1>8. /\ 100 * Cardinality(UpTo(values, v)) >= 100 * (k + 1)
      /\ 100 * Cardinality(Below(values, v)) <= 100 * k
  BY <1>2, <1>4, <1>5
<1>9. Count(values) * p \in Nat
  BY <1>1, <1>6
<1> QED
  BY <1>2, <1>4, <1>5, <1>7, <1>8, <1>9 DEF v

\* Percentiles of smaller values are smaller, also those of none.
LEMMA PercentileMonotone ==
  ASSUME NEW values, AreNumbers(values), NEW better, AreNumbers(better),
         DOMAIN better = DOMAIN values, \A i \in DOMAIN values : better[i] <= values[i],
         NEW p \in Shares
  PROVE  Percentile(better, p) <= Percentile(values, p)
PROOF
<1>1. CASE DOMAIN values = {}
  BY <1>1 DEF Percentile
<1>2. CASE DOMAIN values # {}
  <2> DEFINE k == IndexOf(Count(values), p)
  <2>1. Count(values) \in Nat /\ Count(values) # 0 /\ Count(better) = Count(values)
    BY <1>2, FS_EmptySet, FS_CardinalityType DEF Count, AreNumbers
  <2>2. k \in Nat /\ k < Count(values)
    BY <2>1, PercentileIndex
  <2>3. Percentile(values, p) = InOrder(values, k) /\ Percentile(better, p) = InOrder(better, k)
    BY <1>2, <2>1, PercentileInOrder
  <2> HIDE DEF k
  <2> QED
    BY <2>2, <2>3, InOrderMonotone
<1> QED
  BY <1>1, <1>2

\* A larger share has no smaller percentile.
LEMMA PercentilesAscend ==
  ASSUME NEW values, AreNumbers(values)
  PROVE  /\ Percentile(values, 50) <= Percentile(values, 95)
         /\ Percentile(values, 95) <= Percentile(values, 99)
PROOF
<1>1. CASE DOMAIN values = {}
  BY <1>1 DEF Percentile
<1>2. CASE DOMAIN values # {}
  <2> DEFINE n == Count(values)
  <2>1. n \in Nat /\ n # 0
    BY <1>2, FS_EmptySet, FS_CardinalityType DEF Count, AreNumbers
  <2>2. \A p : Percentile(values, p) = InOrder(values, IndexOf(n, p))
    BY <1>2, PercentileInOrder
  <2> HIDE DEF n
  <2>3. \A p \in Shares : IndexOf(n, p) \in Nat /\ IndexOf(n, p) < n
    BY <2>1, PercentileIndex
  <2>4. IndexOf(n, 50) <= IndexOf(n, 95) /\ IndexOf(n, 95) <= IndexOf(n, 99)
    BY <2>1 DEF IndexOf, AtLeast
  <2> QED
    BY <2>2, <2>3, <2>4, InOrderAscends DEF Shares, n
<1> QED
  BY <1>1, <1>2

\* The least and the greatest value.
LEMMA Extremes ==
  ASSUME NEW values, AreNumbers(values), DOMAIN values # {}, NEW i \in DOMAIN values
  PROVE  LET all == {values[j] : j \in DOMAIN values} IN
         Min(all) <= values[i] /\ values[i] <= Max(all)
PROOF
<1> DEFINE all == {values[j] : j \in DOMAIN values}
           f   == [j \in DOMAIN values |-> values[j]]
<1>1. f \in Surjection(DOMAIN values, all)
  BY DEF Surjection
<1>2. all \in SUBSET Nat /\ all # {} /\ IsFiniteSet(all) /\ values[i] \in all
  BY <1>1, FS_Surjection DEF AreNumbers
<1> HIDE DEF all
<1>3. \E x \in all : \A y \in all : x <= y
  BY <1>2, LeastNatural
<1>4. \E x \in all : \A y \in all : x >= y
  <2>1. PICK x \in all : \A y \in all : y <= x
    BY <1>2, GreatestNatural
  <2> QED
    BY <1>2, <2>1
<1>5. Min(all) <= values[i]
  BY <1>2, <1>3 DEF Min
<1>6. Max(all) \in all /\ Max(all) >= values[i]
  BY <1>2, <1>4 DEF Max
<1> QED
  BY <1>2, <1>5, <1>6 DEF all

-----------------------------------------------------------------------------
\* Sums. SumOf takes the indices one by one in an order that the set alone decides.

\* What holds of no indices, and of a set if it holds without the one taken first,
\* holds of every set of indices.
LEMMA OneByOneInduction ==
  ASSUME NEW D, IsFiniteSet(D), NEW Good \in SUBSET (SUBSET D), {} \in Good,
         \A s \in SUBSET D : s # {} /\ s \ {CHOOSE x \in s : TRUE} \in Good => s \in Good
  PROVE  \A s \in SUBSET D : s \in Good
PROOF
<1> DEFINE bad   == {s \in SUBSET D : s \notin Good}
           sizes == {Cardinality(s) : s \in bad}
<1>1. \A s \in SUBSET D : IsFiniteSet(s) /\ Cardinality(s) \in Nat
  BY FS_Subset, FS_CardinalityType
<1> SUFFICES ASSUME bad # {} PROVE FALSE
  OBVIOUS
<1>2. sizes \in SUBSET Nat /\ sizes # {}
  BY <1>1
<1>3. PICK n \in sizes : \A m \in sizes : n <= m
  BY <1>2, LeastNatural
<1>4. PICK s \in bad : Cardinality(s) = n
  OBVIOUS
<1>5. s \in SUBSET D /\ s # {} /\ s \ {CHOOSE x \in s : TRUE} \notin Good
  OBVIOUS
<1> DEFINE c == CHOOSE x \in s : TRUE
           r == s \ {c}
<1>6. c \in s
  BY <1>5
<1>7. r \in bad
  BY <1>5
<1> HIDE DEF c
<1>8. Cardinality(r) = Cardinality(s) - 1
  BY <1>1, <1>5, <1>6, FS_RemoveElement
<1>9. Cardinality(s) <= Cardinality(r)
  BY <1>3, <1>4, <1>7
<1> QED
  BY <1>1, <1>5, <1>8, <1>9

\* The sum over every set of indices, by the recursion of the definition.
Step(values, g, s) ==
  IF s = {} THEN 0 ELSE values[CHOOSE x \in s : TRUE] + g[s \ {CHOOSE x \in s : TRUE}]

Partial(values, g) ==
  /\ g \in [SUBSET DOMAIN values -> Nat]
  /\ \A s \in SUBSET DOMAIN values : g[s] = Step(values, g, s)

LEMMA PartialExists ==
  ASSUME NEW values, AreNumbers(values)
  PROVE  \E g : Partial(values, g)
PROOF
<1> DEFINE D        == DOMAIN values
           small(n) == {s \in SUBSET D : Cardinality(s) <= n}
           done(g, n) == /\ g \in [small(n) -> Nat]
                         /\ \A s \in small(n) : g[s] = Step(values, g, s)
           bad      == {n \in Nat : ~\E g : done(g, n)}
<1>1. \A s \in SUBSET D : IsFiniteSet(s) /\ Cardinality(s) \in Nat
  BY FS_Subset, FS_CardinalityType DEF AreNumbers
<1>2. bad = {}
  <2> SUFFICES ASSUME bad # {} PROVE FALSE
    OBVIOUS
  <2>1. PICK m \in bad : \A n \in bad : m <= n
    BY LeastNatural
  <2>2. CASE m = 0
    <3>1. \A s \in small(0) : s = {}
      BY <1>1, FS_EmptySet
    <3>2. done([s \in small(0) |-> 0], 0)
      BY <3>1 DEF Step
    <3> QED
      BY <2>1, <2>2, <3>2
  <2>3. CASE m # 0
    <3>1. m - 1 \in Nat /\ m - 1 \notin bad
      <4>1. m \in Nat /\ \A n \in bad : m <= n
        BY <2>1
      <4> HIDE DEF bad
      <4>2. m - 1 \in Nat /\ ~(m <= m - 1)
        BY <2>3, <4>1
      <4> QED
        BY <4>1, <4>2
    <3>2. PICK g : done(g, m - 1)
      BY <3>1
    <3> DEFINE h == [s \in small(m) |-> Step(values, g, s)]
    <3>3. ASSUME NEW s \in small(m), s # {}
          PROVE  s \ {CHOOSE x \in s : TRUE} \in small(m - 1)
      <4> DEFINE c == CHOOSE x \in s : TRUE
      <4>1. c \in s
        BY <3>3
      <4> HIDE DEF c
      <4>2. Cardinality(s \ {c}) = Cardinality(s) - 1
        BY <1>1, <4>1, FS_RemoveElement
      <4>3. Cardinality(s) \in Nat /\ Cardinality(s) <= m
        BY <1>1
      <4>4. s \ {c} \in small(m - 1)
        BY <2>1, <4>2, <4>3
      <4> QED
        BY <4>4 DEF c
    <3>4. small(m - 1) \subseteq small(m)
      BY <1>1, <2>1
    <3>5. \A s \in small(m - 1) : h[s] = g[s]
      BY <3>2, <3>4
    <3>6. ASSUME NEW s \in small(m)
          PROVE  h[s] \in Nat /\ h[s] = Step(values, h, s)
      <4>1. CASE s = {}
        BY <4>1 DEF Step
      <4>2. CASE s # {}
        <5> DEFINE c == CHOOSE x \in s : TRUE
        <5>1. c \in s
          BY <4>2
        <5>2. values[c] \in Nat
          BY <5>1 DEF AreNumbers
        <5>3. s \ {c} \in small(m - 1)
          BY <3>3, <4>2
        <5> HIDE DEF c, small
        <5>4. g[s \ {c}] \in Nat /\ h[s \ {c}] = g[s \ {c}]
          BY <3>2, <3>5, <5>3
        <5>5. h[s] = values[c] + g[s \ {c}]
          BY <4>2 DEF Step, c
        <5>6. Step(values, h, s) = values[c] + h[s \ {c}]
          BY <4>2 DEF Step, c
        <5> QED
          BY <5>2, <5>4, <5>5, <5>6
      <4> QED
        BY <4>1, <4>2
    <3>7. done(h, m)
      <4> HIDE DEF small
      <4>1. h \in [small(m) -> Nat]
        BY <3>6
      <4> QED
        BY <3>6, <4>1
    <3> QED
      BY <2>1, <3>7
  <2> QED
    BY <2>2, <2>3
<1>3. PICK g : done(g, Cardinality(D))
  BY <1>1, <1>2
<1>4. small(Cardinality(D)) = SUBSET D
  BY FS_Subset DEF AreNumbers
<1> QED
  BY <1>3, <1>4 DEF Partial

\* The sum is the last of the partial sums.
LEMMA SumIsPartial ==
  ASSUME NEW values, AreNumbers(values)
  PROVE  \E g : Partial(values, g) /\ SumOf(values) = g[DOMAIN values]
PROOF
<1> DEFINE D     == DOMAIN values
           eq(g) == g = [s \in SUBSET D |->
                           IF s = {} THEN 0
                           ELSE values[CHOOSE x \in s : TRUE] + g[s \ {CHOOSE x \in s : TRUE}]]
           G     == CHOOSE g : eq(g)
<1>1. SumOf(values) = G[D]
  BY DEF SumOf, MapThenSumSet, MapThenFoldSet
<1>2. \E g : eq(g)
  <2>1. PICK g : Partial(values, g)
    BY PartialExists
  <2>2. g = [s \in SUBSET D |-> Step(values, g, s)]
    BY <2>1 DEF Partial
  <2>3. eq(g)
    BY <2>2 DEF Step
  <2> QED
    BY <2>3
<1>3. eq(G)
  <2> HIDE DEF eq
  <2> QED
    BY <1>2
<1> HIDE DEF G
<1>4. \A s \in SUBSET D : G[s] = Step(values, G, s)
  BY <1>3 DEF Step
<1>5. \A s \in SUBSET D : G[s] \in Nat
  <2> DEFINE Good == {s \in SUBSET D : G[s] \in Nat}
  <2>1. {} \in Good
    <3>1. {} \in SUBSET D /\ Step(values, G, {}) = 0
      BY DEF Step
    <3>2. G[{}] = 0
      BY <1>4, <3>1
    <3> QED
      BY <3>1, <3>2
  <2>2. ASSUME NEW s \in SUBSET D, s # {}, s \ {CHOOSE x \in s : TRUE} \in Good
        PROVE  s \in Good
    <3> DEFINE c == CHOOSE x \in s : TRUE
    <3>1. c \in s
      BY <2>2
    <3>2. G[s \ {c}] \in Nat
      BY <2>2
    <3>3. G[s] = values[c] + G[s \ {c}]
      BY <1>4, <2>2 DEF Step
    <3> HIDE DEF c
    <3>4. values[c] \in Nat
      BY <3>1 DEF AreNumbers
    <3> QED
      BY <3>2, <3>3, <3>4
  <2> HIDE DEF Good
  <2>3. \A s \in SUBSET D : s \in Good
    <3>1. Good \in SUBSET (SUBSET D)
      BY DEF Good
    <3> QED
      BY <2>1, <2>2, <3>1, OneByOneInduction DEF AreNumbers
  <2> QED
    BY <2>3 DEF Good
<1>6. G \in [SUBSET D -> Nat]
  BY <1>3, <1>5
<1> QED
  BY <1>1, <1>4, <1>6 DEF Partial

\* Smaller numbers have a smaller sum.
LEMMA SumMonotone ==
  ASSUME NEW values, AreNumbers(values), NEW better, AreNumbers(better),
         DOMAIN better = DOMAIN values, \A i \in DOMAIN values : better[i] <= values[i]
  PROVE  /\ SumOf(better) \in Nat /\ SumOf(values) \in Nat
         /\ SumOf(better) <= SumOf(values)
PROOF
<1> DEFINE D == DOMAIN values
<1>1. PICK g : Partial(values, g) /\ SumOf(values) = g[D]
  BY SumIsPartial
<1>2. PICK h : Partial(better, h) /\ SumOf(better) = h[D]
  BY SumIsPartial
<1> DEFINE Good == {s \in SUBSET D : h[s] <= g[s]}
<1>3. {} \in Good
  BY <1>1, <1>2 DEF Partial, Step
<1>4. ASSUME NEW s \in SUBSET D, s # {}, s \ {CHOOSE x \in s : TRUE} \in Good
      PROVE  s \in Good
  <2> DEFINE c == CHOOSE x \in s : TRUE
             r == s \ {c}
  <2>1. c \in s
    BY <1>4
  <2>2. g[s] = values[c] + g[r] /\ h[s] = better[c] + h[r]
    BY <1>1, <1>2, <1>4 DEF Partial, Step
  <2>3. r \in SUBSET D /\ h[r] <= g[r]
    BY <1>4
  <2> HIDE DEF c, r
  <2>4. values[c] \in Nat /\ better[c] \in Nat /\ better[c] <= values[c]
    BY <2>1 DEF AreNumbers
  <2>5. g[r] \in Nat /\ h[r] \in Nat
    BY <1>1, <1>2, <2>3 DEF Partial
  <2> QED
    BY <2>2, <2>3, <2>4, <2>5
<1> HIDE DEF Good
<1>5. D \in Good
  <2>1. Good \in SUBSET (SUBSET D)
    BY DEF Good
  <2>2. \A s \in SUBSET D : s \in Good
    BY <1>3, <1>4, <2>1, OneByOneInduction DEF AreNumbers
  <2> QED
    BY <2>2
<1> QED
  BY <1>1, <1>2, <1>5 DEF Good, Partial

\* The sizes of the parts of a finite set sum up to its size.
LEMMA PartsSumUp ==
  ASSUME NEW I, IsFiniteSet(I), NEW key, NEW K, IsFiniteSet(K),
         \A i \in I : key[i] \in K,
         NEW parts, DOMAIN parts = K,
         \A k \in K : parts[k] = Cardinality({i \in I : key[i] = k})
  PROVE  SumOf(parts) = Cardinality(I)
PROOF
<1> DEFINE of(s) == {i \in I : key[i] \in s}
<1>1. \A s : IsFiniteSet(of(s)) /\ Cardinality(of(s)) \in Nat
  BY FS_Subset, FS_CardinalityType
<1>2. \A k \in K : {i \in I : key[i] = k} = of({k})
  OBVIOUS
<1>3. AreNumbers(parts)
  <2> HIDE DEF of
  <2>1. \A k \in K : parts[k] = Cardinality(of({k}))
    BY <1>2
  <2> QED
    BY <1>1, <2>1 DEF AreNumbers
<1>4. PICK g : Partial(parts, g) /\ SumOf(parts) = g[K]
  BY <1>3, SumIsPartial
<1> DEFINE Good == {s \in SUBSET K : g[s] = Cardinality(of(s))}
<1>5. {} \in Good
  <2>1. of({}) = {}
    OBVIOUS
  <2>2. g[{}] = 0
    BY <1>4 DEF Partial, Step
  <2> HIDE DEF of
  <2> QED
    BY <2>1, <2>2, FS_EmptySet
<1>6. ASSUME NEW s \in SUBSET K, s # {}, s \ {CHOOSE x \in s : TRUE} \in Good
      PROVE  s \in Good
  <2> DEFINE c == CHOOSE x \in s : TRUE
             r == s \ {c}
  <2>1. c \in s
    BY <1>6
  <2>2. g[s] = parts[c] + g[r]
    BY <1>4, <1>6 DEF Partial, Step
  <2>3. g[r] = Cardinality(of(r))
    BY <1>6
  <2> HIDE DEF c
  <2>4. parts[c] = Cardinality(of({c}))
    BY <1>2, <2>1
  <2>5. of(s) = of({c}) \cup of(r) /\ of({c}) \cap of(r) = {}
    BY <2>1
  <2> HIDE DEF of, r
  <2>6. Cardinality(of(s)) = Cardinality(of({c})) + Cardinality(of(r)) - Cardinality({})
    <3>1. IsFiniteSet(of({c})) /\ IsFiniteSet(of(r))
      BY <1>1
    <3>2. Cardinality(of({c}) \cup of(r))
            = Cardinality(of({c})) + Cardinality(of(r)) - Cardinality(of({c}) \cap of(r))
      BY <3>1, FS_Union
    <3> QED
      BY <2>5, <3>2
  <2>7. Cardinality({}) = 0
    BY FS_EmptySet
  <2> QED
    BY <1>1, <2>2, <2>3, <2>4, <2>6, <2>7
<1> HIDE DEF Good
<1>7. K \in Good
  <2>1. Good \in SUBSET (SUBSET K)
    BY DEF Good
  <2>2. \A s \in SUBSET K : s \in Good
    BY <1>5, <1>6, <2>1, OneByOneInduction
  <2> QED
    BY <2>2
<1>8. of(K) = I
  OBVIOUS
<1> QED
  BY <1>4, <1>7, <1>8 DEF Good

-----------------------------------------------------------------------------
\* Summaries.

LEMMA LatenciesAreNumbers ==
  ASSUME NEW results, IsResults(results)
  PROVE  /\ AreNumbers(Latencies(results))
         /\ DOMAIN Latencies(results) = DOMAIN results
         /\ Count(Latencies(results)) = Count(results)
         /\ \A i \in DOMAIN results : Latencies(results)[i] = results[i].latency
BY DEF IsResults, AreNumbers, Latencies, Count

\* The figures of a summary are those of the latencies.
LEMMA SummaryFigures ==
  ASSUME NEW results
  PROVE  /\ Summary(results).attempts = Count(results)
         /\ Summary(results).total = SumOf(Latencies(results))
         /\ Summary(results).p50 = Percentile(Latencies(results), 50)
         /\ Summary(results).p95 = Percentile(Latencies(results), 95)
         /\ Summary(results).p99 = Percentile(Latencies(results), 99)
BY DEF Summary

LEMMA SummaryFailed ==
  ASSUME NEW results
  PROVE  Summary(results).failed = Cardinality({i \in DOMAIN results : ~results[i].ok})
BY DEF Summary

\* They are numbers.
LEMMA SummaryNumbers ==
  ASSUME NEW results, IsResults(results)
  PROVE  /\ Summary(results).attempts \in Nat
         /\ Summary(results).failed \in Nat
         /\ Summary(results).total \in Nat
         /\ Summary(results).p50 \in Nat
         /\ Summary(results).p95 \in Nat
         /\ Summary(results).p99 \in Nat
PROOF
<1> DEFINE values == Latencies(results)
           D      == DOMAIN results
           failed == {i \in D : ~results[i].ok}
<1>1. IsFiniteSet(D) /\ Cardinality(D) \in Nat
  BY FS_CardinalityType DEF IsResults
<1>2. Cardinality(failed) \in Nat
  <2>1. failed \subseteq D
    OBVIOUS
  <2> HIDE DEF failed
  <2> QED
    BY <1>1, <2>1, FS_Subset, FS_CardinalityType
<1>3. AreNumbers(values)
  BY LatenciesAreNumbers
<1>4. SumOf(values) \in Nat
  <2> HIDE DEF values
  <2>1. PICK g : Partial(values, g) /\ SumOf(values) = g[DOMAIN values]
    BY <1>3, SumIsPartial
  <2>2. DOMAIN values \in SUBSET DOMAIN values
    OBVIOUS
  <2> QED
    BY <2>1, <2>2 DEF Partial
<1>5. \A p \in Shares : Percentile(values, p) \in Nat
  <2> TAKE p \in Shares
  <2>1. CASE DOMAIN values = {}
    BY <2>1 DEF Percentile
  <2>2. CASE DOMAIN values # {}
    BY <1>3, <2>2, PercentileHasItsShare
  <2> QED
    BY <2>1, <2>2
<1> HIDE DEF failed
<1>6. /\ Summary(results).attempts = Cardinality(D)
      /\ Summary(results).failed = Cardinality(failed)
      /\ Summary(results).total = SumOf(values)
      /\ Summary(results).p50 = Percentile(values, 50)
      /\ Summary(results).p95 = Percentile(values, 95)
      /\ Summary(results).p99 = Percentile(values, 99)
  BY SummaryFigures, SummaryFailed DEF Count, failed
<1> HIDE DEF values
<1> QED
  BY <1>1, <1>2, <1>4, <1>5, <1>6 DEF Shares

\* The percentiles lie between the least and the greatest latency, in their order.
LEMMA SummaryIsOrdered ==
  ASSUME NEW results, IsResults(results)
  PROVE  LET s == Summary(results) IN
         s.min <= s.p50 /\ s.p50 <= s.p95 /\ s.p95 <= s.p99 /\ s.p99 <= s.max
PROOF
<1> DEFINE values == Latencies(results)
           all    == {values[j] : j \in DOMAIN values}
           s      == Summary(results)
<1>1. AreNumbers(values) /\ DOMAIN values = DOMAIN results
  BY LatenciesAreNumbers
<1>2. /\ s.p50 = Percentile(values, 50)
      /\ s.p95 = Percentile(values, 95)
      /\ s.p99 = Percentile(values, 99)
  BY SummaryFigures
<1>3. s.p50 <= s.p95 /\ s.p95 <= s.p99
  BY <1>1, <1>2, PercentilesAscend
<1>4. CASE DOMAIN results = {}
  <2>1. s.min = 0 /\ s.max = 0
    BY <1>4 DEF Summary
  <2>2. s.p50 = 0 /\ s.p95 = 0 /\ s.p99 = 0
    BY <1>1, <1>2, <1>4 DEF Percentile
  <2> QED
    BY <2>1, <2>2
<1>5. CASE DOMAIN results # {}
  <2>1. s.min = Min(all) /\ s.max = Max(all)
    BY <1>5 DEF Summary
  <2>2. PICK i \in DOMAIN values : s.p50 = values[i]
    BY <1>1, <1>2, <1>5, PercentileHasItsShare DEF Shares
  <2>3. PICK j \in DOMAIN values : s.p99 = values[j]
    BY <1>1, <1>2, <1>5, PercentileHasItsShare DEF Shares
  <2>4. Min(all) <= values[i]
    BY <1>1, <1>5, Extremes
  <2>5. values[j] <= Max(all)
    BY <1>1, <1>5, Extremes
  <2> QED
    BY <1>3, <2>1, <2>2, <2>3, <2>4, <2>5
<1> QED
  BY <1>4, <1>5

\* Each percentile has its share.
LEMMA SummaryHasItsShares ==
  ASSUME NEW results, IsResults(results), DOMAIN results # {},
         NEW p \in Shares, NEW v, v = Percentile(Latencies(results), p)
  PROVE  /\ 100 * Cardinality({i \in DOMAIN results : results[i].latency <= v})
              >= p * Summary(results).attempts
         /\ 100 * Cardinality({i \in DOMAIN results : results[i].latency < v})
              < p * Summary(results).attempts
PROOF
<1> DEFINE values == Latencies(results)
<1>1. /\ AreNumbers(values) /\ DOMAIN values = DOMAIN results
      /\ \A i \in DOMAIN results : values[i] = results[i].latency
      /\ Count(values) = Count(results)
  BY LatenciesAreNumbers
<1>2. /\ {i \in DOMAIN results : results[i].latency <= v} = UpTo(values, v)
      /\ {i \in DOMAIN results : results[i].latency < v} = Below(values, v)
  BY <1>1 DEF UpTo, Below
<1>3. Summary(results).attempts = Count(values)
  BY <1>1, SummaryFigures
<1> HIDE DEF values
<1>4. /\ 100 * Cardinality(UpTo(values, v)) >= p * Count(values)
      /\ 100 * Cardinality(Below(values, v)) < p * Count(values)
  BY <1>1, PercentileHasItsShare DEF values
<1> QED
  BY <1>2, <1>3, <1>4

\* The results of an operation are results, and there are some.
LEMMA OfOperationAreResults ==
  ASSUME NEW results, IsResults(results), NEW o
  PROVE  /\ IsResults(OfOperation(results, o))
         /\ DOMAIN OfOperation(results, o) = {i \in DOMAIN results : results[i].operation = o}
         /\ \A i \in DOMAIN OfOperation(results, o) : OfOperation(results, o)[i] = results[i]
PROOF
<1>1. {i \in DOMAIN results : results[i].operation = o} \subseteq DOMAIN results
  OBVIOUS
<1> QED
  BY <1>1, FS_Subset DEF IsResults, OfOperation

\* There are finitely many operations.
LEMMA FinitelyManyKeys ==
  ASSUME NEW I, IsFiniteSet(I), NEW results
  PROVE  IsFiniteSet({results[i].operation : i \in I})
PROOF
<1> DEFINE K == {results[i].operation : i \in I}
           f == [i \in I |-> results[i].operation]
<1>1. f \in Surjection(I, K)
  BY DEF Surjection
<1> QED
  BY <1>1, FS_Surjection

\* The parts of a report sum up to the whole.
LEMMA PartsOfReportSumUp ==
  ASSUME NEW results, IsResults(results)
  PROVE  LET s   == Summary(results)
             ops == Operations(results)
         IN /\ SumOf([o \in DOMAIN ops |-> ops[o].attempts]) = s.attempts
            /\ SumOf([o \in DOMAIN ops |-> ops[o].failed]) = s.failed
            /\ SumOf(FailureGroups(results)) = s.failed
PROOF
<1> DEFINE D        == DOMAIN results
           F        == {i \in D : ~results[i].ok}
           key      == [i \in D |-> results[i].operation]
           all      == {results[i].operation : i \in D}
           failing  == {results[i].operation : i \in F}
           ops      == Operations(results)
           attempts == [o \in DOMAIN ops |-> ops[o].attempts]
           failed   == [o \in DOMAIN ops |-> ops[o].failed]
           groups   == FailureGroups(results)
<1>1. IsFiniteSet(D) /\ IsFiniteSet(F)
  <2>1. F \subseteq D
    OBVIOUS
  <2> QED
    BY <2>1, FS_Subset DEF IsResults
<1>2. IsFiniteSet(all) /\ IsFiniteSet(failing)
  BY <1>1, FinitelyManyKeys
<1>3. Summary(results).attempts = Cardinality(D) /\ Summary(results).failed = Cardinality(F)
  BY SummaryFigures, SummaryFailed DEF Count
<1>4. DOMAIN ops = all /\ \A o \in all : ops[o] = Summary(OfOperation(results, o))
  BY DEF Operations
<1>5. ASSUME NEW o \in all
      PROVE  /\ attempts[o] = Cardinality({i \in D : key[i] = o})
             /\ failed[o] = Cardinality({i \in F : key[i] = o})
  <2> DEFINE own == OfOperation(results, o)
  <2>1. /\ IsResults(own) /\ DOMAIN own = {i \in D : results[i].operation = o}
        /\ \A i \in DOMAIN own : own[i] = results[i]
    BY OfOperationAreResults
  <2>2. /\ Summary(own).attempts = Cardinality(DOMAIN own)
        /\ Summary(own).failed = Cardinality({i \in DOMAIN own : ~own[i].ok})
    BY SummaryFigures, SummaryFailed DEF Count
  <2>3. attempts[o] = Summary(own).attempts /\ failed[o] = Summary(own).failed
    BY <1>4
  <2>4. /\ {i \in D : key[i] = o} = DOMAIN own
        /\ {i \in F : key[i] = o} = {i \in DOMAIN own : ~own[i].ok}
    BY <2>1
  <2> QED
    BY <2>2, <2>3, <2>4
<1>6. DOMAIN groups = failing
      /\ \A o \in failing : groups[o] = Cardinality({i \in F : key[i] = o})
  <2>1. \A o \in failing :
          {i \in F : key[i] = o} = {i \in D : ~results[i].ok /\ results[i].operation = o}
    OBVIOUS
  <2> QED
    BY <2>1 DEF FailureGroups
<1>7. DOMAIN attempts = all /\ DOMAIN failed = all
  BY <1>4
<1>8. (\A i \in D : key[i] \in all) /\ (\A i \in F : key[i] \in all /\ key[i] \in failing)
  OBVIOUS
<1> HIDE DEF D, F, key, all, failing, attempts, failed, groups
<1>9. SumOf(attempts) = Cardinality(D)
  <2>1. \A o \in all : attempts[o] = Cardinality({i \in D : key[i] = o})
    BY <1>5
  <2> QED
    BY <1>1, <1>2, <1>7, <1>8, <2>1, PartsSumUp
<1>10. SumOf(failed) = Cardinality(F)
  <2>1. \A o \in all : failed[o] = Cardinality({i \in F : key[i] = o})
    BY <1>5
  <2> QED
    BY <1>1, <1>2, <1>7, <1>8, <2>1, PartsSumUp
<1>11. SumOf(groups) = Cardinality(F)
  BY <1>1, <1>2, <1>6, <1>8, PartsSumUp
<1> QED
  BY <1>3, <1>9, <1>10, <1>11 DEF attempts, failed, groups

-----------------------------------------------------------------------------
\* Better results: of the same requests, each at least as fast, and none fails that did not.
AreBetter(better, results) ==
  /\ IsResults(better) /\ IsResults(results)
  /\ DOMAIN better = DOMAIN results
  /\ \A i \in DOMAIN results :
       /\ better[i].operation = results[i].operation
       /\ better[i].latency <= results[i].latency
       /\ results[i].ok => better[i].ok

LEMMA TimesMonotone ==
  ASSUME NEW a \in Nat, NEW b \in Nat, a <= b, NEW c \in Nat
  PROVE  a * c <= b * c /\ a * c \in Nat /\ b * c \in Nat
PROOF
<1> DEFINE d == b - a
<1>1. d \in Nat /\ b = a + d
  OBVIOUS
<1> HIDE DEF d
<1>2. b * c = a * c + d * c
  BY <1>1
<1>3. a * c \in Nat /\ d * c \in Nat
  BY <1>1
<1> QED
  BY <1>2, <1>3

\* Their summary is of as many requests, and no figure is worse.
LEMMA BetterSummary ==
  ASSUME NEW better, NEW results, AreBetter(better, results)
  PROVE  LET b == Summary(better)
             s == Summary(results)
         IN /\ b.attempts = s.attempts
            /\ b.failed <= s.failed
            /\ b.total <= s.total
            /\ b.p95 <= s.p95
            /\ b.p99 <= s.p99
PROOF
<1> DEFINE new == Latencies(better)
           old == Latencies(results)
           bad(r) == {i \in DOMAIN r : ~r[i].ok}
<1>0. IsResults(better) /\ IsResults(results) /\ DOMAIN better = DOMAIN results
  BY DEF AreBetter
<1>1. /\ AreNumbers(new) /\ AreNumbers(old) /\ DOMAIN new = DOMAIN old
      /\ \A i \in DOMAIN old : new[i] <= old[i]
  <2>1. AreNumbers(new) /\ AreNumbers(old)
        /\ DOMAIN new = DOMAIN better /\ DOMAIN old = DOMAIN results
        /\ (\A i \in DOMAIN better : new[i] = better[i].latency)
        /\ (\A i \in DOMAIN results : old[i] = results[i].latency)
    BY <1>0, LatenciesAreNumbers
  <2> HIDE DEF new, old
  <2> QED
    BY <1>0, <2>1 DEF AreBetter
<1>2. Cardinality(bad(better)) <= Cardinality(bad(results))
  <2>1. bad(better) \subseteq bad(results) /\ bad(results) \subseteq DOMAIN results
    BY <1>0 DEF AreBetter
  <2> HIDE DEF bad
  <2> QED
    BY <1>0, <2>1, FS_Subset DEF IsResults
<1>3. SumOf(new) <= SumOf(old)
  BY <1>1, SumMonotone
<1>4. Percentile(new, 95) <= Percentile(old, 95) /\ Percentile(new, 99) <= Percentile(old, 99)
  BY <1>1, PercentileMonotone DEF Shares
<1>5. /\ Summary(better).attempts = Count(better)
      /\ Summary(better).failed = Cardinality(bad(better))
      /\ Summary(better).total = SumOf(new)
      /\ Summary(better).p95 = Percentile(new, 95)
      /\ Summary(better).p99 = Percentile(new, 99)
  <2>1. /\ Summary(better).attempts = Count(better)
        /\ Summary(better).failed = Cardinality({i \in DOMAIN better : ~better[i].ok})
        /\ Summary(better).total = SumOf(Latencies(better))
        /\ Summary(better).p95 = Percentile(Latencies(better), 95)
        /\ Summary(better).p99 = Percentile(Latencies(better), 99)
    BY SummaryFigures, SummaryFailed
  <2> QED
    BY <2>1, Zenon
<1>6. /\ Summary(results).attempts = Count(results)
      /\ Summary(results).failed = Cardinality(bad(results))
      /\ Summary(results).total = SumOf(old)
      /\ Summary(results).p95 = Percentile(old, 95)
      /\ Summary(results).p99 = Percentile(old, 99)
  <2>1. /\ Summary(results).attempts = Count(results)
        /\ Summary(results).failed = Cardinality({i \in DOMAIN results : ~results[i].ok})
        /\ Summary(results).total = SumOf(Latencies(results))
        /\ Summary(results).p95 = Percentile(Latencies(results), 95)
        /\ Summary(results).p99 = Percentile(Latencies(results), 99)
    BY SummaryFigures, SummaryFailed
  <2> QED
    BY <2>1, Zenon
<1>7. Count(better) = Count(results)
  BY <1>0 DEF Count
<1> QED
  BY <1>2, <1>3, <1>4, <1>5, <1>6, <1>7

\* Their rate of errors has the same denominator.
LEMMA BetterErrorRate ==
  ASSUME NEW better, NEW results, AreBetter(better, results)
  PROVE  /\ ErrorRate(better)[1] \in Nat /\ ErrorRate(results)[1] \in Nat
         /\ ErrorRate(better)[1] <= ErrorRate(results)[1]
         /\ ErrorRate(results)[2] \in Nat /\ ErrorRate(better)[2] = ErrorRate(results)[2]
PROOF
<1>1. /\ Summary(better).attempts = Summary(results).attempts
      /\ Summary(better).failed <= Summary(results).failed
  BY BetterSummary
<1>2. /\ Summary(better).failed \in Nat /\ Summary(results).failed \in Nat
      /\ Summary(results).attempts \in Nat
  BY SummaryNumbers DEF AreBetter
<1> QED
  BY <1>1, <1>2 DEF ErrorRate

\* The artifact of better results passes.
LEMMA BetterArtifact ==
  ASSUME NEW better, NEW results, AreBetter(better, results), NEW percent \in {0, 5, 50},
         ArtifactPasses(results, percent)
  PROVE  ArtifactPasses(better, percent)
PROOF
<1>1. /\ ErrorRate(better)[1] \in Nat /\ ErrorRate(results)[1] \in Nat
      /\ ErrorRate(better)[1] <= ErrorRate(results)[1]
      /\ ErrorRate(results)[2] \in Nat /\ ErrorRate(better)[2] = ErrorRate(results)[2]
  BY BetterErrorRate
<1>2. RateAtMost(ErrorRate(better), percent)
  <2>1. 100 * ErrorRate(results)[1] <= percent * ErrorRate(results)[2]
    BY DEF ArtifactPasses, RateAtMost
  <2>2. percent * ErrorRate(results)[2] \in Nat
    BY <1>1
  <2>3. 100 * ErrorRate(better)[1] <= 100 * ErrorRate(results)[1]
    BY <1>1
  <2>4. 100 * ErrorRate(better)[1] <= percent * ErrorRate(results)[2]
    BY <1>1, <2>1, <2>2, <2>3
  <2> QED
    BY <1>1, <2>4 DEF RateAtMost
<1>3. /\ Summary(better).p95 <= Summary(results).p95
      /\ Summary(better).p99 <= Summary(results).p99
  BY BetterSummary
<1>4. /\ Summary(better).p95 \in Nat /\ Summary(results).p95 \in Nat
      /\ Summary(better).p99 \in Nat /\ Summary(results).p99 \in Nat
  BY SummaryNumbers DEF AreBetter
<1>5. /\ Summary(results).p95 <= SmokeThresholds.p95
      /\ Summary(results).p99 <= SmokeThresholds.p99
  BY DEF ArtifactPasses
<1>6. SmokeThresholds.p95 \in Nat /\ SmokeThresholds.p99 \in Nat
  BY DEF SmokeThresholds
<1>7. /\ Summary(better).p95 <= SmokeThresholds.p95
      /\ Summary(better).p99 <= SmokeThresholds.p99
  BY <1>3, <1>4, <1>5, <1>6
<1> QED
  BY <1>2, <1>7 DEF ArtifactPasses

\* The error rate of better results has not risen either.
LEMMA BetterHasNoMoreErrors ==
  ASSUME NEW better, NEW results, AreBetter(better, results), NEW baseline,
         IsResults(baseline), NoMoreErrors(baseline, results)
  PROVE  NoMoreErrors(baseline, better)
PROOF
<1> DEFINE b == ErrorRate(baseline)
           c == ErrorRate(results)
           d == ErrorRate(better)
<1>1. d[1] \in Nat /\ c[1] \in Nat /\ d[1] <= c[1] /\ c[2] \in Nat /\ d[2] = c[2]
  BY BetterErrorRate
<1>2. b[1] \in Nat /\ b[2] \in Nat
  BY SummaryNumbers DEF ErrorRate
<1>3. 100 * (c[1] * b[2] - b[1] * c[2]) <= Tolerances.errorPercent * b[2] * c[2]
  BY DEF NoMoreErrors
<1>4. Tolerances.errorPercent \in Nat
  BY DEF Tolerances
<1> HIDE DEF b, c, d
<1> DEFINE limit == Tolerances.errorPercent * b[2] * c[2]
           x == c[1] * b[2]
           y == d[1] * b[2]
           z == b[1] * c[2]
<1>5. y <= x /\ x \in Nat /\ y \in Nat /\ z \in Nat /\ limit \in Nat
  <2>1. y <= x /\ x \in Nat /\ y \in Nat
    BY <1>1, <1>2, TimesMonotone
  <2>2. z \in Nat
    BY <1>1, <1>2
  <2>3. Tolerances.errorPercent * b[2] \in Nat
    BY <1>2, <1>4
  <2>4. limit \in Nat
    BY <1>1, <2>3
  <2> QED
    BY <2>1, <2>2, <2>4
<1>6. 100 * (x - z) <= limit
  BY <1>3
<1> HIDE DEF x, y, z, limit
<1>7. 100 * (y - z) <= limit
  BY <1>5, <1>6
<1>8. 100 * (d[1] * b[2] - b[1] * d[2]) <= Tolerances.errorPercent * b[2] * d[2]
  BY <1>1, <1>7 DEF y, z, limit
<1> QED
  BY <1>8 DEF NoMoreErrors, b, d

\* The results of one operation are better as well, and the operations are the same.
LEMMA BetterOperations ==
  ASSUME NEW better, NEW results, AreBetter(better, results)
  PROVE  /\ DOMAIN Operations(better) = DOMAIN Operations(results)
         /\ \A o \in DOMAIN Operations(results) :
              /\ Operations(results)[o].total \in Nat
              /\ Operations(better)[o].total \in Nat
              /\ Operations(results)[o].attempts \in Nat
              /\ Operations(better)[o].attempts = Operations(results)[o].attempts
              /\ Operations(better)[o].total <= Operations(results)[o].total
PROOF
<1>0. IsResults(better) /\ IsResults(results)
  BY DEF AreBetter
<1>1. {better[i].operation : i \in DOMAIN better} = {results[i].operation : i \in DOMAIN results}
  BY DEF AreBetter
<1>2. DOMAIN Operations(better) = DOMAIN Operations(results)
  BY <1>1 DEF Operations
<1>3. ASSUME NEW o \in DOMAIN Operations(results)
      PROVE  /\ Operations(results)[o].total \in Nat
             /\ Operations(better)[o].total \in Nat
             /\ Operations(results)[o].attempts \in Nat
             /\ Operations(better)[o].attempts = Operations(results)[o].attempts
             /\ Operations(better)[o].total <= Operations(results)[o].total
  <2> DEFINE old == OfOperation(results, o)
             new == OfOperation(better, o)
  <2>1. Operations(results)[o] = Summary(old) /\ Operations(better)[o] = Summary(new)
    BY <1>1 DEF Operations
  <2>2. old = OfOperation(results, o) /\ new = OfOperation(better, o)
    OBVIOUS
  <2> HIDE DEF old, new
  <2>3. /\ IsResults(old) /\ DOMAIN old = {i \in DOMAIN results : results[i].operation = o}
        /\ \A i \in DOMAIN old : old[i] = results[i]
    <3>1. /\ IsResults(OfOperation(results, o))
          /\ DOMAIN OfOperation(results, o) = {i \in DOMAIN results : results[i].operation = o}
          /\ \A i \in DOMAIN OfOperation(results, o) : OfOperation(results, o)[i] = results[i]
      BY <1>0, OfOperationAreResults, Zenon
    <3> QED
      BY <2>2, <3>1, Zenon
  <2>4. /\ IsResults(new) /\ DOMAIN new = {i \in DOMAIN better : better[i].operation = o}
        /\ \A i \in DOMAIN new : new[i] = better[i]
    <3>1. /\ IsResults(OfOperation(better, o))
          /\ DOMAIN OfOperation(better, o) = {i \in DOMAIN better : better[i].operation = o}
          /\ \A i \in DOMAIN OfOperation(better, o) : OfOperation(better, o)[i] = better[i]
      BY <1>0, OfOperationAreResults, Zenon
    <3> QED
      BY <2>2, <3>1, Zenon
  <2>5. DOMAIN new = DOMAIN old
    BY <2>3, <2>4 DEF AreBetter
  <2>6. AreBetter(new, old)
    BY <2>3, <2>4, <2>5 DEF AreBetter
  <2>7. /\ Summary(new).attempts = Summary(old).attempts
        /\ Summary(new).total <= Summary(old).total
    BY <2>6, BetterSummary
  <2>8. /\ Summary(old).total \in Nat /\ Summary(new).total \in Nat
        /\ Summary(old).attempts \in Nat
    BY <2>3, <2>4, SummaryNumbers
  <2> QED
    BY <2>1, <2>7, <2>8
<1> QED
  BY <1>2, <1>3

\* Better results have improved as well.
LEMMA BetterHasImproved ==
  ASSUME NEW better, NEW results, AreBetter(better, results), NEW baseline,
         IsResults(baseline), Improved(baseline, results)
  PROVE  Improved(baseline, better)
PROOF
<1> DEFINE before == Operations(baseline)
           after  == Operations(results)
           new    == Operations(better)
<1>1. /\ DOMAIN new = DOMAIN after
      /\ \A o \in DOMAIN after :
           /\ after[o].total \in Nat /\ new[o].total \in Nat
           /\ after[o].attempts \in Nat
           /\ new[o].attempts = after[o].attempts
           /\ new[o].total <= after[o].total
  BY BetterOperations
<1>2. \A o \in DOMAIN before : before[o].total \in Nat /\ before[o].attempts \in Nat
  <2>1. AreBetter(baseline, baseline)
    BY DEF AreBetter, IsResults
  <2> QED
    BY <2>1, BetterOperations
<1>3. \A o \in DOMAIN after :
        /\ o \in DOMAIN before
        /\ before[o].total > 0
        /\ 100 * after[o].total * before[o].attempts
             <= (100 - RequiredReductionPercent) * before[o].total * after[o].attempts
  BY DEF Improved
<1> HIDE DEF before, after, new
<1>4. ASSUME NEW o \in DOMAIN new
      PROVE  /\ o \in DOMAIN before
             /\ before[o].total > 0
             /\ 100 * new[o].total * before[o].attempts
                  <= (100 - RequiredReductionPercent) * before[o].total * new[o].attempts
  <2>1. /\ after[o].total \in Nat /\ new[o].total \in Nat
        /\ after[o].attempts \in Nat
        /\ new[o].attempts = after[o].attempts
        /\ new[o].total <= after[o].total
        /\ o \in DOMAIN before
        /\ before[o].total > 0
        /\ 100 * after[o].total * before[o].attempts
             <= (100 - RequiredReductionPercent) * before[o].total * after[o].attempts
    BY <1>1, <1>3
  <2>2. before[o].total \in Nat /\ before[o].attempts \in Nat
    BY <1>2, <2>1
  <2> DEFINE limit == (100 - RequiredReductionPercent) * before[o].total * after[o].attempts
             x == 100 * after[o].total
             y == 100 * new[o].total
  <2>3. x \in Nat /\ y \in Nat /\ y <= x
    BY <2>1
  <2>4. limit \in Nat
    <3>1. (100 - RequiredReductionPercent) * before[o].total \in Nat
      BY <2>2 DEF RequiredReductionPercent
    <3> QED
      BY <2>1, <3>1
  <2>5. x * before[o].attempts <= limit
    BY <2>1
  <2> HIDE DEF x, y, limit
  <2>6. y * before[o].attempts <= x * before[o].attempts
        /\ y * before[o].attempts \in Nat /\ x * before[o].attempts \in Nat
    BY <2>2, <2>3, TimesMonotone
  <2>7. y * before[o].attempts <= limit
    BY <2>4, <2>5, <2>6
  <2> QED
    BY <2>1, <2>7 DEF y, limit
<1> QED
  BY <1>4 DEF Improved, before, new

\* Better results pass the comparison with the same baseline.
LEMMA BetterComparison ==
  ASSUME NEW better, NEW results, AreBetter(better, results), NEW baseline,
         IsResults(baseline), ComparisonPasses(baseline, results)
  PROVE  ComparisonPasses(baseline, better)
PROOF
<1>1. NoMoreErrors(baseline, better)
  BY BetterHasNoMoreErrors DEF ComparisonPasses
<1>2. Improved(baseline, better)
  BY BetterHasImproved DEF ComparisonPasses
<1>3. /\ Summary(better).p95 <= Summary(results).p95
      /\ Summary(better).p99 <= Summary(results).p99
  BY BetterSummary
<1>4. /\ Summary(better).p95 \in Nat /\ Summary(results).p95 \in Nat
      /\ Summary(better).p99 \in Nat /\ Summary(results).p99 \in Nat
      /\ Summary(baseline).p95 \in Nat /\ Summary(baseline).p99 \in Nat
  BY SummaryNumbers DEF AreBetter
<1>5. /\ Summary(results).p95 - Summary(baseline).p95 <= Tolerances.p95
      /\ Summary(results).p99 - Summary(baseline).p99 <= Tolerances.p99
  BY DEF ComparisonPasses
<1>6. Tolerances.p95 \in Nat /\ Tolerances.p99 \in Nat
  BY DEF Tolerances
<1>7. /\ Summary(better).p95 - Summary(baseline).p95 <= Tolerances.p95
      /\ Summary(better).p99 - Summary(baseline).p99 <= Tolerances.p99
  BY <1>3, <1>4, <1>5, <1>6
<1> QED
  BY <1>1, <1>2, <1>7 DEF ComparisonPasses

-----------------------------------------------------------------------------
\* What a report is about does not change.
SampleInv == topic = "report" => sample \in Samples

LEMMA InitHasSample == Init => SampleInv
PROOF
<1> SUFFICES ASSUME Init, topic = "report"
             PROVE  sample \in Samples
  BY DEF SampleInv
<1>1. sample \in IF topic = "report" THEN Samples ELSE {None}
  BY DEF Init
<1> QED
  BY <1>1

LEMMA NextKeepsSample == SampleInv /\ [Next]_vars => SampleInv'
PROOF
<1> SUFFICES ASSUME SampleInv, [Next]_vars
             PROVE  SampleInv'
  OBVIOUS
<1>1. UNCHANGED <<topic, sample>>
  BY DEF Next, Send, Receive, Refused, ProbeEnds, ProbeThrows, StrangerSends, ServerNext,
         vars, runVars
<1> QED
  BY <1>1 DEF SampleInv

LEMMA ReportAddsUp == SampleInv => SummaryAddsUp
PROOF
<1> SUFFICES ASSUME SampleInv, topic = "report"
             PROVE  SummaryAddsUp
  BY DEF SummaryAddsUp
<1> DEFINE results == sample.results
           s       == Summary(results)
           ops     == Operations(results)
           value(p) == CASE p = 50 -> s.p50 [] p = 95 -> s.p95 [] p = 99 -> s.p99
           atMost(v) == Cardinality({i \in DOMAIN results : results[i].latency <= v})
           below(v)  == Cardinality({i \in DOMAIN results : results[i].latency < v})
<1>1. IsResults(results)
  BY SamplesAssumption DEF SampleInv
<1>2. s.min <= s.p50 /\ s.p50 <= s.p95 /\ s.p95 <= s.p99 /\ s.p99 <= s.max
  BY <1>1, SummaryIsOrdered
<1>3. ASSUME DOMAIN results # {}, NEW p \in {50, 95, 99}
      PROVE  /\ 100 * atMost(value(p)) >= p * s.attempts
             /\ 100 * below(value(p)) < p * s.attempts
  <2>1. value(p) = Percentile(Latencies(results), p)
    <3>1. /\ s.p50 = Percentile(Latencies(results), 50)
          /\ s.p95 = Percentile(Latencies(results), 95)
          /\ s.p99 = Percentile(Latencies(results), 99)
      BY SummaryFigures
    <3> HIDE DEF s
    <3>2. value(50) = s.p50 /\ value(95) = s.p95 /\ value(99) = s.p99
      OBVIOUS
    <3> HIDE DEF value
    <3> QED
      BY <3>1, <3>2
  <2>2. p \in Shares
    BY DEF Shares
  <2> HIDE DEF value, results
  <2> QED
    BY <1>1, <1>3, <2>1, <2>2, SummaryHasItsShares
<1>4. /\ SumOf([o \in DOMAIN ops |-> ops[o].attempts]) = s.attempts
      /\ SumOf([o \in DOMAIN ops |-> ops[o].failed]) = s.failed
      /\ SumOf(FailureGroups(results)) = s.failed
  BY <1>1, PartsOfReportSumUp
<1>5. DOMAIN results # {} => \A p \in {50, 95, 99} :
        /\ 100 * atMost(value(p)) >= p * s.attempts
        /\ 100 * below(value(p)) < p * s.attempts
  BY <1>3
<1> QED
  BY <1>2, <1>4, <1>5 DEF SummaryAddsUp

LEMMA ReportIsMonotone == SampleInv => ExitCodeIsMonotone
PROOF
<1> SUFFICES ASSUME SampleInv, topic = "report", NEW percent \in {0, 5, 50},
                    ExitCode(sample.results, percent, sample.baseline, None) = 0
             PROVE  ExitCode(sample.better, percent, sample.baseline, None) = 0
  BY DEF ExitCodeIsMonotone
<1>1. AreBetter(sample.better, sample.results)
      /\ (sample.baseline = None \/ IsResults(sample.baseline))
  BY SamplesAssumption DEF SampleInv, AreBetter
<1>2. /\ ArtifactPasses(sample.results, percent)
      /\ sample.baseline = None \/ ComparisonPasses(sample.baseline, sample.results)
  BY DEF ExitCode
<1>3. ArtifactPasses(sample.better, percent)
  BY <1>1, <1>2, BetterArtifact
<1>4. sample.baseline = None \/ ComparisonPasses(sample.baseline, sample.better)
  BY <1>1, <1>2, BetterComparison
<1> QED
  BY <1>3, <1>4 DEF ExitCode

\* For any number of results, with any latencies and outcomes: percentiles have their
\* share, the operations and the groups of failures sum up to the whole, and better
\* results never turn the exit code from 0 to 1 (reliabilitySummaryUtils.ts 75-213,
\* reliabilityArtifact.ts 68-173, reliabilityHttp.ts 254-278, 641-671).
THEOREM ReportsHold == Spec => []ReportsAreSound
PROOF
<1>1. SampleInv => ReportsAreSound
  BY ReportAddsUp, ReportIsMonotone DEF ReportsAreSound
<1> QED
  BY InitHasSample, NextKeepsSample, <1>1, PTL DEF Spec
=============================================================================
