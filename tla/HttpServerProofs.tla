-------------------------- MODULE HttpServerProofs --------------------------
(***************************************************************************)
(* No two requests ever share a runtime, and no cleanup takes off the      *)
(* transport of another request; nobody gets in but by the rules that the  *)
(* settings ask for; and the pool grows no larger than was needed at once. *)
(* For all numbers of requests, probes and failures, and all settings and  *)
(* requests.                                                               *)
(***************************************************************************)
EXTENDS ReliabilityRun, SequenceTheorems, FiniteSetTheorems, TLAPS

\* A request that has taken a runtime and not given it back.
Holds(request) == request.cleanup \in {"armed", "event", "handler"}

Runtimes == [busy : BOOLEAN, attached : Slots \cup {None}]

\* The fields of a request that its life changes.
Entry(request) == {"at", "status", "open", "runtime", "cleanup"} \subseteq DOMAIN request

\* What a request has when it has a runtime, and that it has none before it is handled.
\* An armed request has an open response: its close event is still to come.
OneByOne(requests, runtimes) ==
  /\ requests = [s \in Slots |-> requests[s]]
  /\ runtimes \in Seq(Runtimes)
  /\ \A s \in Slots :
       /\ Entry(requests[s])
       /\ requests[s].cleanup \in {"none", "armed", "event", "handler", "done"}
       /\ requests[s].cleanup # "none" => requests[s].runtime \in 1 .. Len(runtimes)
       /\ requests[s].at \in {"free", "reading"} => requests[s].cleanup = "none"
       /\ requests[s].at = "reading" \/ requests[s].cleanup = "armed" => requests[s].open

\* A busy runtime has one holder, and the transport on it is that of its holder.
Together(requests, runtimes) ==
  /\ \A s, t \in Slots :
       Holds(requests[s]) /\ Holds(requests[t]) /\ requests[s].runtime = requests[t].runtime
         => s = t
  /\ \A i \in 1 .. Len(runtimes) :
       runtimes[i].busy <=> \E s \in Slots : Holds(requests[s]) /\ requests[s].runtime = i
  /\ \A i \in 1 .. Len(runtimes) : runtimes[i].attached # None =>
       /\ requests[runtimes[i].attached].cleanup = "armed"
       /\ requests[runtimes[i].attached].runtime = i
  /\ \A s \in Slots : requests[s].cleanup = "armed" =>
       runtimes[requests[s].runtime].attached = s

Sound(requests, runtimes) == OneByOne(requests, runtimes) /\ Together(requests, runtimes)

Inv == Sound(slots, pool)

-----------------------------------------------------------------------------
\* Freeing the slot of a request that is over disturbs nothing: it holds no runtime.
LEMMA NowIsSound ==
  ASSUME NEW requests, NEW runtimes, Sound(requests, runtimes), Now(requests),
         pool' = runtimes
  PROVE  Inv'
PROOF
<1> DEFINE kept(s) == IF Over(requests[s]) THEN Free ELSE requests[s]
<1>1. slots' = [s \in Slots |-> kept(s)]
  BY DEF Now
<1>2. \A s \in Slots : Entry(kept(s))
  BY DEF Sound, OneByOne, Entry, Free
<1>3. \A s \in Slots :
        \/ kept(s) = requests[s]
        \/ /\ kept(s) = Free
           /\ ~Holds(requests[s])
           /\ requests[s].cleanup # "armed"
  BY DEF Over, Holds
<1>4. Free.cleanup = "none" /\ Free.at = "free" /\ ~Holds(Free)
  BY DEF Free, Holds
<1>5. OneByOne(slots', runtimes)
  BY <1>1, <1>2, <1>3, <1>4 DEF Sound, OneByOne
<1>6. Together(slots', runtimes)
  <2>1. \A s \in Slots : Holds(kept(s)) => kept(s) = requests[s]
    BY <1>3, <1>4
  <2>2. \A s \in Slots : Holds(requests[s]) \/ requests[s].cleanup = "armed"
                           => kept(s) = requests[s]
    BY <1>3
  <2>3. \A s \in Slots : Holds(slots'[s]) <=> Holds(requests[s])
    BY <1>1, <2>1, <2>2
  <2>4. \A s \in Slots : Holds(requests[s]) => slots'[s] = requests[s]
    BY <1>1, <2>2
  <2>5. \A s \in Slots : slots'[s].cleanup = "armed" <=> requests[s].cleanup = "armed"
    BY <1>1, <1>3, <1>4
  <2>6. \A s \in Slots : requests[s].cleanup = "armed" => slots'[s] = requests[s]
    BY <1>1, <2>2
  <2>7. runtimes \in Seq(Runtimes) /\ Together(requests, runtimes)
    BY DEF Sound, OneByOne
  <2>8. \A i \in 1 .. Len(runtimes) : runtimes[i].attached \in Slots \cup {None}
    <3>1. \A i \in 1 .. Len(runtimes) : runtimes[i] \in Runtimes
      BY <2>7
    <3> QED
      BY <3>1 DEF Runtimes
  <2> QED
    BY <2>3, <2>4, <2>5, <2>6, <2>7, <2>8 DEF Together
<1> QED
  BY <1>5, <1>6 DEF Inv, Sound

-----------------------------------------------------------------------------
\* A step that changes neither the runtime nor the cleanup of a request.
LEMMA QuietIsSound ==
  ASSUME NEW requests, NEW runtimes, Sound(requests, runtimes), NEW s \in Slots, NEW entry,
         Entry(entry),
         entry.cleanup = requests[s].cleanup,
         entry.cleanup # "none" => entry.runtime = requests[s].runtime,
         entry.at \in {"free", "reading"} => entry.cleanup = "none",
         entry.at = "reading" \/ entry.cleanup = "armed" => entry.open
  PROVE  Sound([requests EXCEPT ![s] = entry], runtimes)
PROOF
<1> DEFINE new == [requests EXCEPT ![s] = entry]
<1>1. /\ new = [t \in Slots |-> new[t]]
      /\ new[s] = entry
      /\ \A t \in Slots : t # s => new[t] = requests[t]
  BY DEF Sound, OneByOne
<1>2. \A t \in Slots :
        /\ new[t].cleanup = requests[t].cleanup
        /\ requests[t].cleanup # "none" => new[t].runtime = requests[t].runtime
  BY <1>1
<1> HIDE DEF new
<1>3. OneByOne(new, runtimes)
  BY <1>1, <1>2 DEF Sound, OneByOne
<1>4. \A i \in 1 .. Len(runtimes) : runtimes[i].attached \in Slots \cup {None}
  <2>1. \A i \in 1 .. Len(runtimes) : runtimes[i] \in Runtimes
    BY DEF Sound, OneByOne
  <2> QED
    BY <2>1 DEF Runtimes
<1>5. Together(new, runtimes)
  <2>1. \A t \in Slots :
          /\ Holds(new[t]) <=> Holds(requests[t])
          /\ Holds(requests[t]) \/ requests[t].cleanup = "armed"
               => new[t].runtime = requests[t].runtime
    BY <1>2 DEF Holds
  <2> QED
    BY <1>2, <1>4, <2>1 DEF Sound, Together
<1> QED
  BY <1>3, <1>5 DEF Sound, new

\* The start of a cleanup takes off the transport, which is the request's own.
LEMMA StartIsSound ==
  ASSUME NEW requests, NEW runtimes, Sound(requests, runtimes), NEW s \in Slots, NEW entry,
         Entry(entry),
         requests[s].cleanup = "armed",
         entry.runtime = requests[s].runtime,
         entry.cleanup \in {"event", "handler"},
         entry.at \notin {"free", "reading"}
  PROVE  Sound([requests EXCEPT ![s] = entry], Detached(runtimes, requests[s].runtime))
PROOF
<1> DEFINE new  == [requests EXCEPT ![s] = entry]
           mine == requests[s].runtime
           off  == Detached(runtimes, mine)
<1>1. /\ new = [t \in Slots |-> new[t]]
      /\ new[s] = entry
      /\ \A t \in Slots : t # s => new[t] = requests[t]
  BY DEF Sound, OneByOne
<1>2. \A t \in Slots :
        new[t].runtime = requests[t].runtime /\ (Holds(new[t]) <=> Holds(requests[t]))
  BY <1>1 DEF Holds
<1>3. runtimes \in Seq(Runtimes) /\ mine \in 1 .. Len(runtimes)
  BY DEF Sound, OneByOne
<1>4. \A i \in 1 .. Len(runtimes) : runtimes[i] \in Runtimes
  BY <1>3
<1>5. /\ off \in Seq(Runtimes)
      /\ Len(off) = Len(runtimes)
      /\ off[mine].attached = None
      /\ \A i \in 1 .. Len(runtimes) : i # mine => off[i] = runtimes[i]
      /\ \A i \in 1 .. Len(runtimes) : off[i].busy = runtimes[i].busy
  BY <1>3, <1>4 DEF Detached, Runtimes
<1>6. \A i \in 1 .. Len(runtimes) : runtimes[i].attached \in Slots \cup {None}
  BY <1>4 DEF Runtimes
<1> HIDE DEF new, off
<1>7. OneByOne(new, off)
  BY <1>1, <1>2, <1>5 DEF Sound, OneByOne
<1>8. Together(new, off)
  <2>1. Together(requests, runtimes)
    BY DEF Sound
  <2>2. \A t, u \in Slots :
          Holds(new[t]) /\ Holds(new[u]) /\ new[t].runtime = new[u].runtime => t = u
    BY <1>2, <2>1 DEF Together
  <2>3. \A i \in 1 .. Len(off) :
          off[i].busy <=> \E t \in Slots : Holds(new[t]) /\ new[t].runtime = i
    BY <1>2, <1>5, <2>1 DEF Together
  <2>4. \A i \in 1 .. Len(off) : off[i].attached # None =>
          /\ new[off[i].attached].cleanup = "armed"
          /\ new[off[i].attached].runtime = i
    <3>1. SUFFICES ASSUME NEW i \in 1 .. Len(off), off[i].attached # None
                   PROVE  /\ new[off[i].attached].cleanup = "armed"
                          /\ new[off[i].attached].runtime = i
      OBVIOUS
    <3>2. i # mine /\ off[i] = runtimes[i] /\ i \in 1 .. Len(runtimes)
      BY <1>5, <3>1
    <3>3. /\ off[i].attached \in Slots
          /\ requests[off[i].attached].cleanup = "armed"
          /\ requests[off[i].attached].runtime = i
      BY <1>6, <2>1, <3>1, <3>2 DEF Together
    <3>4. off[i].attached # s
      BY <3>2, <3>3
    <3> QED
      BY <1>1, <3>3, <3>4
  <2>5. \A t \in Slots : new[t].cleanup = "armed" => off[new[t].runtime].attached = t
    <3>1. SUFFICES ASSUME NEW t \in Slots, new[t].cleanup = "armed"
                   PROVE  off[new[t].runtime].attached = t
      OBVIOUS
    <3>2. t # s /\ new[t] = requests[t]
      BY <1>1, <3>1
    <3>3. requests[t].cleanup = "armed" /\ Holds(requests[t]) /\ Holds(requests[s])
      BY <3>1, <3>2 DEF Holds
    <3>4. requests[t].runtime # mine
      BY <2>1, <3>2, <3>3 DEF Together
    <3>5. requests[t].runtime \in 1 .. Len(runtimes)
      BY <3>3 DEF Sound, OneByOne
    <3>6. runtimes[requests[t].runtime].attached = t
      BY <2>1, <3>3 DEF Together
    <3> QED
      BY <1>5, <3>2, <3>4, <3>5, <3>6
  <2> QED
    BY <2>2, <2>3, <2>4, <2>5 DEF Together
<1> QED
  BY <1>7, <1>8 DEF Sound, new, off

\* A runtime of the pool, or one after the last, has another value.
Replaced(more, runtimes, i, busy, attached) ==
  /\ more \in Seq(Runtimes)
  /\ Len(more) \in Nat
  /\ i \in 1 .. Len(more)
  /\ \A j \in 1 .. Len(runtimes) : j \in 1 .. Len(more)
  /\ more[i].busy = busy /\ more[i].attached = attached
  /\ \A j \in 1 .. Len(more) : j # i => more[j] = runtimes[j] /\ j \in 1 .. Len(runtimes)

LEMMA WithRuntimeReplaces ==
  ASSUME NEW runtimes \in Seq(Runtimes), NEW i \in 1 .. Len(runtimes) + 1,
         NEW busy \in BOOLEAN, NEW attached \in Slots \cup {None}
  PROVE  Replaced(WithRuntime(runtimes, i, busy, attached), runtimes, i, busy, attached)
PROOF
<1> DEFINE more == WithRuntime(runtimes, i, busy, attached)
           n    == MaxOf(i, Len(runtimes))
<1>1. /\ n \in Nat
      /\ n = IF i = Len(runtimes) + 1 THEN i ELSE Len(runtimes)
  BY DEF MaxOf
<1>2. more = [j \in 1 .. n |->
                IF j = i THEN [busy |-> busy, attached |-> attached] ELSE runtimes[j]]
  BY DEF WithRuntime
<1> HIDE DEF more, n
<1>3. i \in 1 .. n /\ \A j \in 1 .. n : j # i => j \in 1 .. Len(runtimes)
  BY <1>1
<1>4. \A j \in 1 .. n : more[j] \in Runtimes
  <2>1. [busy |-> busy, attached |-> attached] \in Runtimes
    BY DEF Runtimes
  <2> QED
    BY <1>2, <1>3, <2>1
<1>5. DOMAIN more = 1 .. n /\ more = [j \in 1 .. n |-> more[j]]
  BY <1>2
<1>6. more \in [1 .. n -> Runtimes]
  BY <1>4, <1>5
<1>7. more \in Seq(Runtimes) /\ Len(more) = n
  BY <1>1, <1>5, <1>6
<1>8. \A j \in 1 .. Len(runtimes) : j \in 1 .. n
  BY <1>1
<1> QED
  <2>1. Replaced(more, runtimes, i, busy, attached)
    BY <1>1, <1>2, <1>3, <1>7, <1>8 DEF Replaced
  <2> QED
    BY <2>1 DEF more

\* A request takes an idle runtime, or a new one.
LEMMA TakeIsSound ==
  ASSUME NEW requests, NEW runtimes, Sound(requests, runtimes), NEW s \in Slots, NEW entry,
         NEW i \in 1 .. Len(runtimes) + 1, IsAcquired(i, runtimes),
         ~Holds(requests[s]),
         Entry(entry),
         entry.runtime = i,
         entry.cleanup = "armed",
         entry.open,
         entry.at \notin {"free", "reading"}
  PROVE  Sound([requests EXCEPT ![s] = entry], WithRuntime(runtimes, i, TRUE, s))
PROOF
<1> DEFINE new  == [requests EXCEPT ![s] = entry]
           more == WithRuntime(runtimes, i, TRUE, s)
<1>1. /\ new = [t \in Slots |-> new[t]]
      /\ new[s] = entry
      /\ \A t \in Slots : t # s => new[t] = requests[t]
  BY DEF Sound, OneByOne
<1>2. runtimes \in Seq(Runtimes) /\ Len(runtimes) \in Nat /\ DOMAIN runtimes = 1 .. Len(runtimes)
  BY DEF Sound, OneByOne
<1>3. \A j \in 1 .. Len(runtimes) : runtimes[j] \in Runtimes
  BY <1>2
<1>4. TRUE \in BOOLEAN /\ s \in Slots \cup {None}
  OBVIOUS
<1>5. /\ more \in Seq(Runtimes)
      /\ Len(more) \in Nat
      /\ i \in 1 .. Len(more)
      /\ \A j \in 1 .. Len(runtimes) : j \in 1 .. Len(more)
      /\ more[i].busy = TRUE /\ more[i].attached = s
      /\ \A j \in 1 .. Len(more) : j # i => more[j] = runtimes[j] /\ j \in 1 .. Len(runtimes)
  <2>1. Replaced(more, runtimes, i, TRUE, s)
    BY <1>2, <1>4, WithRuntimeReplaces
  <2> HIDE DEF more
  <2> QED
    BY <2>1 DEF Replaced
<1>6. i \in 1 .. Len(runtimes) => ~runtimes[i].busy
  BY <1>2 DEF IsAcquired, Idle
<1>7. \A t \in Slots : requests[t].cleanup # "none" => requests[t].runtime \in 1 .. Len(runtimes)
  BY DEF Sound, OneByOne
<1>8. Together(requests, runtimes)
  BY DEF Sound
<1>9. \A t \in Slots : Holds(requests[t]) => requests[t].runtime # i
  BY <1>6, <1>7, <1>8 DEF Together, Holds
<1> HIDE DEF new, more
<1>10. Holds(entry)
  BY DEF Holds
<1>11. OneByOne(new, more)
  <2>1. \A t \in Slots :
          /\ Entry(new[t])
          /\ new[t].cleanup \in {"none", "armed", "event", "handler", "done"}
          /\ new[t].at \in {"free", "reading"} => new[t].cleanup = "none"
          /\ new[t].at = "reading" \/ new[t].cleanup = "armed" => new[t].open
    BY <1>1 DEF Sound, OneByOne
  <2>2. \A t \in Slots : new[t].cleanup # "none" => new[t].runtime \in 1 .. Len(more)
    BY <1>1, <1>5, <1>7
  <2> QED
    BY <1>1, <1>5, <2>1, <2>2 DEF OneByOne
<1>12. Together(new, more)
  <2>1. \A t, u \in Slots :
          Holds(new[t]) /\ Holds(new[u]) /\ new[t].runtime = new[u].runtime => t = u
    BY <1>1, <1>8, <1>9 DEF Together
  <2>2. \A j \in 1 .. Len(more) :
          more[j].busy <=> \E t \in Slots : Holds(new[t]) /\ new[t].runtime = j
    <3>1. \A j \in 1 .. Len(more) : j # i =>
              (more[j].busy <=> \E t \in Slots : Holds(requests[t]) /\ requests[t].runtime = j)
        BY <1>5, <1>8 DEF Together
    <3>2. \A j \in 1 .. Len(more) : j # i =>
              ((\E t \in Slots : Holds(requests[t]) /\ requests[t].runtime = j)
                <=> \E t \in Slots : Holds(new[t]) /\ new[t].runtime = j)
        BY <1>1
    <3>3. more[i].busy /\ Holds(new[s]) /\ new[s].runtime = i
        BY <1>1, <1>5, <1>10
    <3> QED
      BY <3>1, <3>2, <3>3
  <2>3. \A j \in 1 .. Len(more) : more[j].attached # None =>
          /\ new[more[j].attached].cleanup = "armed"
          /\ new[more[j].attached].runtime = j
    <3>1. SUFFICES ASSUME NEW j \in 1 .. Len(more), more[j].attached # None
                   PROVE  /\ new[more[j].attached].cleanup = "armed"
                          /\ new[more[j].attached].runtime = j
      OBVIOUS
    <3>2. CASE j = i
      BY <1>1, <1>5, <3>2
    <3>3. CASE j # i
      <4>1. more[j] = runtimes[j] /\ j \in 1 .. Len(runtimes)
        BY <1>5, <3>3
      <4>2. more[j].attached \in Slots
        BY <1>3, <3>1, <4>1 DEF Runtimes
      <4>3. /\ requests[more[j].attached].cleanup = "armed"
            /\ requests[more[j].attached].runtime = j
        BY <1>8, <3>1, <4>1 DEF Together
      <4>4. more[j].attached # s
        BY <4>3 DEF Holds
      <4> QED
        BY <1>1, <4>2, <4>3, <4>4
    <3> QED
      BY <3>2, <3>3
  <2>4. \A t \in Slots : new[t].cleanup = "armed" => more[new[t].runtime].attached = t
    <3>1. SUFFICES ASSUME NEW t \in Slots, new[t].cleanup = "armed"
                   PROVE  more[new[t].runtime].attached = t
      OBVIOUS
    <3>2. CASE t = s
      BY <1>1, <1>5, <3>2
    <3>3. CASE t # s
      <4>1. new[t] = requests[t] /\ Holds(requests[t])
        BY <1>1, <3>1, <3>3 DEF Holds
      <4>2. requests[t].runtime # i /\ requests[t].runtime \in 1 .. Len(runtimes)
        BY <1>7, <1>9, <3>1, <4>1
      <4>3. runtimes[requests[t].runtime].attached = t
        BY <1>8, <3>1, <4>1 DEF Together
      <4> QED
        BY <1>5, <4>1, <4>2, <4>3
    <3> QED
      BY <3>2, <3>3
  <2> QED
    BY <2>1, <2>2, <2>3, <2>4 DEF Together
<1> QED
  BY <1>11, <1>12 DEF Sound, new, more

\* A runtime to which nothing could be connected goes back, or into the pool.
LEMMA UnusedIsSound ==
  ASSUME NEW requests, NEW runtimes, Sound(requests, runtimes),
         NEW i \in 1 .. Len(runtimes) + 1, IsAcquired(i, runtimes)
  PROVE  Sound(requests, WithRuntime(runtimes, i, FALSE, None))
PROOF
<1> DEFINE more == WithRuntime(runtimes, i, FALSE, None)
<1>1. runtimes \in Seq(Runtimes) /\ Len(runtimes) \in Nat /\ DOMAIN runtimes = 1 .. Len(runtimes)
  BY DEF Sound, OneByOne
<1>2. FALSE \in BOOLEAN /\ None \in Slots \cup {None}
  OBVIOUS
<1>3. Replaced(more, runtimes, i, FALSE, None)
  BY <1>1, <1>2, WithRuntimeReplaces
<1> HIDE DEF more
<1>4. i \in 1 .. Len(runtimes) => ~runtimes[i].busy
  BY <1>1 DEF IsAcquired, Idle
<1>5. \A t \in Slots : requests[t].cleanup # "none" => requests[t].runtime \in 1 .. Len(runtimes)
  BY DEF Sound, OneByOne
<1>6. Together(requests, runtimes)
  BY DEF Sound
<1>7. \A t \in Slots : Holds(requests[t]) => requests[t].runtime # i
  BY <1>4, <1>5, <1>6 DEF Together, Holds
<1>8. OneByOne(requests, more)
  BY <1>3, <1>5 DEF Sound, OneByOne, Replaced
<1>9. Together(requests, more)
  <2>1. \A j \in 1 .. Len(more) :
          more[j].busy <=> \E t \in Slots : Holds(requests[t]) /\ requests[t].runtime = j
    <3>1. \A j \in 1 .. Len(more) : j # i =>
            (more[j].busy <=> \E t \in Slots : Holds(requests[t]) /\ requests[t].runtime = j)
      BY <1>3, <1>6 DEF Together, Replaced
    <3>2. ~more[i].busy
      BY <1>3 DEF Replaced
    <3> QED
      BY <1>7, <3>1, <3>2
  <2>2. \A j \in 1 .. Len(more) : more[j].attached # None =>
          /\ requests[more[j].attached].cleanup = "armed"
          /\ requests[more[j].attached].runtime = j
    BY <1>3, <1>6 DEF Together, Replaced
  <2>3. \A t \in Slots : requests[t].cleanup = "armed" =>
          more[requests[t].runtime].attached = t
    <3>1. \A t \in Slots : requests[t].cleanup = "armed" =>
            /\ requests[t].runtime # i
            /\ requests[t].runtime \in 1 .. Len(runtimes)
            /\ runtimes[requests[t].runtime].attached = t
      BY <1>5, <1>6, <1>7 DEF Together, Holds
    <3> QED
      BY <1>3, <3>1 DEF Replaced
  <2> QED
    BY <1>6, <2>1, <2>2, <2>3 DEF Together
<1> QED
  BY <1>8, <1>9 DEF Sound, more

\* The end of a cleanup gives the runtime back, which has no transport any more.
LEMMA GiveBackIsSound ==
  ASSUME NEW requests, NEW runtimes, Sound(requests, runtimes), NEW s \in Slots, NEW entry,
         Entry(entry),
         requests[s].cleanup \in {"event", "handler"},
         entry.runtime = requests[s].runtime,
         entry.cleanup = "done",
         entry.at \notin {"free", "reading"}
  PROVE  Sound([requests EXCEPT ![s] = entry], Released(runtimes, requests[s].runtime))
PROOF
<1> DEFINE new  == [requests EXCEPT ![s] = entry]
           mine == requests[s].runtime
           back == Released(runtimes, mine)
<1>1. /\ new = [t \in Slots |-> new[t]]
      /\ new[s] = entry
      /\ \A t \in Slots : t # s => new[t] = requests[t]
  BY DEF Sound, OneByOne
<1>2. runtimes \in Seq(Runtimes) /\ mine \in 1 .. Len(runtimes)
  BY DEF Sound, OneByOne
<1>3. \A i \in 1 .. Len(runtimes) : runtimes[i] \in Runtimes
  BY <1>2
<1>4. /\ back \in Seq(Runtimes)
      /\ Len(back) = Len(runtimes)
      /\ ~back[mine].busy
      /\ \A i \in 1 .. Len(runtimes) : i # mine => back[i] = runtimes[i]
      /\ \A i \in 1 .. Len(runtimes) : back[i].attached = runtimes[i].attached
  <2> DEFINE value == [runtimes[mine] EXCEPT !.busy = FALSE]
  <2>1. value \in Runtimes /\ value.busy = FALSE /\ value.attached = runtimes[mine].attached
    BY <1>2, <1>3 DEF Runtimes
  <2>2. back = [runtimes EXCEPT ![mine] = value]
    BY DEF Released
  <2> HIDE DEF value, back
  <2> QED
    BY <1>2, <2>1, <2>2
<1>5. \A i \in 1 .. Len(runtimes) : runtimes[i].attached \in Slots \cup {None}
  BY <1>3 DEF Runtimes
<1>6. Together(requests, runtimes)
  BY DEF Sound
<1>7. /\ ~Holds(new[s])
      /\ Holds(requests[s])
      /\ new[s].cleanup # "armed"
      /\ requests[s].cleanup # "armed"
  BY <1>1 DEF Holds
<1> HIDE DEF new, back
<1>8. OneByOne(new, back)
  BY <1>1, <1>2, <1>4 DEF Sound, OneByOne
<1>9. Together(new, back)
  <2>1. \A t, u \in Slots :
          Holds(new[t]) /\ Holds(new[u]) /\ new[t].runtime = new[u].runtime => t = u
    BY <1>1, <1>6, <1>7 DEF Together
  <2>2. \A i \in 1 .. Len(back) :
          back[i].busy <=> \E t \in Slots : Holds(new[t]) /\ new[t].runtime = i
    <3>1. \A i \in 1 .. Len(back) : i # mine =>
            (back[i].busy <=> \E t \in Slots : Holds(requests[t]) /\ requests[t].runtime = i)
      BY <1>4, <1>6 DEF Together
    <3>2. \A i \in 1 .. Len(back) : i # mine =>
            ((\E t \in Slots : Holds(requests[t]) /\ requests[t].runtime = i)
              <=> \E t \in Slots : Holds(new[t]) /\ new[t].runtime = i)
      BY <1>1, <1>7
    <3>3. \A t \in Slots : Holds(new[t]) => new[t].runtime # mine
      BY <1>1, <1>6, <1>7 DEF Together
    <3> QED
      BY <1>4, <3>1, <3>2, <3>3
  <2>3. \A i \in 1 .. Len(back) : back[i].attached # None =>
          /\ new[back[i].attached].cleanup = "armed"
          /\ new[back[i].attached].runtime = i
    <3>1. SUFFICES ASSUME NEW i \in 1 .. Len(back), back[i].attached # None
                   PROVE  /\ new[back[i].attached].cleanup = "armed"
                          /\ new[back[i].attached].runtime = i
      OBVIOUS
    <3>2. i \in 1 .. Len(runtimes) /\ back[i].attached = runtimes[i].attached
      BY <1>4
    <3>3. /\ back[i].attached \in Slots
          /\ requests[back[i].attached].cleanup = "armed"
          /\ requests[back[i].attached].runtime = i
      BY <1>5, <1>6, <3>1, <3>2 DEF Together
    <3> QED
      BY <1>1, <1>7, <3>3
  <2>4. \A t \in Slots : new[t].cleanup = "armed" => back[new[t].runtime].attached = t
    <3>1. \A t \in Slots : new[t].cleanup = "armed" =>
            /\ t # s /\ new[t] = requests[t]
            /\ requests[t].runtime \in 1 .. Len(runtimes)
            /\ runtimes[requests[t].runtime].attached = t
      BY <1>1, <1>6, <1>7 DEF Together, Sound, OneByOne
    <3> QED
      BY <1>4, <3>1
  <2> QED
    BY <2>1, <2>2, <2>3, <2>4 DEF Together
<1> QED
  BY <1>8, <1>9 DEF Sound, new, back

-----------------------------------------------------------------------------
\* What an answer and the start of a cleanup do to the fields of a request.

LEMMA AnsweredFields ==
  ASSUME NEW e, Entry(e), NEW status
  PROVE  /\ Entry(Answered(e, status))
         /\ Answered(e, status).at = "ended"
         /\ Answered(e, status).cleanup = e.cleanup
         /\ Answered(e, status).runtime = e.runtime
         /\ Answered(e, status).open = e.open
BY DEF Entry, Answered

LEMMA StartedFields ==
  ASSUME NEW e, Entry(e), NEW who
  PROVE  /\ Entry(StartedBy(e, who))
         /\ StartedBy(e, who).at = e.at
         /\ StartedBy(e, who).runtime = e.runtime
         /\ StartedBy(e, who).open = e.open
BY DEF Entry, StartedBy

-----------------------------------------------------------------------------
\* The steps. A step of a worker is one of the server's, or leaves the server alone.

LEMMA ArriveKeepsInv ==
  ASSUME Inv, NEW s \in Slots, NEW request, NEW awaited, Arrive(s, request, awaited)
  PROVE  Inv'
PROOF
<1> DEFINE entry == [Free EXCEPT !.at = "reading", !.request = request, !.open = TRUE,
                                 !.awaited = awaited]
           outcome == BeforeBody(server, request)
           value == IF outcome = "read" THEN entry ELSE Answered(entry, outcome)
<1>1. Entry(value) /\ value.cleanup = "none" /\ value.open
  BY DEF Free, Answered, Entry
<1>2. slots[s].cleanup = "none"
  BY DEF Inv, Sound, OneByOne, Arrive
<1>3. Now([slots EXCEPT ![s] = value]) /\ pool' = pool
  BY DEF Arrive
<1> HIDE DEF value
<1>4. Sound([slots EXCEPT ![s] = value], pool)
  BY <1>1, <1>2, QuietIsSound DEF Inv
<1> QED
  BY <1>3, <1>4, NowIsSound

\* A step that leaves the runtime and the cleanup of a request alone.
LEMMA QuietKeepsInv ==
  ASSUME Inv, NEW s \in Slots, NEW entry, Entry(entry),
         entry.cleanup = slots[s].cleanup,
         entry.runtime = slots[s].runtime,
         entry.at \notin {"free", "reading"} \/ entry.at = slots[s].at,
         entry.open = slots[s].open,
         Now([slots EXCEPT ![s] = entry]),
         pool' = pool
  PROVE  Inv'
PROOF
<1>1. /\ entry.at \in {"free", "reading"} => entry.cleanup = "none"
      /\ entry.at = "reading" \/ entry.cleanup = "armed" => entry.open
  BY DEF Inv, Sound, OneByOne
<1>2. Sound([slots EXCEPT ![s] = entry], pool)
  BY <1>1, QuietIsSound DEF Inv
<1> QED
  BY <1>2, NowIsSound

\* A step that may start the cleanup of a request.
LEMMA StartKeepsInv ==
  ASSUME Inv, NEW s \in Slots, NEW who \in {"event", "handler"}, NEW entry, Entry(entry),
         entry.cleanup = StartedBy(slots[s], who).cleanup,
         entry.runtime = slots[s].runtime,
         entry.at \notin {"free", "reading"},
         Now([slots EXCEPT ![s] = entry]),
         pool' = PoolAfterStart(s)
  PROVE  Inv'
PROOF
<1>1. Entry(slots[s])
  BY DEF Inv, Sound, OneByOne
<1>2. CASE slots[s].cleanup = "armed"
  <2>1. entry.cleanup = who
    BY <1>1, <1>2 DEF StartedBy, NotCleanedUp, Entry
  <2>2. Sound([slots EXCEPT ![s] = entry], Detached(pool, slots[s].runtime))
    BY <1>2, <2>1, StartIsSound DEF Inv
  <2>3. pool' = Detached(pool, slots[s].runtime)
    BY <1>2 DEF PoolAfterStart, NotCleanedUp, Runtime
  <2> QED
    BY <2>2, <2>3, NowIsSound
<1>3. CASE slots[s].cleanup # "armed"
  <2>1. entry.cleanup = slots[s].cleanup
    BY <1>3 DEF StartedBy, NotCleanedUp
  <2>2. Sound([slots EXCEPT ![s] = entry], pool)
    BY <1>3, <2>1, QuietIsSound DEF Inv
  <2>3. pool' = pool
    BY <1>3 DEF PoolAfterStart, NotCleanedUp
  <2> QED
    BY <2>2, <2>3, NowIsSound
<1> QED
  BY <1>2, <1>3

LEMMA ServerStepKeepsInv ==
  ASSUME Inv, NEW s \in Slots, ServerStep(s)
  PROVE  Inv'
PROOF
<1>1. Entry(slots[s]) /\ (slots[s].at \in {"free", "reading"} => slots[s].cleanup = "none")
  BY DEF Inv, Sound, OneByOne
<1>2. CASE Rejected(s)
  <2> DEFINE entry == Answered(slots[s], AfterBody(server, slots[s].request))
  <2>1. /\ Entry(entry)
        /\ entry.cleanup = slots[s].cleanup
        /\ entry.runtime = slots[s].runtime
        /\ entry.at = "ended"
        /\ entry.open = slots[s].open
    BY <1>1, AnsweredFields
  <2>2. Now([slots EXCEPT ![s] = entry]) /\ pool' = pool
    BY <1>2 DEF Rejected
  <2> HIDE DEF entry
  <2> QED
    BY <2>1, <2>2, QuietKeepsInv
<1>3. CASE Dispatch(s)
  <2>1. PICK i \in 1 .. Len(pool) + 1 :
          /\ IsAcquired(i, pool)
          /\ Now([slots EXCEPT ![s] =
               [@ EXCEPT !.at = "handling", !.runtime = i, !.cleanup = "armed"]])
          /\ pool' = WithRuntime(pool, i, TRUE, s)
    BY <1>3 DEF Dispatch
  <2> DEFINE entry == [slots[s] EXCEPT !.at = "handling", !.runtime = i, !.cleanup = "armed"]
  <2>2. slots[s].at = "reading" /\ slots[s].open
    BY <1>3 DEF Dispatch, Inv, Sound, OneByOne
  <2>3. /\ Entry(entry)
        /\ entry.runtime = i
        /\ entry.cleanup = "armed"
        /\ entry.open
        /\ entry.at = "handling"
    BY <1>1, <2>2 DEF Entry
  <2>4. ~Holds(slots[s])
    BY <1>1, <2>2 DEF Holds
  <2>5. Now([slots EXCEPT ![s] = entry])
    BY <2>1
  <2> HIDE DEF entry
  <2>6. Sound([slots EXCEPT ![s] = entry], WithRuntime(pool, i, TRUE, s))
    BY <2>1, <2>3, <2>4, TakeIsSound DEF Inv
  <2> QED
    BY <2>1, <2>5, <2>6, NowIsSound
<1>4. CASE \E created \in BOOLEAN : DispatchFails(s, created)
  <2>1. PICK created \in BOOLEAN : DispatchFails(s, created)
    BY <1>4
  <2>2. PICK i \in 1 .. Len(pool) + 1 :
          /\ IsAcquired(i, pool)
          /\ pool' = IF created THEN WithRuntime(pool, i, FALSE, None) ELSE pool
    BY <2>1 DEF DispatchFails
  <2> DEFINE entry == Answered(slots[s], "500")
  <2>3. /\ Entry(entry)
        /\ entry.cleanup = slots[s].cleanup
        /\ entry.cleanup = "none"
        /\ entry.at = "ended"
    BY <1>1, <2>1, AnsweredFields DEF DispatchFails
  <2>4. Now([slots EXCEPT ![s] = entry])
    BY <2>1 DEF DispatchFails
  <2> HIDE DEF entry
  <2>5. Sound([slots EXCEPT ![s] = entry], pool)
    BY <2>3, QuietIsSound DEF Inv
  <2>6. Sound([slots EXCEPT ![s] = entry], pool')
    BY <2>2, <2>5, UnusedIsSound
  <2> QED
    BY <2>2, <2>4, <2>6, NowIsSound
<1>5. CASE ToolAnswers(s)
  <2> DEFINE entry == Answered(slots[s], IF slots[s].open THEN "200" ELSE None)
  <2>1. /\ Entry(entry)
        /\ entry.cleanup = slots[s].cleanup
        /\ entry.runtime = slots[s].runtime
        /\ entry.at = "ended"
        /\ entry.open = slots[s].open
    BY <1>1, AnsweredFields
  <2>2. Now([slots EXCEPT ![s] = entry]) /\ pool' = pool
    BY <1>5 DEF ToolAnswers
  <2> HIDE DEF entry
  <2> QED
    BY <2>1, <2>2, QuietKeepsInv
<1>6. CASE HandlerThrows(s)
  <2> DEFINE entry == [StartedBy(slots[s], "handler") EXCEPT !.at = "failing"]
  <2>1. /\ Entry(entry)
        /\ entry.cleanup = StartedBy(slots[s], "handler").cleanup
        /\ entry.runtime = slots[s].runtime
        /\ entry.at = "failing"
    BY <1>1, StartedFields DEF Entry
  <2>2. Now([slots EXCEPT ![s] = entry]) /\ pool' = PoolAfterStart(s)
    BY <1>6 DEF HandlerThrows
  <2> HIDE DEF entry
  <2> QED
    BY <2>1, <2>2, StartKeepsInv
<1>7. CASE HandlerFails(s)
  <2>0. PICK answer \in ErrorAnswers(slots[s]) :
          Now([slots EXCEPT ![s] = Answered(@, answer)])
    BY <1>7 DEF HandlerFails
  <2> DEFINE entry == Answered(slots[s], answer)
  <2>1. /\ Entry(entry)
        /\ entry.cleanup = slots[s].cleanup
        /\ entry.runtime = slots[s].runtime
        /\ entry.at = "ended"
        /\ entry.open = slots[s].open
    BY <1>1, AnsweredFields
  <2>2. Now([slots EXCEPT ![s] = entry]) /\ pool' = pool
    BY <1>7, <2>0 DEF HandlerFails
  <2> HIDE DEF entry
  <2> QED
    BY <2>1, <2>2, QuietKeepsInv
<1>8. CASE CloseEvent(s)
  <2> DEFINE entry == [StartedBy(slots[s], "event") EXCEPT !.open = FALSE]
  <2>1. /\ Entry(entry)
        /\ entry.cleanup = StartedBy(slots[s], "event").cleanup
        /\ entry.runtime = slots[s].runtime
        /\ entry.at = "ended"
    BY <1>1, <1>8, StartedFields DEF CloseEvent, Entry
  <2>2. Now([slots EXCEPT ![s] = entry]) /\ pool' = PoolAfterStart(s)
    BY <1>8 DEF CloseEvent
  <2> HIDE DEF entry
  <2> QED
    BY <2>1, <2>2, StartKeepsInv
<1>9. CASE CleanupEnds(s)
  <2> DEFINE entry == [slots[s] EXCEPT !.cleanup = "done"]
  <2>1. slots[s].cleanup \in {"event", "handler"}
    BY <1>9 DEF CleanupEnds
  <2>2. /\ Entry(entry)
        /\ entry.cleanup = "done"
        /\ entry.runtime = slots[s].runtime
        /\ entry.at \notin {"free", "reading"}
    BY <1>1, <2>1 DEF Entry
  <2>3. Now([slots EXCEPT ![s] = entry]) /\ pool' = Released(pool, slots[s].runtime)
    BY <1>9 DEF CleanupEnds, Runtime
  <2> HIDE DEF entry
  <2>4. Sound([slots EXCEPT ![s] = entry], Released(pool, slots[s].runtime))
    BY <2>1, <2>2, GiveBackIsSound DEF Inv
  <2> QED
    BY <2>3, <2>4, NowIsSound
<1> QED
  BY <1>2, <1>3, <1>4, <1>5, <1>6, <1>7, <1>8, <1>9 DEF ServerStep

LEMMA ClientLeavesKeepsInv ==
  ASSUME Inv, NEW s \in Slots, ClientLeaves(s)
  PROVE  Inv'
PROOF
<1> DEFINE entry == [StartedBy(slots[s], "event") EXCEPT !.open = FALSE,
                       !.at = IF slots[s].at = "reading" THEN "ended" ELSE slots[s].at]
<1>1. Entry(slots[s])
  BY DEF Inv, Sound, OneByOne
<1>2. /\ Entry(entry)
      /\ entry.cleanup = StartedBy(slots[s], "event").cleanup
      /\ entry.runtime = slots[s].runtime
      /\ entry.at \notin {"free", "reading"}
  BY <1>1, StartedFields DEF ClientLeaves, Entry
<1>3. Now([slots EXCEPT ![s] = entry]) /\ pool' = PoolAfterStart(s)
  BY DEF ClientLeaves
<1> HIDE DEF entry
<1> QED
  BY <1>2, <1>3, StartKeepsInv

\* When every response has closed, no request is armed, and no transport is left.
LEMMA ServerClosedKeepsInv ==
  ASSUME Inv, ServerClosed
  PROVE  Inv'
PROOF
<1>1. pool \in Seq(Runtimes) /\ Together(slots, pool)
  BY DEF Inv, Sound, OneByOne
<1>2. \A i \in 1 .. Len(pool) : pool[i] \in Runtimes
  BY <1>1
<1>3. pool' = [i \in 1 .. Len(pool) |-> [pool[i] EXCEPT !.attached = None]] /\ slots' = slots
  BY <1>1 DEF ServerClosed
<1>4. \A i \in 1 .. Len(pool) :
        /\ pool'[i] \in Runtimes
        /\ pool'[i].busy = pool[i].busy
        /\ pool'[i].attached = None
  BY <1>2, <1>3 DEF Runtimes
<1>5. pool' \in Seq(Runtimes) /\ Len(pool') = Len(pool)
  BY <1>1, <1>3, <1>4
<1>6. \A s \in Slots : slots[s].cleanup # "armed"
  BY DEF Inv, Sound, OneByOne, ServerClosed
<1>7. OneByOne(slots, pool')
  BY <1>5 DEF Inv, Sound, OneByOne
<1>8. Together(slots, pool')
  BY <1>1, <1>4, <1>5, <1>6 DEF Together
<1> QED
  BY <1>3, <1>7, <1>8 DEF Inv, Sound

LEMMA ReceiveKeepsInv ==
  ASSUME Inv, NEW w \in Workers, Receive(w)
  PROVE  Inv'
PROOF
<1> DEFINE s == workers[w].slot
           entry == [slots[s] EXCEPT !.awaited = FALSE]
<1>1. Now([slots EXCEPT ![s] = entry]) /\ pool' = pool
  BY DEF Receive
<1>2. CASE s \in Slots
  <2>1. Entry(slots[s])
    BY <1>2 DEF Inv, Sound, OneByOne
  <2>2. /\ Entry(entry)
        /\ entry.cleanup = slots[s].cleanup
        /\ entry.runtime = slots[s].runtime
        /\ entry.at = slots[s].at
        /\ entry.open = slots[s].open
    BY <2>1 DEF Entry
  <2> HIDE DEF entry, s
  <2> QED
    BY <1>1, <1>2, <2>2, QuietKeepsInv
<1>3. CASE s \notin Slots
  <2>1. slots = [t \in Slots |-> slots[t]]
    BY DEF Inv, Sound, OneByOne
  <2>2. [slots EXCEPT ![s] = entry] = slots
    BY <1>3, <2>1
  <2> QED
    BY <1>1, <2>2, NowIsSound DEF Inv
<1> QED
  BY <1>2, <1>3

LEMMA InitIsSound == Init => Inv
PROOF
<1> SUFFICES ASSUME Init
             PROVE  Inv
  OBVIOUS
<1>1. slots = [s \in Slots |-> Free] /\ pool = <<>>
  BY DEF Init, InitServer
<1>2. Entry(Free) /\ Free.cleanup = "none" /\ Free.at = "free"
  BY DEF Entry, Free
<1>3. pool \in Seq(Runtimes) /\ Len(pool) = 0
  BY <1>1
<1>4. OneByOne(slots, pool)
  BY <1>1, <1>2, <1>3 DEF OneByOne
<1>5. Together(slots, pool)
  BY <1>1, <1>2, <1>3 DEF Together, Holds
<1> QED
  BY <1>4, <1>5 DEF Inv, Sound

LEMMA NextKeepsInv ==
  ASSUME Inv, [Next]_vars
  PROVE  Inv'
PROOF
<1>1. CASE \E w \in Workers : Send(w)
  BY <1>1, ArriveKeepsInv DEF Send, FreeSlots
<1>2. CASE \E w \in Workers : Receive(w)
  BY <1>2, ReceiveKeepsInv
<1>3. CASE \E w \in Workers : Refused(w)
  BY <1>3 DEF Refused, serverVars, Inv
<1>4. CASE \E w \in Workers : ProbeEnds(w)
  BY <1>4 DEF ProbeEnds, serverVars, Inv
<1>5. CASE \E w \in Workers : ProbeThrows(w)
  BY <1>5 DEF ProbeThrows, Inv
<1>6. CASE \E r \in strangers : StrangerSends(r)
  BY <1>6, ArriveKeepsInv DEF StrangerSends, FreeSlots
<1>7. CASE ServerNext
  <2>1. CASE \E s \in Slots : ServerStep(s)
    BY <2>1, ServerStepKeepsInv
  <2>2. CASE \E s \in Slots : ClientLeaves(s)
    BY <2>2, ClientLeavesKeepsInv
  <2>3. CASE Close
    BY <2>3 DEF Close, Inv
  <2>4. CASE ServerClosed
    BY <2>4, ServerClosedKeepsInv
  <2> QED
    BY <1>7, <2>1, <2>2, <2>3, <2>4 DEF ServerNext
<1>8. CASE UNCHANGED vars
  BY <1>8 DEF vars, serverVars, Inv
<1> QED
  BY <1>1, <1>2, <1>3, <1>4, <1>5, <1>6, <1>7, <1>8 DEF Next

LEMMA InvImpliesHeldByOne == Inv => HeldByOne
PROOF
<1> SUFFICES ASSUME Inv
             PROVE  HeldByOne
  OBVIOUS
<1>1. pool \in Seq(Runtimes) /\ Together(slots, pool)
  BY DEF Inv, Sound, OneByOne
<1>2. DOMAIN pool = 1 .. Len(pool)
  BY <1>1
<1>3. \A s \in Slots : s \in Holders(slots) <=> Holds(slots[s])
  BY DEF Holders, Holds
<1>4. \A s \in Holders(slots) : s \in Slots
  BY DEF Holders
<1> QED
  BY <1>1, <1>2, <1>3, <1>4 DEF HeldByOne, Together, Runtime

\* A runtime serves one request at a time: it is busy exactly while one request has
\* not given it back, and the transport on it is that request's until its cleanup
\* starts (httpTransport.ts 650-716, 829-890).
THEOREM RuntimesAreHeldByOne == Spec => []HeldByOne
PROOF
<1>1. Inv /\ [Next]_vars => Inv'
  BY NextKeepsInv
<1> QED
  BY InitIsSound, <1>1, InvImpliesHeldByOne, PTL DEF Spec

-----------------------------------------------------------------------------
(***************************************************************************)
(* Who gets in. The handlers answer in turn, so what is known of a request *)
(* that gets further is that none before has answered.                     *)
(***************************************************************************)

\* The lists of answers, written out, and the first of them.
LEMMA ThreeInARow ==
  ASSUME NEW a, NEW b, NEW c
  PROVE  <<a, b>> \o <<c>> = <<a, b, c>>
PROOF
<1> DEFINE S == {a, b, c}
           s == <<a, b>> \o <<c>>
<1>1. <<a, b>> \in Seq(S) /\ <<c>> \in Seq(S) /\ <<a, b, c>> \in Seq(S)
  OBVIOUS
<1>2. s \in Seq(S) /\ Len(s) = 3
  BY <1>1
<1>3. s[1] = a /\ s[2] = b /\ s[3] = c
  BY <1>1
<1> HIDE DEF s
<1>4. \A i \in 1 .. 3 : s[i] = <<a, b, c>>[i]
  BY <1>3
<1>5. Len(<<a, b, c>>) = 3
  OBVIOUS
<1>6. s = <<a, b, c>>
  BY <1>1, <1>2, <1>4, <1>5, SeqEqual
<1> QED
  BY <1>6 DEF s

LEMMA FiveInARow ==
  ASSUME NEW a, NEW b, NEW c, NEW d, NEW e
  PROVE  <<a, b>> \o <<c, d, e>> = <<a, b, c, d, e>>
PROOF
<1> DEFINE S == {a, b, c, d, e}
           s == <<a, b>> \o <<c, d, e>>
<1>1. <<a, b>> \in Seq(S) /\ <<c, d, e>> \in Seq(S) /\ <<a, b, c, d, e>> \in Seq(S)
  OBVIOUS
<1>2. s \in Seq(S) /\ Len(s) = 5
  BY <1>1
<1>3. s[1] = a /\ s[2] = b /\ s[3] = c /\ s[4] = d /\ s[5] = e
  BY <1>1
<1> HIDE DEF s
<1>4. \A i \in 1 .. 5 : s[i] = <<a, b, c, d, e>>[i]
  BY <1>3
<1>5. Len(<<a, b, c, d, e>>) = 5
  OBVIOUS
<1>6. s = <<a, b, c, d, e>>
  BY <1>1, <1>2, <1>4, <1>5, SeqEqual
<1> QED
  BY <1>6 DEF s

LEMMA FirstOfThree ==
  ASSUME NEW a, NEW b, NEW c, c # None
  PROVE  FirstOf(<<a, b, c>>) = IF a # None THEN a ELSE IF b # None THEN b ELSE c
PROOF
<1> DEFINE steps   == <<a, b, c>>
           answers == {i \in DOMAIN steps : steps[i] # None}
           first   == CHOOSE i \in answers : \A j \in answers : i <= j
<1>1. FirstOf(steps) = steps[first]
  BY DEF FirstOf
<1>2. answers = {i \in 1 .. 3 : steps[i] # None}
  OBVIOUS
<1>3. 3 \in answers
  BY <1>2
<1>4. \E i \in answers : \A j \in answers : i <= j
  BY <1>2, <1>3
<1>5. first \in answers /\ \A j \in answers : first <= j
  BY <1>4
<1> HIDE DEF first
<1> QED
  BY <1>1, <1>2, <1>5

LEMMA FirstOfFive ==
  ASSUME NEW a, NEW b, NEW c, NEW d, NEW e, e # None
  PROVE  FirstOf(<<a, b, c, d, e>>) =
           IF a # None THEN a ELSE IF b # None THEN b
           ELSE IF c # None THEN c ELSE IF d # None THEN d ELSE e
PROOF
<1> DEFINE steps   == <<a, b, c, d, e>>
           answers == {i \in DOMAIN steps : steps[i] # None}
           first   == CHOOSE i \in answers : \A j \in answers : i <= j
<1>1. FirstOf(steps) = steps[first]
  BY DEF FirstOf
<1>2. answers = {i \in 1 .. 5 : steps[i] # None}
  OBVIOUS
<1>3. 5 \in answers
  BY <1>2
<1>4. \E i \in answers : \A j \in answers : i <= j
  BY <1>2, <1>3
<1>5. first \in answers /\ \A j \in answers : first <= j
  BY <1>4
<1> HIDE DEF first
<1> QED
  BY <1>1, <1>2, <1>5

\* A request that runs a tool, or is shown a document, behind OAuth.
Admits(r) ==
  \/ r.bearer = "live"
  \/ /\ r.path = "mcp" /\ r.rpc \in Bootstrap
     /\ Admission(r) = "allow_public" \/ r.bearer = "basic"

\* Host and origin are those that the configuration accepts.
LetIn(config, r) == HostAccepted(config, r) /\ OriginAccepted(config, r)

\* The guard of the OAuth routes lets pass who has a live token, and who need not.
LEMMA GuardAdmits ==
  ASSUME NEW r, IsRequest(r), GuardPasses(r), r.path \in {"mcp", "resource"}
  PROVE  Admits(r)
PROOF
<1>1. CASE PassesWithoutToken(r)
  <2>1. r.path = "mcp" /\ r.method = "POST" /\ r.rpc \in Bootstrap
    BY <1>1, NoneAssumption DEF PassesWithoutToken, GuardedMethod
  <2>2. r.bearer \in {None, "basic"} /\ ~r.assertion
    BY <1>1 DEF PassesWithoutToken, IsBearer, IsRequest
  <2>3. Admission(r) = IF r.bearer = None /\ r.rpc \in Bootstrap THEN "allow_public"
                       ELSE "require_bridge_bearer"
    BY <2>1, <2>2 DEF Admission
  <2> QED
    BY <2>1, <2>2, <2>3 DEF Admits
<1>2. CASE r.bearer = "live"
  BY <1>2 DEF Admits
<1> QED
  BY <1>1, <1>2 DEF GuardPasses

\* A request whose body is read, or that is shown a document, is let in.
LEMMA BeforeBodyAdmits ==
  ASSUME NEW config, NEW r, IsRequest(r)
  PROVE  /\ BeforeBody(config, r) \in Statuses \cup {"read"}
         /\ BeforeBody(config, r) # "403" => LetIn(config, r)
         /\ BeforeBody(config, r) = "read" => r.path = "mcp" /\ r.method = "POST"
         /\ BeforeBody(config, r) = "200" /\ config.auth = "oauth" => Admits(r)
PROOF
<1> DEFINE host   == HostStep(config, r)
           origin == OriginStep(config, r)
           oauth  == OAuthStep(config, r)
           pre    == PreflightStep(r)
           route  == RouteStep(r)
<1>1. /\ host = IF HostAccepted(config, r) THEN None ELSE "403"
      /\ origin = IF OriginAccepted(config, r) THEN None ELSE "403"
  BY DEF HostStep, OriginStep
<1>2. /\ "403" # None /\ "read" # None /\ "204" # None /\ "401" # None /\ "route" # None
      /\ {"200", "404", "405", "400", "run"} \cap {None} = {}
  BY NoneAssumption DEF Statuses
<1>3. CASE r.path = "mcp" /\ r.method = "POST"
  <2>1. BeforeBody(config, r) = FirstOf(<<host, origin>> \o <<"read">>)
    BY <1>3 DEF BeforeBody
  <2>2. BeforeBody(config, r) = IF host # None THEN host ELSE IF origin # None THEN origin
                                ELSE "read"
    <3>1. <<host, origin>> \o <<"read">> = <<host, origin, "read">>
      BY ThreeInARow
    <3> HIDE DEF host, origin
    <3>2. FirstOf(<<host, origin, "read">>) =
            IF host # None THEN host ELSE IF origin # None THEN origin ELSE "read"
      BY <1>2, FirstOfThree
    <3> QED
      BY <2>1, <3>1, <3>2
  <2> QED
    BY <1>1, <1>2, <1>3, <2>2 DEF LetIn, Statuses
<1>4. CASE ~(r.path = "mcp" /\ r.method = "POST")
  <2>1. BeforeBody(config, r) = FirstOf(<<host, origin>> \o <<oauth, pre, route>>)
    BY <1>4 DEF BeforeBody
  <2>2. /\ route \in {"200", "404", "405"}
        /\ route = "200" => r.path = "resource"
    BY <1>4 DEF RouteStep
  <2>3. pre \in {None, "204"}
    BY DEF PreflightStep
  <2>4. /\ oauth \in {None, "401", "route"}
        /\ oauth = None => (config.auth = "oauth" => GuardPasses(r))
    BY <1>2 DEF OAuthStep
  <2> HIDE DEF host, origin, oauth, pre, route
  <2>5. BeforeBody(config, r) =
          IF host # None THEN host ELSE IF origin # None THEN origin
          ELSE IF oauth # None THEN oauth ELSE IF pre # None THEN pre ELSE route
    <3>1. route # None
      BY <1>2, <2>2
    <3>2. <<host, origin>> \o <<oauth, pre, route>> = <<host, origin, oauth, pre, route>>
      BY FiveInARow
    <3>3. FirstOf(<<host, origin, oauth, pre, route>>) =
            IF host # None THEN host ELSE IF origin # None THEN origin
            ELSE IF oauth # None THEN oauth ELSE IF pre # None THEN pre ELSE route
      BY <3>1, FirstOfFive
    <3> QED
      BY <2>1, <3>2, <3>3
  <2>6. BeforeBody(config, r) = "200" => oauth = None /\ r.path = "resource"
    BY <1>1, <2>2, <2>3, <2>4, <2>5
  <2>7. BeforeBody(config, r) = "200" /\ config.auth = "oauth" => Admits(r)
    BY <2>4, <2>6, GuardAdmits
  <2>8. BeforeBody(config, r) \in Statuses
    BY <1>1, <2>2, <2>3, <2>4, <2>5 DEF Statuses
  <2>9. BeforeBody(config, r) # "403" => LetIn(config, r)
    BY <1>1, <1>2, <2>5 DEF LetIn
  <2> QED
    BY <2>7, <2>8, <2>9 DEF Statuses
<1> QED
  BY <1>3, <1>4

\* A call that is to run after its body was read has passed the guard.
LEMMA AfterBodyAdmits ==
  ASSUME NEW config, NEW r, IsRequest(r), r.path = "mcp", r.method = "POST"
  PROVE  /\ AfterBody(config, r) \in (Statuses \ {"403"}) \cup {"run"}
         /\ AfterBody(config, r) = "run" /\ config.auth = "oauth" => Admits(r)
PROOF
<1> DEFINE body  == BodyStep(r)
           oauth == OAuthStep(config, r)
           route == RouteStep(r)
<1>1. body \in {None, "400", "413"}
  BY DEF BodyStep, IsRequest
<1>2. oauth \in {None, "401"} /\ (oauth = None => (config.auth = "oauth" => GuardPasses(r)))
  <2>1. "401" # None
    BY NoneAssumption DEF Statuses
  <2> QED
    BY <2>1 DEF OAuthStep
<1>3. route \in {"400", "run"}
  BY DEF RouteStep
<1>4. AfterBody(config, r) = FirstOf(<<body, oauth, route>>)
  BY DEF AfterBody
<1> HIDE DEF body, oauth, route
<1>5. AfterBody(config, r) =
        IF body # None THEN body ELSE IF oauth # None THEN oauth ELSE route
  <2>1. route # None
    BY <1>3, NoneAssumption DEF Statuses
  <2> QED
    BY <1>4, <2>1, FirstOfThree
<1>6. AfterBody(config, r) \in (Statuses \ {"403"}) \cup {"run"}
  BY <1>1, <1>2, <1>3, <1>5 DEF Statuses
<1>7. AfterBody(config, r) = "run" => oauth = None
  BY <1>1, <1>2, <1>5
<1> QED
  BY <1>2, <1>6, <1>7, GuardAdmits

-----------------------------------------------------------------------------
\* All fields of a request.
Fields == {"at", "request", "status", "open", "runtime", "cleanup", "awaited"}

\* The fields of a request have their types. What was answered, and how far it has
\* come, tell of the request: it is at its handler only if it is a call that was let
\* in, and has a runtime only if it was admitted as well.
Vetted(config, e) ==
  /\ Fields \subseteq DOMAIN e
  /\ e.at \in {"free", "reading", "handling", "failing", "ended"}
  /\ e.status \in Statuses \cup {None}
  /\ e.open \in BOOLEAN /\ e.awaited \in BOOLEAN
  /\ e.cleanup = "none" <=> e.runtime = 0
  /\ e.at = "free" => e.request = None /\ e.status = None /\ e.runtime = 0
  /\ e.at # "free" => IsRequest(e.request)
  /\ e.at # "free" /\ e.status # "403" => LetIn(config, e.request)
  /\ e.at \in {"reading", "handling", "failing"} =>
       e.request.path = "mcp" /\ e.request.method = "POST" /\ e.status = None
  /\ e.at = "reading" => e.runtime = 0
  /\ e.runtime # 0 => e.status # "403"
  /\ e.runtime # 0 /\ config.auth = "oauth" => Admits(e.request)
  /\ e.status = "200" /\ e.request.path = "resource" /\ config.auth = "oauth" => Admits(e.request)

\* The request in every slot is vetted, and those still to come are requests.
Guarded ==
  /\ server = IF SettingsAccepted(settings) THEN ServerOf(settings) ELSE None
  /\ slots = [s \in Slots |-> slots[s]]
  /\ \A s \in Slots : Vetted(server, slots[s])
  /\ \A r \in strangers : IsRequest(r)

\* Of a free slot there is nothing to say.
LEMMA FreeIsVetted == \A config : Vetted(config, Free)
BY NoneAssumption DEF Vetted, Free, Fields, Statuses

\* A step that replaces what is in one slot by something vetted.
LEMMA ReplacedIsGuarded ==
  ASSUME Guarded, NEW s \in Slots, NEW entry, Vetted(server, entry),
         Now([slots EXCEPT ![s] = entry]),
         UNCHANGED <<server, settings>>, strangers' \subseteq strangers
  PROVE  Guarded'
PROOF
<1> DEFINE requests == [slots EXCEPT ![s] = entry]
           kept(t)  == IF Over(requests[t]) THEN Free ELSE requests[t]
<1>1. slots' = [t \in Slots |-> kept(t)]
  BY DEF Now
<1>2. \A t \in Slots : Vetted(server, requests[t])
  BY DEF Guarded
<1>3. \A t \in Slots : Vetted(server, kept(t))
  BY <1>2, FreeIsVetted
<1> HIDE DEF kept
<1>4. /\ slots' = [t \in Slots |-> slots'[t]]
      /\ \A t \in Slots : Vetted(server, slots'[t])
  BY <1>1, <1>3
<1> QED
  BY <1>4 DEF Guarded

\* Any answer but 403 leaves a request vetted.
LEMMA AnsweredIsVetted ==
  ASSUME NEW config, NEW e, Vetted(config, e), e.at \in {"reading", "handling", "failing"},
         NEW status \in (Statuses \ {"403"}) \cup {None}
  PROVE  Vetted(config, Answered(e, status))
PROOF
<1> DEFINE new == Answered(e, status)
<1>1. /\ Fields \subseteq DOMAIN new
      /\ new.at = "ended" /\ new.status = status
      /\ new.request = e.request /\ new.runtime = e.runtime
      /\ new.open = e.open /\ new.awaited = e.awaited /\ new.cleanup = e.cleanup
  BY DEF Answered, Vetted, Fields
<1>2. e.at # "free" /\ e.status # "403"
  BY NoneAssumption DEF Vetted, Statuses
<1> HIDE DEF new
<1>3. status # "403" /\ status \in Statuses \cup {None}
  BY NoneAssumption DEF Statuses
<1>4. Vetted(config, new)
  BY <1>1, <1>2, <1>3 DEF Vetted
<1> QED
  BY <1>4 DEF new

\* What neither the answer nor the admission depends on.
LEMMA SameIsVetted ==
  ASSUME NEW config, NEW e, Vetted(config, e), NEW new, Fields \subseteq DOMAIN new,
         new.request = e.request, new.status = e.status, new.runtime = e.runtime,
         new.open \in BOOLEAN, new.awaited \in BOOLEAN,
         new.cleanup = "none" <=> e.cleanup = "none",
         new.at = e.at \/ (e.at # "free" /\ new.at = "ended")
           \/ (e.at = "handling" /\ new.at = "failing")
  PROVE  Vetted(config, new)
BY DEF Vetted

\* A cleanup changes neither the request nor what was answered.
LEMMA StartedIsSame ==
  ASSUME NEW e, Fields \subseteq DOMAIN e, NEW who \in {"event", "handler"}
  PROVE  /\ Fields \subseteq DOMAIN StartedBy(e, who)
         /\ StartedBy(e, who).request = e.request
         /\ StartedBy(e, who).status = e.status
         /\ StartedBy(e, who).runtime = e.runtime
         /\ StartedBy(e, who).at = e.at
         /\ StartedBy(e, who).open = e.open
         /\ StartedBy(e, who).awaited = e.awaited
         /\ StartedBy(e, who).cleanup = "none" <=> e.cleanup = "none"
BY DEF StartedBy, NotCleanedUp, Fields

\* The steps, one by one.
LEMMA ArriveIsGuarded ==
  ASSUME Guarded, NEW s \in Slots, NEW request, NEW awaited \in BOOLEAN,
         Arrive(s, request, awaited), IsRequest(request),
         settings' = settings, strangers' \subseteq strangers
  PROVE  Guarded'
PROOF
<1> DEFINE outcome == BeforeBody(server, request)
           entry == [Free EXCEPT !.at = "reading", !.request = request, !.open = TRUE,
                                 !.awaited = awaited]
           value == IF outcome = "read" THEN entry ELSE Answered(entry, outcome)
<1>1. Now([slots EXCEPT ![s] = value]) /\ server' = server
  BY DEF Arrive
<1>2. /\ outcome \in Statuses \cup {"read"}
      /\ outcome # "403" => LetIn(server, request)
      /\ outcome = "read" => request.path = "mcp" /\ request.method = "POST"
      /\ outcome = "200" /\ server.auth = "oauth" => Admits(request)
  BY BeforeBodyAdmits
<1>3. /\ Fields \subseteq DOMAIN entry
      /\ entry.at = "reading" /\ entry.request = request
      /\ entry.status = None /\ entry.runtime = 0 /\ entry.cleanup = "none"
      /\ entry.open \in BOOLEAN /\ entry.awaited \in BOOLEAN
  BY DEF Free, Fields
<1> HIDE DEF outcome, entry
<1>4. /\ Fields \subseteq DOMAIN Answered(entry, outcome)
      /\ Answered(entry, outcome).at = "ended" /\ Answered(entry, outcome).status = outcome
      /\ Answered(entry, outcome).request = request /\ Answered(entry, outcome).runtime = 0
      /\ Answered(entry, outcome).cleanup = "none"
      /\ Answered(entry, outcome).open \in BOOLEAN
      /\ Answered(entry, outcome).awaited \in BOOLEAN
  BY <1>3 DEF Answered, Fields
<1>5. CASE outcome = "read"
  <2>1. LetIn(server, request)
    BY <1>2, <1>5
  <2>2. Vetted(server, entry)
    BY <1>2, <1>3, <1>5, <2>1, NoneAssumption DEF Vetted, Statuses
  <2> QED
    BY <1>1, <1>5, <2>2, ReplacedIsGuarded
<1>6. CASE outcome # "read"
  <2>1. Vetted(server, Answered(entry, outcome))
    BY <1>2, <1>4, <1>6 DEF Vetted
  <2> QED
    BY <1>1, <1>6, <2>1, ReplacedIsGuarded
<1> QED
  BY <1>5, <1>6

LEMMA ServerStepIsGuarded ==
  ASSUME Guarded, NEW s \in Slots, ServerStep(s), UNCHANGED runVars
  PROVE  Guarded'
PROOF
<1> DEFINE old == slots[s]
           outcome == AfterBody(server, old.request)
<1>1. Vetted(server, old) /\ Fields \subseteq DOMAIN old
  BY DEF Guarded, Vetted
<1>2. UNCHANGED settings /\ strangers' \subseteq strangers
  BY DEF runVars
<1>3. old.at = "reading" =>
        /\ outcome \in (Statuses \ {"403"}) \cup {"run"}
        /\ outcome = "run" /\ server.auth = "oauth" => Admits(old.request)
  <2>1. old.at = "reading" =>
          IsRequest(old.request) /\ old.request.path = "mcp" /\ old.request.method = "POST"
    BY <1>1 DEF Vetted
  <2> QED
    BY <2>1, AfterBodyAdmits
<1> HIDE DEF outcome
<1>4. CASE Rejected(s)
  <2>1. /\ Now([slots EXCEPT ![s] = Answered(old, outcome)])
        /\ server' = server
        /\ old.at = "reading" /\ outcome # "run"
    BY <1>4 DEF Rejected, outcome
  <2>2. Vetted(server, Answered(old, outcome))
    BY <1>1, <1>3, <2>1, AnsweredIsVetted
  <2> QED
    BY <1>2, <2>1, <2>2, ReplacedIsGuarded
<1>5. CASE Dispatch(s)
  <2>1. PICK i \in 1 .. Len(pool) + 1 :
          Now([slots EXCEPT ![s] =
            [@ EXCEPT !.at = "handling", !.runtime = i, !.cleanup = "armed"]])
    BY <1>5 DEF Dispatch
  <2> DEFINE entry == [old EXCEPT !.at = "handling", !.runtime = i, !.cleanup = "armed"]
  <2>2. old.at = "reading" /\ outcome = "run" /\ server' = server
    BY <1>5 DEF Dispatch, outcome
  <2>3. /\ Fields \subseteq DOMAIN entry
        /\ entry.at = "handling" /\ entry.runtime = i
        /\ entry.request = old.request /\ entry.status = old.status
        /\ entry.open = old.open /\ entry.awaited = old.awaited
        /\ entry.cleanup = "armed"
    BY <1>1 DEF Fields
  <2>4. Now([slots EXCEPT ![s] = entry])
    BY <2>1
  <2> HIDE DEF entry
  <2>5. LetIn(server, old.request) /\ old.status = None /\ None # "403" /\ i # 0
    BY <1>1, <2>2, NoneAssumption DEF Vetted, Statuses
  <2>6. Vetted(server, entry)
    BY <1>1, <1>3, <2>2, <2>3, <2>5, NoneAssumption DEF Vetted, Statuses
  <2> QED
    BY <1>2, <2>2, <2>4, <2>6, ReplacedIsGuarded
<1>6. CASE \E created \in BOOLEAN : DispatchFails(s, created)
  <2>1. /\ Now([slots EXCEPT ![s] = Answered(old, "500")])
        /\ server' = server
        /\ old.at = "reading"
    BY <1>6 DEF DispatchFails
  <2>2. "500" \in Statuses \ {"403"}
    BY DEF Statuses
  <2>3. Vetted(server, Answered(old, "500"))
    BY <1>1, <2>1, <2>2, AnsweredIsVetted
  <2> QED
    BY <1>2, <2>1, <2>3, ReplacedIsGuarded
<1>7. CASE ToolAnswers(s)
  <2> DEFINE status == IF old.open THEN "200" ELSE None
  <2>1. /\ Now([slots EXCEPT ![s] = Answered(old, status)])
        /\ server' = server
        /\ old.at = "handling"
    BY <1>7 DEF ToolAnswers
  <2>2. status \in (Statuses \ {"403"}) \cup {None}
    BY DEF Statuses
  <2> HIDE DEF status
  <2>3. Vetted(server, Answered(old, status))
    BY <1>1, <2>1, <2>2, AnsweredIsVetted
  <2> QED
    BY <1>2, <2>1, <2>3, ReplacedIsGuarded
<1>8. CASE HandlerThrows(s)
  <2> DEFINE entry == [StartedBy(old, "handler") EXCEPT !.at = "failing"]
  <2>1. Now([slots EXCEPT ![s] = entry]) /\ server' = server /\ old.at = "handling"
    BY <1>8 DEF HandlerThrows
  <2>2. /\ Fields \subseteq DOMAIN entry
        /\ entry.at = "failing" /\ entry.runtime = old.runtime
        /\ entry.request = old.request /\ entry.status = old.status
        /\ entry.open \in BOOLEAN /\ entry.awaited \in BOOLEAN
        /\ entry.cleanup = "none" <=> old.cleanup = "none"
    BY <1>1, StartedIsSame DEF Fields, Vetted
  <2> HIDE DEF entry
  <2>3. Vetted(server, entry)
    BY <1>1, <2>1, <2>2, SameIsVetted
  <2> QED
    BY <1>2, <2>1, <2>3, ReplacedIsGuarded
<1>9. CASE HandlerFails(s)
  <2>0. PICK answer \in ErrorAnswers(old) : Now([slots EXCEPT ![s] = Answered(old, answer)])
    BY <1>9 DEF HandlerFails
  <2>1. server' = server /\ old.at = "failing"
    BY <1>9 DEF HandlerFails
  <2>2. answer \in (Statuses \ {"403"}) \cup {None}
    BY <2>0 DEF ErrorAnswers, Statuses
  <2>3. Vetted(server, Answered(old, answer))
    BY <1>1, <2>1, <2>2, AnsweredIsVetted
  <2> QED
    BY <1>2, <2>0, <2>1, <2>3, ReplacedIsGuarded
<1>10. CASE CloseEvent(s)
  <2> DEFINE entry == [StartedBy(old, "event") EXCEPT !.open = FALSE]
  <2>1. Now([slots EXCEPT ![s] = entry]) /\ server' = server
    BY <1>10 DEF CloseEvent
  <2>2. /\ Fields \subseteq DOMAIN entry
        /\ entry.at = old.at /\ entry.runtime = old.runtime
        /\ entry.request = old.request /\ entry.status = old.status
        /\ entry.open \in BOOLEAN /\ entry.awaited \in BOOLEAN
        /\ entry.cleanup = "none" <=> old.cleanup = "none"
    BY <1>1, StartedIsSame DEF Fields, Vetted
  <2> HIDE DEF entry
  <2>3. Vetted(server, entry)
    BY <1>1, <2>2, SameIsVetted
  <2> QED
    BY <1>2, <2>1, <2>3, ReplacedIsGuarded
<1>11. CASE CleanupEnds(s)
  <2> DEFINE entry == [old EXCEPT !.cleanup = "done"]
  <2>1. Now([slots EXCEPT ![s] = entry]) /\ server' = server
    BY <1>11 DEF CleanupEnds
  <2>2. /\ Fields \subseteq DOMAIN entry
        /\ entry.at = old.at /\ entry.runtime = old.runtime
        /\ entry.request = old.request /\ entry.status = old.status
        /\ entry.open \in BOOLEAN /\ entry.awaited \in BOOLEAN
        /\ entry.cleanup = "none" <=> old.cleanup = "none"
    BY <1>1, <1>11 DEF Fields, Vetted, CleanupEnds
  <2> HIDE DEF entry
  <2>3. Vetted(server, entry)
    BY <1>1, <2>2, SameIsVetted
  <2> QED
    BY <1>2, <2>1, <2>3, ReplacedIsGuarded
<1> QED
  BY <1>4, <1>5, <1>6, <1>7, <1>8, <1>9, <1>10, <1>11 DEF ServerStep

LEMMA ClientLeavesIsGuarded ==
  ASSUME Guarded, NEW s \in Slots, ClientLeaves(s), UNCHANGED runVars
  PROVE  Guarded'
PROOF
<1> DEFINE old   == slots[s]
           entry == [StartedBy(old, "event") EXCEPT !.open = FALSE,
                       !.at = IF old.at = "reading" THEN "ended" ELSE old.at]
<1>1. Vetted(server, old) /\ Fields \subseteq DOMAIN old
  BY DEF Guarded, Vetted
<1>2. /\ Now([slots EXCEPT ![s] = entry])
      /\ UNCHANGED <<server, settings>> /\ strangers' \subseteq strangers
  BY DEF ClientLeaves, runVars
<1>3. /\ Fields \subseteq DOMAIN entry
      /\ entry.at = IF old.at = "reading" THEN "ended" ELSE old.at
      /\ entry.runtime = old.runtime
      /\ entry.request = old.request /\ entry.status = old.status
      /\ entry.open \in BOOLEAN /\ entry.awaited \in BOOLEAN
      /\ entry.cleanup = "none" <=> old.cleanup = "none"
  BY <1>1, StartedIsSame DEF Fields, Vetted
<1> HIDE DEF entry
<1>4. Vetted(server, entry)
  BY <1>1, <1>3, SameIsVetted
<1> QED
  BY <1>2, <1>4, ReplacedIsGuarded

LEMMA ReceiveIsGuarded ==
  ASSUME Guarded, NEW w \in Workers, Receive(w)
  PROVE  Guarded'
PROOF
<1> DEFINE s     == workers[w].slot
           entry == [slots[s] EXCEPT !.awaited = FALSE]
<1>1. /\ Now([slots EXCEPT ![s] = entry])
      /\ UNCHANGED <<server, settings>> /\ strangers' \subseteq strangers
  BY DEF Receive
<1>2. CASE s \in Slots
  <2>1. Vetted(server, slots[s]) /\ Fields \subseteq DOMAIN slots[s]
    BY <1>2 DEF Guarded, Vetted
  <2>2. /\ Fields \subseteq DOMAIN entry
        /\ entry.at = slots[s].at /\ entry.runtime = slots[s].runtime
        /\ entry.request = slots[s].request /\ entry.status = slots[s].status
        /\ entry.open \in BOOLEAN /\ entry.awaited \in BOOLEAN
        /\ entry.cleanup = slots[s].cleanup
    BY <2>1 DEF Fields, Vetted
  <2> HIDE DEF entry, s
  <2>3. Vetted(server, entry)
    BY <2>1, <2>2, SameIsVetted
  <2> QED
    BY <1>1, <1>2, <2>3, ReplacedIsGuarded
<1>3. CASE s \notin Slots
  <2>1. slots = [t \in Slots |-> slots[t]]
    BY DEF Guarded
  <2>2. [slots EXCEPT ![s] = entry] = slots
    BY <1>3, <2>1
  <2>3. slots' = [t \in Slots |-> IF Over(slots[t]) THEN Free ELSE slots[t]]
    BY <1>1, <2>2 DEF Now
  <2>4. \A t \in Slots : Vetted(server, slots'[t])
    BY <2>3, FreeIsVetted DEF Guarded
  <2>5. slots' = [t \in Slots |-> slots'[t]]
    BY <2>3
  <2> QED
    BY <1>1, <2>4, <2>5 DEF Guarded
<1> QED
  BY <1>2, <1>3

\* At first the slots are free, and the server has the settings that were accepted.
LEMMA InitIsGuarded == Init => Guarded
PROOF
<1> SUFFICES ASSUME Init
             PROVE  Guarded
  OBVIOUS
<1>1. PICK case \in IF topic = "policy" THEN PolicyCases
                    ELSE {[settings |-> LocalServer, request |-> None]} :
        /\ settings = case.settings
        /\ InitServer(case.settings)
        /\ strangers = CASE topic = "policy" -> {case.request}
                         [] topic = "traffic" -> Traffic
                         [] topic \in {"run", "report"} -> {}
  BY DEF Init
<1>2. /\ server = IF SettingsAccepted(settings) THEN ServerOf(settings) ELSE None
      /\ slots = [s \in Slots |-> Free]
  BY <1>1 DEF InitServer
<1>3. \A r \in strangers : IsRequest(r)
  <2>1. CASE topic = "policy"
    <3>1. case \in PolicyCases /\ strangers = {case.request}
      BY <1>1, <2>1
    <3> QED
      BY <3>1, RequestsAssumption
  <2>2. CASE topic = "traffic"
    <3>1. strangers = Traffic
      BY <1>1, <2>2
    <3> QED
      BY <3>1, RequestsAssumption
  <2>3. CASE topic \in {"run", "report"}
    BY <1>1, <2>3
  <2> QED
    BY <2>1, <2>2, <2>3 DEF Init
<1> QED
  BY <1>2, <1>3, FreeIsVetted DEF Guarded

LEMMA NextIsGuarded ==
  ASSUME Guarded, [Next]_vars
  PROVE  Guarded'
PROOF
<1>1. ASSUME NEW w \in Workers, Send(w)
      PROVE  Guarded'
  <2>1. PICK s \in FreeSlots :
          Arrive(s, [Request EXCEPT !.rpc = Steps[workers[w].step]], TRUE)
    BY <1>1 DEF Send
  <2> DEFINE request == [Request EXCEPT !.rpc = Steps[workers[w].step]]
  <2>2. IsRequest(request)
    BY RequestsAssumption DEF IsRequest
  <2>3. settings' = settings /\ strangers' \subseteq strangers /\ s \in Slots
    BY <1>1 DEF Send, FreeSlots
  <2> HIDE DEF request
  <2>4. Arrive(s, request, TRUE)
    BY <2>1 DEF request
  <2> QED
    BY <2>2, <2>3, <2>4, ArriveIsGuarded
<1>2. ASSUME NEW w \in Workers, Receive(w)
      PROVE  Guarded'
  BY <1>2, ReceiveIsGuarded
<1>3. CASE \E w \in Workers : Refused(w) \/ ProbeEnds(w) \/ ProbeThrows(w)
  BY <1>3 DEF Refused, ProbeEnds, ProbeThrows, serverVars, Guarded
<1>4. ASSUME NEW r \in strangers, StrangerSends(r)
      PROVE  Guarded'
  <2>1. PICK s \in FreeSlots : Arrive(s, r, FALSE)
    BY <1>4 DEF StrangerSends
  <2>2. settings' = settings /\ strangers' \subseteq strangers /\ s \in Slots /\ IsRequest(r)
    BY <1>4 DEF StrangerSends, FreeSlots, Guarded
  <2> QED
    BY <2>1, <2>2, ArriveIsGuarded
<1>5. CASE ServerNext
  <2>1. CASE \E s \in Slots : ServerStep(s)
    BY <1>5, <2>1, ServerStepIsGuarded DEF ServerNext
  <2>2. CASE \E s \in Slots : ClientLeaves(s)
    BY <1>5, <2>2, ClientLeavesIsGuarded DEF ServerNext
  <2>3. CASE Close \/ ServerClosed
    BY <1>5, <2>3 DEF ServerNext, Close, ServerClosed, Guarded, runVars
  <2> QED
    BY <1>5, <2>1, <2>2, <2>3 DEF ServerNext
<1>6. CASE UNCHANGED vars
  BY <1>6 DEF vars, serverVars, runVars, Guarded
<1> QED
  BY <1>1, <1>2, <1>3, <1>4, <1>5, <1>6 DEF Next

\* The guard and the policy say the same of any request, but for the two exceptions
\* that CopiesAgree names, and so does the log once the body is read; until then it
\* asks for more.
LEMMA CopiesOfTheRules ==
  ASSUME NEW config, config.auth = "oauth", NEW read,
         NEW r, IsRequest(r), r.path \in {"mcp", "resource"}
  PROVE  LET protected == LoggedAsProtected(config, r, MethodLogged(r, read)) IN
         /\ PassesWithoutToken(r) => Admission(r) = "allow_public" \/ r.bearer = "basic"
         /\ Admission(r) = "allow_public" /\ r.method = "POST" => PassesWithoutToken(r)
         /\ ~protected => PassesWithoutToken(r) \/ IsBearer(r) \/ r.assertion
         /\ read /\ PassesWithoutToken(r) => ~protected
PROOF
<1> DEFINE protected == LoggedAsProtected(config, r, MethodLogged(r, read))
<1>1. None \notin Bootstrap \cup {"live", "dead"}
  BY NoneAssumption
<1>2. PassesWithoutToken(r) => Admission(r) = "allow_public" \/ r.bearer = "basic"
  <2>1. ASSUME PassesWithoutToken(r)
        PROVE  r.path = "mcp" /\ r.method = "POST" /\ r.rpc \in Bootstrap /\ ~r.assertion
    BY <1>1, <2>1 DEF PassesWithoutToken, GuardedMethod
  <2>2. ~IsBearer(r) => r.bearer = None \/ r.bearer = "basic"
    BY DEF IsBearer, IsRequest
  <2> QED
    BY <2>1, <2>2 DEF Admission, PassesWithoutToken
<1>3. Admission(r) = "allow_public" /\ r.method = "POST" => PassesWithoutToken(r)
  <2>1. CASE r.path = "resource"
    BY <2>1 DEF Admission
  <2>2. CASE r.path = "mcp"
    <3>1. ASSUME Admission(r) = "allow_public", r.method = "POST"
          PROVE  ~r.assertion /\ r.bearer = None /\ r.rpc \in Bootstrap
      BY <2>2, <3>1 DEF Admission, IsRequest
    <3> QED
      BY <1>1, <2>2, <3>1 DEF PassesWithoutToken, GuardedMethod, IsBearer
  <2> QED
    BY <2>1, <2>2
<1>4. protected <=> r.path = "resource" \/ MethodLogged(r, read) \notin Bootstrap
  BY DEF LoggedAsProtected
<1>5. ~protected => PassesWithoutToken(r) \/ IsBearer(r) \/ r.assertion
  BY <1>1, <1>4 DEF MethodLogged, PassesWithoutToken
<1>6. read /\ PassesWithoutToken(r) => ~protected
  BY <1>1, <1>4 DEF MethodLogged, PassesWithoutToken, GuardedMethod
<1> QED
  BY <1>2, <1>3, <1>5, <1>6

\* What the invariant gives.
LEMMA GuardedIsOne == Guarded => AdmissionIsOne
PROOF
<1> SUFFICES ASSUME Guarded
             PROVE  AdmissionIsOne
  OBVIOUS
<1>1. AdmittedOnlyWithToken
  <2>1. ASSUME NEW s \in Slots, server.auth = "oauth",
               \/ slots[s].runtime # 0
               \/ slots[s].status = "200" /\ slots[s].request.path = "resource"
        PROVE  LetIn(server, slots[s].request) /\ Admits(slots[s].request)
    <3>1. Vetted(server, slots[s]) /\ None # "200"
      BY NoneAssumption DEF Guarded, Statuses
    <3>2. slots[s].at # "free" /\ slots[s].status # "403"
      BY <2>1, <3>1 DEF Vetted
    <3> QED
      BY <2>1, <3>1, <3>2 DEF Vetted
  <2> QED
    BY <2>1 DEF AdmittedOnlyWithToken, LetIn, Admits
<1>2. CopiesAgree
  <2>1. ASSUME NEW s \in Slots, slots[s].request # None
        PROVE  IsRequest(slots[s].request)
    BY <2>1 DEF Guarded, Vetted
  <2> QED
    BY <2>1, CopiesOfTheRules DEF CopiesAgree
<1> QED
  BY <1>1, <1>2 DEF AdmissionIsOne

LEMMA GuardedFailsClosed == Guarded => SettingsFailClosed
PROOF
<1> SUFFICES ASSUME Guarded, server # None
             PROVE  /\ settings.legacy = "oauth"
                         \/ settings.deployment \in {"oauth-single-tenant", "oauth-hardened"}
                       => server.auth = "oauth" /\ settings.transport = "http"
                    /\ server.deployment = "oauth-hardened" =>
                         \A s \in Slots :
                           LET r == slots[s].request IN
                           /\ slots[s].status \notin {None, "403"}
                           /\ r.origin \notin {None, "null"} \cup settings.origins \cup {"public"}
                           => r.origin = "local" /\ RequestHostName(r) = "local"
  BY DEF SettingsFailClosed
<1>1. server = ServerOf(settings) /\ SettingsAccepted(settings)
  BY DEF Guarded
<1>2. None \notin Deployments
  BY NoneAssumption
<1>3. settings.legacy = "oauth" \/ settings.deployment \in {"oauth-single-tenant", "oauth-hardened"}
        => server.auth = "oauth" /\ settings.transport = "http"
  <2>1. Deployment(settings) # None
    BY <1>1 DEF SettingsAccepted, AuthAccepted
  <2>2. settings.legacy \in {None, "none", "oauth"}
    BY <2>1 DEF Deployment
  <2>3. CASE settings.deployment = None
    <3>1. Deployment(settings) =
            IF settings.legacy = "oauth" THEN "oauth-single-tenant" ELSE "authless"
      BY <2>2, <2>3 DEF Deployment
    <3>2. settings.deployment \notin {"oauth-single-tenant", "oauth-hardened"}
      BY <1>2, <2>3 DEF Deployments
    <3>3. settings.legacy = "oauth" => WantsOAuth(settings)
      BY <2>1, <3>1 DEF WantsOAuth
    <3> QED
      BY <1>1, <3>2, <3>3 DEF ServerOf, SettingsAccepted
  <2>4. CASE settings.deployment # None
    <3>1. Deployment(settings) =
            IF \/ settings.deployment \notin Deployments
               \/ settings.legacy = "oauth" /\ settings.deployment = "authless"
               \/ settings.legacy = "none" /\ settings.deployment # "authless"
            THEN None ELSE settings.deployment
      BY <2>2, <2>4 DEF Deployment
    <3>2. (\/ settings.legacy = "oauth"
           \/ settings.deployment \in {"oauth-single-tenant", "oauth-hardened"})
            => WantsOAuth(settings)
      BY <2>1, <3>1 DEF WantsOAuth
    <3> QED
      BY <1>1, <3>2 DEF ServerOf, SettingsAccepted
  <2> QED
    BY <2>3, <2>4
<1>4. ASSUME server.deployment = "oauth-hardened", NEW s \in Slots,
             slots[s].status \notin {None, "403"},
             slots[s].request.origin \notin {None, "null"} \cup settings.origins \cup {"public"}
      PROVE  slots[s].request.origin = "local" /\ RequestHostName(slots[s].request) = "local"
  <2> DEFINE r == slots[s].request
  <2>1. OriginAccepted(server, r)
    BY <1>4 DEF Guarded, Vetted, LetIn
  <2> HIDE DEF r
  <2>2. r.origin \notin {None, "null"} /\ r.origin \notin server.origins
    BY <1>1, <1>4 DEF r, ServerOf
  <2>3. r.origin # "garbled"
    BY <2>1, <2>2 DEF OriginAccepted
  <2>4. OriginListed(server, r)
    BY <2>1, <2>2, <2>3 DEF OriginAccepted
  <2>5. {RequestHostName(r), r.origin} = {"local"}
    BY <2>2, <2>4 DEF OriginListed
  <2> QED
    BY <2>5 DEF r
<1> QED
  BY <1>3, <1>4

\* A tool runs, or a document of a tool is shown, with a live token only, or for a
\* bootstrap method that guard and policy let in; a POST with an Authorization header
\* of another scheme passes the guard alone, methods other than POST the policy
\* alone, and the log knows no method until the body is read (routes.ts 263-307,
\* authAdmissionPolicy.ts 84-115, httpTransport.ts 954-968).
THEOREM AdmissionHolds == Spec => []AdmissionIsOne
PROOF
<1>1. Guarded /\ [Next]_vars => Guarded'
  BY NextIsGuarded
<1> QED
  BY InitIsGuarded, <1>1, GuardedIsOne, PTL DEF Spec

\* Settings that ask for OAuth start a server with OAuth or none, and a hardened one
\* answers no page of an origin that is neither listed nor its own (runtimeConfig.ts
\* 295-343, 469-505, originPolicy.ts 34-85).
THEOREM SettingsHold == Spec => []SettingsFailClosed
PROOF
<1>1. Guarded /\ [Next]_vars => Guarded'
  BY NextIsGuarded
<1> QED
  BY InitIsGuarded, <1>1, GuardedFailsClosed, PTL DEF Spec

-----------------------------------------------------------------------------
(***************************************************************************)
(* The size of the pool.                                                   *)
(***************************************************************************)

\* The pool grows only when every runtime is held, or a failure is counted.
Peaked ==
  /\ listening \in {"open", "closing", "stopped"}
  /\ peak \in Nat /\ peak <= Cardinality(Slots)
  /\ faults \in Nat /\ faults <= MaxFaults
  /\ Len(pool) <= peak + faults

\* There are at most as many holders as slots.
LEMMA HoldersAreFinite ==
  ASSUME NEW requests
  PROVE  /\ IsFiniteSet(Holders(requests))
         /\ Cardinality(Holders(requests)) \in Nat
         /\ Cardinality(Slots) \in Nat
         /\ Cardinality(Holders(requests)) <= Cardinality(Slots)
PROOF
<1>1. Holders(requests) \subseteq Slots
  BY DEF Holders
<1> QED
  BY <1>1, SlotsAssumption, FS_Subset, FS_CardinalityType

\* The peak does not fall, and is at least what is held now.
LEMMA PeakGrows ==
  ASSUME Peaked, NEW requests, Now(requests)
  PROVE  /\ peak' \in Nat
         /\ peak <= peak'
         /\ peak' <= Cardinality(Slots)
         /\ Cardinality(Holders(slots')) <= peak'
PROOF
<1>1. Holders(slots') = Holders(requests)
  <2>1. \A s \in Slots :
          slots'[s] = IF Over(requests[s]) THEN Free ELSE requests[s]
    BY DEF Now
  <2>2. Free.cleanup = "none"
    BY DEF Free
  <2>3. \A s \in Slots :
          Over(requests[s]) => requests[s].cleanup \notin {"armed", "event", "handler"}
    BY DEF Over
  <2> QED
    BY <2>1, <2>2, <2>3 DEF Holders
<1> DEFINE n == Cardinality(Holders(requests))
<1>2. n \in Nat /\ n <= Cardinality(Slots) /\ Cardinality(Slots) \in Nat
  BY HoldersAreFinite
<1>3. peak' = MaxOf(peak, n)
  BY DEF Now
<1> HIDE DEF n
<1>4. peak' = IF peak < n THEN n ELSE peak
  BY <1>3 DEF MaxOf
<1>5. peak' \in Nat /\ peak <= peak' /\ peak' <= Cardinality(Slots) /\ n <= peak'
  BY <1>2, <1>4 DEF Peaked
<1> QED
  BY <1>1, <1>5 DEF n

\* As many requests hold a runtime as there are, if every one is busy.
LEMMA BusyAreHeld ==
  ASSUME NEW requests, NEW runtimes, Sound(requests, runtimes),
         \A i \in 1 .. Len(runtimes) : runtimes[i].busy
  PROVE  Len(runtimes) <= Cardinality(Holders(requests))
PROOF
<1> DEFINE n == Len(runtimes)
           holder == [i \in 1 .. n |->
             CHOOSE s \in Slots : Holds(requests[s]) /\ requests[s].runtime = i]
<1>1. n \in Nat
  BY DEF Sound, OneByOne
<1>2. \A i \in 1 .. n :
        holder[i] \in Slots /\ Holds(requests[holder[i]]) /\ requests[holder[i]].runtime = i
  BY DEF Sound, Together
<1> HIDE DEF holder
<1>3. holder \in [1 .. n -> Holders(requests)]
  BY <1>2 DEF holder, Holders, Holds
<1>4. \A i, j \in 1 .. n : holder[i] = holder[j] => i = j
  BY <1>2
<1>5. holder \in Injection(1 .. n, Holders(requests))
  BY <1>3, <1>4 DEF Injection, IsInjective
<1>6. IsFiniteSet(1 .. n) /\ Cardinality(1 .. n) = n
  BY <1>1, FS_Interval
<1> QED
  BY <1>5, <1>6, HoldersAreFinite, FS_Injection

\* A step that creates no runtime.
LEMMA NoNewKeepsPeaked ==
  ASSUME Peaked, NEW requests, Now(requests), Len(pool') = Len(pool), listening' = listening,
         faults' = faults \/ Fault
  PROVE  Peaked'
PROOF
<1>1. /\ peak' \in Nat /\ peak <= peak' /\ peak' <= Cardinality(Slots)
  BY PeakGrows
<1>2. faults' \in Nat /\ faults <= faults' /\ faults' <= MaxFaults
  BY MaxFaultsAssumption DEF Fault, Peaked
<1>3. Len(pool') <= peak' + faults'
  BY <1>1, <1>2 DEF Peaked
<1> QED
  BY <1>1, <1>2, <1>3 DEF Peaked

\* Taking a runtime makes the pool longer by one if it is a new one.
LEMMA LengthWithRuntime ==
  ASSUME NEW runtimes \in Seq(Runtimes), NEW i \in 1 .. Len(runtimes) + 1,
         NEW busy \in BOOLEAN, NEW attached
  PROVE  Len(WithRuntime(runtimes, i, busy, attached)) =
           IF i = Len(runtimes) + 1 THEN i ELSE Len(runtimes)
PROOF
<1>1. MaxOf(i, Len(runtimes)) \in Nat
      /\ MaxOf(i, Len(runtimes)) = IF i = Len(runtimes) + 1 THEN i ELSE Len(runtimes)
  BY DEF MaxOf
<1> QED
  BY <1>1 DEF WithRuntime

\* A new runtime is created when all are busy.
LEMMA DispatchKeepsPeaked ==
  ASSUME Inv, Inv', Peaked, NEW s \in Slots, Dispatch(s)
  PROVE  Peaked'
PROOF
<1>1. PICK i \in 1 .. Len(pool) + 1 :
        /\ IsAcquired(i, pool)
        /\ Now([slots EXCEPT ![s] =
             [@ EXCEPT !.at = "handling", !.runtime = i, !.cleanup = "armed"]])
        /\ pool' = WithRuntime(pool, i, TRUE, s)
  BY DEF Dispatch
<1>2. pool \in Seq(Runtimes) /\ pool' \in Seq(Runtimes)
  BY DEF Inv, Sound, OneByOne
<1>3. Len(pool') = IF i = Len(pool) + 1 THEN i ELSE Len(pool)
  <2>1. Len(WithRuntime(pool, i, TRUE, s)) = IF i = Len(pool) + 1 THEN i ELSE Len(pool)
    BY <1>2, LengthWithRuntime
  <2> QED
    BY <1>1, <2>1
<1>4. UNCHANGED <<listening, faults>>
  BY DEF Dispatch
<1>5. CASE i # Len(pool) + 1
  BY <1>1, <1>3, <1>4, <1>5, NoNewKeepsPeaked
<1>6. CASE i = Len(pool) + 1
  <2>1. \A j \in 1 .. Len(pool) : pool[j].busy
    <3>1. Idle(pool) = {}
      BY <1>1, <1>2, <1>6 DEF IsAcquired, Idle
    <3> QED
      BY <1>2, <3>1 DEF Idle
  <2>2. \A j \in 1 .. Len(pool') : pool'[j].busy
    <3>1. Replaced(pool', pool, i, TRUE, s)
      BY <1>1, <1>2, WithRuntimeReplaces
    <3> QED
      BY <2>1, <3>1 DEF Replaced
  <2>3. Len(pool') <= Cardinality(Holders(slots'))
    BY <2>2, BusyAreHeld DEF Inv
  <2>4. /\ peak' \in Nat /\ peak' <= Cardinality(Slots)
        /\ Cardinality(Holders(slots')) <= peak'
    BY <1>1, PeakGrows
  <2>5. Cardinality(Holders(slots')) \in Nat /\ Len(pool') \in Nat
    BY <1>2, HoldersAreFinite
  <2>6. Len(pool') <= peak' + faults'
    BY <1>4, <2>3, <2>4, <2>5 DEF Peaked
  <2> QED
    BY <1>4, <2>4, <2>6 DEF Peaked
<1> QED
  BY <1>5, <1>6

\* A cleanup neither creates nor removes a runtime.
LEMMA StartKeepsLength ==
  ASSUME Inv, NEW s \in Slots
  PROVE  Len(PoolAfterStart(s)) = Len(pool)
PROOF
<1>1. pool \in Seq(Runtimes)
  BY DEF Inv, Sound, OneByOne
<1>2. Len(Detached(pool, Runtime(s))) = Len(pool)
  BY <1>1 DEF Detached
<1> QED
  BY <1>2 DEF PoolAfterStart

LEMMA ServerStepKeepsPeaked ==
  ASSUME Inv, Inv', Peaked, NEW s \in Slots, ServerStep(s)
  PROVE  Peaked'
PROOF
<1>1. pool \in Seq(Runtimes)
  BY DEF Inv, Sound, OneByOne
<1>2. CASE Rejected(s)
  BY <1>2, NoNewKeepsPeaked DEF Rejected
<1>3. CASE Dispatch(s)
  BY <1>3, DispatchKeepsPeaked
<1>4. ASSUME NEW created \in BOOLEAN, DispatchFails(s, created)
      PROVE  Peaked'
  <2>1. PICK i \in 1 .. Len(pool) + 1 :
          pool' = IF created THEN WithRuntime(pool, i, FALSE, None) ELSE pool
    BY <1>4 DEF DispatchFails
  <2>2. Len(pool') \in Nat /\ Len(pool') <= Len(pool) + 1
    <3>1. Len(WithRuntime(pool, i, FALSE, None)) =
            IF i = Len(pool) + 1 THEN i ELSE Len(pool)
      BY <1>1, LengthWithRuntime
    <3>2. \/ Len(pool') = Len(WithRuntime(pool, i, FALSE, None))
          \/ Len(pool') = Len(pool)
      BY <2>1
    <3>3. Len(pool) \in Nat /\ i \in Nat /\ i <= Len(pool) + 1
      BY <1>1
    <3> DEFINE more == WithRuntime(pool, i, FALSE, None)
    <3>4. Len(more) \in Nat /\ Len(more) <= Len(pool) + 1
      <4>1. CASE i = Len(pool) + 1
        BY <3>1, <3>3, <4>1
      <4>2. CASE i # Len(pool) + 1
        <5>1. Len(more) = Len(pool)
          BY <3>1, <4>2
        <5> HIDE DEF more
        <5> QED
          BY <3>3, <5>1
      <4> QED
        BY <4>1, <4>2
    <3> HIDE DEF more
    <3>5. CASE Len(pool') = Len(more)
      BY <3>4, <3>5
    <3>6. CASE Len(pool') = Len(pool)
      BY <3>3, <3>6
    <3> QED
      BY <3>2, <3>5, <3>6 DEF more
  <2>3. Now([slots EXCEPT ![s] = Answered(@, "500")]) /\ Fault /\ listening' = listening
    BY <1>4 DEF DispatchFails
  <2>4. peak' \in Nat /\ peak <= peak' /\ peak' <= Cardinality(Slots)
    BY <2>3, PeakGrows
  <2>5. faults' \in Nat /\ faults' = faults + 1 /\ faults' <= MaxFaults
    BY <2>3, MaxFaultsAssumption DEF Fault, Peaked
  <2>6. Len(pool') <= peak' + faults'
    BY <1>1, <2>2, <2>4, <2>5 DEF Peaked
  <2> QED
    BY <2>3, <2>4, <2>5, <2>6 DEF Peaked
<1>5. CASE ToolAnswers(s)
  BY <1>5, NoNewKeepsPeaked DEF ToolAnswers
<1>6. CASE HandlerThrows(s)
  <2>1. Len(pool') = Len(pool)
    BY <1>6, StartKeepsLength DEF HandlerThrows
  <2> QED
    BY <1>6, <2>1, NoNewKeepsPeaked DEF HandlerThrows
<1>7. CASE HandlerFails(s)
  BY <1>7, NoNewKeepsPeaked DEF HandlerFails
<1>8. CASE CloseEvent(s)
  <2>1. Len(pool') = Len(pool)
    BY <1>8, StartKeepsLength DEF CloseEvent
  <2> QED
    BY <1>8, <2>1, NoNewKeepsPeaked DEF CloseEvent
<1>9. CASE CleanupEnds(s)
  <2>1. Len(pool') = Len(pool)
    BY <1>1, <1>9 DEF CleanupEnds, Released
  <2> QED
    BY <1>9, <2>1, NoNewKeepsPeaked DEF CleanupEnds
<1> QED
  BY <1>2, <1>3, <1>4, <1>5, <1>6, <1>7, <1>8, <1>9 DEF ServerStep

\* No other step creates one.
LEMMA NextKeepsPeaked ==
  ASSUME Inv, Inv', Peaked, [Next]_vars
  PROVE  Peaked'
PROOF
<1>1. pool \in Seq(Runtimes)
  BY DEF Inv, Sound, OneByOne
<1>2. CASE \E w \in Workers : Send(w)
  BY <1>2, NoNewKeepsPeaked DEF Send, Arrive
<1>3. CASE \E w \in Workers : Receive(w)
  BY <1>3, NoNewKeepsPeaked DEF Receive
<1>4. CASE \E w \in Workers : Refused(w) \/ ProbeEnds(w)
  BY <1>4 DEF Refused, ProbeEnds, serverVars, Peaked
<1>5. CASE \E w \in Workers : ProbeThrows(w)
  <2>1. /\ Fault /\ UNCHANGED <<listening, pool, peak>>
    BY <1>5 DEF ProbeThrows
  <2>2. faults' \in Nat /\ faults' = faults + 1 /\ faults' <= MaxFaults
    BY <2>1, MaxFaultsAssumption DEF Fault, Peaked
  <2>3. Len(pool') <= peak' + faults'
    BY <1>1, <2>1, <2>2 DEF Peaked
  <2> QED
    BY <2>1, <2>2, <2>3 DEF Peaked
<1>6. CASE \E r \in strangers : StrangerSends(r)
  BY <1>6, NoNewKeepsPeaked DEF StrangerSends, Arrive
<1>7. CASE ServerNext
  <2>1. CASE \E s \in Slots : ServerStep(s)
    BY <2>1, ServerStepKeepsPeaked
  <2>2. ASSUME NEW s \in Slots, ClientLeaves(s)
        PROVE  Peaked'
    <3>1. Len(pool') = Len(pool)
      BY <2>2, StartKeepsLength DEF ClientLeaves
    <3> QED
      BY <2>2, <3>1, NoNewKeepsPeaked DEF ClientLeaves
  <2>3. CASE Close
    BY <2>3 DEF Close, Peaked
  <2>4. CASE ServerClosed
    <3>1. Len(pool') = Len(pool)
      BY <1>1, <2>4 DEF ServerClosed
    <3> QED
      BY <2>4, <3>1 DEF ServerClosed, Peaked
  <2> QED
    BY <1>7, <2>1, <2>2, <2>3, <2>4 DEF ServerNext
<1>8. CASE UNCHANGED vars
  BY <1>8 DEF vars, serverVars, Peaked
<1> QED
  BY <1>2, <1>3, <1>4, <1>5, <1>6, <1>7, <1>8 DEF Next

LEMMA InitIsPeaked == Init => Peaked
PROOF
<1>1. Cardinality(Slots) \in Nat
  BY SlotsAssumption, FS_CardinalityType
<1> QED
  BY <1>1, MaxFaultsAssumption DEF Init, InitServer, Peaked

\* The three invariants give the types of the server and the bound on its pool.
LEMMA ServerIsTyped ==
  ASSUME Inv, Guarded, Peaked
  PROVE  ServerTypeOK /\ PoolIsPeak
PROOF
<1>1. pool \in Seq(Runtimes) /\ DOMAIN pool = 1 .. Len(pool)
  BY DEF Inv, Sound, OneByOne
<1>2. ASSUME NEW s \in Slots
      PROVE  /\ slots[s].at \in {"free", "reading", "handling", "failing", "ended"}
             /\ slots[s].status \in Statuses \cup {None}
             /\ {slots[s].open, slots[s].awaited} \subseteq BOOLEAN
             /\ slots[s].cleanup \in {"none", "armed", "event", "handler", "done"}
             /\ slots[s].runtime \in {0} \cup DOMAIN pool
             /\ slots[s].cleanup = "none" <=> slots[s].runtime = 0
  <2>1. Vetted(server, slots[s])
    BY DEF Guarded
  <2>2. /\ slots[s].cleanup \in {"none", "armed", "event", "handler", "done"}
        /\ slots[s].cleanup # "none" => slots[s].runtime \in DOMAIN pool
    BY <1>1 DEF Inv, Sound, OneByOne
  <2> QED
    BY <2>1, <2>2 DEF Vetted
<1>3. peak \in 0 .. Cardinality(Slots) /\ faults \in 0 .. MaxFaults
  BY SlotsAssumption, MaxFaultsAssumption, FS_CardinalityType DEF Peaked
<1> QED
  BY <1>1, <1>2, <1>3 DEF ServerTypeOK, PoolIsPeak, Peaked, Runtimes
=============================================================================
