------------------------- MODULE RateLimiterProofs -------------------------
(***************************************************************************)
(* For every limit, window and number of overlapping calls and retries: no *)
(* task sleeps longer than it has to, and the calls of one access token    *)
(* stay within its window. With two tokens they do not, as TLC shows.      *)
(***************************************************************************)
EXTENDS RateLimiter, SequenceTheorems, WellFoundedInduction, TLAPS

Ages == 0 .. Window

Descends(ages) == \A i, j \in DOMAIN ages : i <= j => ages[i] >= ages[j]

\* A caller that waits is in its queue, at the head if it sleeps.
InLine(c) ==
  LET o == callers[c].object IN
  /\ callers[c].at \in {"queued", "sleeping"} =>
       \E i \in DOMAIN queue[o] : queue[o][i] = c
  /\ callers[c].at = "sleeping" => Head(queue[o]) = c

Typed ==
  /\ states \in [Keys -> Objects \cup {None}]
  /\ timestamps \in [Objects -> Seq(Ages)]
  /\ queue \in [Objects -> Seq(Callers)]
  /\ callers \in [Callers -> CallerStates]
  /\ sent \in [Keys -> Seq(0 .. Window - 1)]

\* What holds with any number of tokens.
Sound ==
  /\ Typed
  /\ \A o \in Objects : Descends(timestamps[o])
  /\ \A k \in Keys : Descends(sent[k])
  /\ \A c \in Callers : InLine(c)
  /\ NeverOversleeps

\* The calls of this process use one access token.
OneToken == \A j, k \in Keys : j = k

\* The state of the token holds what was sent within the window, and possibly
\* older timestamps in front of it. States outside the map hold nothing.
WindowIsKept ==
  /\ \A o \in Objects : ~Mapped(states, o) => timestamps[o] = <<>>
  /\ \A k \in Keys :
       sent[k] = IF states[k] = None THEN <<>> ELSE InWindow(timestamps[states[k]])

\* A caller that was admitted has just left its timestamp, so it has nothing to
\* evict.
NewestIsFresh ==
  \A c \in Callers : callers[c].at = "admitted" =>
    LET ages == timestamps[callers[c].object] IN
    ages # <<>> /\ ages[Len(ages)] = 0

\* What holds with one token.
Inv ==
  /\ OneToken
  /\ Sound
  /\ QueuesAreInTheMap
  /\ WindowIsKept
  /\ NewestIsFresh
  /\ WindowBound

\* The assumptions about the constants, one by one.
LEMMA Numbers ==
  /\ MaxRequests \in Nat \ {0}
  /\ Window \in Nat \ {0}
  /\ RetryLimit \in Nat
  /\ None \notin Objects
BY LimiterAssumption

\* Nothing is left of nothing.
LEMMA EmptyWindow == InWindow(<<>>) = <<>>
PROOF
<1>1. {i \in DOMAIN <<>> : <<>>[i] < Window} = {}
  OBVIOUS
<1> QED
  BY <1>1 DEF InWindow

-----------------------------------------------------------------------------
(***************************************************************************)
(* What pruning leaves.                                                    *)
(***************************************************************************)

\* Min yields the least element of a set of naturals.
LEMMA LeastOfNats ==
  ASSUME NEW T \in SUBSET Nat, T # {}
  PROVE  Min(T) \in T /\ \A y \in T : Min(T) <= y
PROOF
<1> DEFINE less == {p \in Nat \X Nat : p[1] < p[2]}
<1>1. IsWellFoundedOn(less, Nat)
  BY NatLessThanWellFounded, Zenon DEF OpToRel
<1> HIDE DEF less
<1>2. PICK x \in T : \A y \in T : <<y, x>> \notin less
  BY <1>1, WFMin
<1>3. \A y \in T : x <= y
  <2> TAKE y \in T
  <2>1. <<y, x>> \in Nat \X Nat /\ ~(y < x)
    BY <1>2 DEF less
  <2> QED
    BY <2>1
<1> QED
  BY <1>3 DEF Min

\* The first age within the window is where the rest begins.
LEMMA FirstFresh ==
  ASSUME NEW ages \in Seq(Nat), NEW m \in 1 .. Len(ages),
         ages[m] < Window, \A i \in 1 .. m - 1 : ages[i] >= Window
  PROVE  InWindow(ages) = SubSeq(ages, m, Len(ages))
PROOF
<1> DEFINE fresh == {i \in DOMAIN ages : ages[i] < Window}
<1>1. /\ DOMAIN ages = 1 .. Len(ages)
      /\ \A i \in 1 .. Len(ages) : ages[i] \in Nat
      /\ Window \in Nat
  BY LenProperties, ElementOfSeq, Numbers
<1>2. fresh \in SUBSET Nat /\ m \in fresh /\ \A i \in fresh : m <= i
  BY <1>1
<1> HIDE DEF fresh
<1>3. Min(fresh) \in fresh /\ \A i \in fresh : Min(fresh) <= i
  BY <1>2, LeastOfNats
<1>4. Min(fresh) = m
  <2>1. Min(fresh) <= m /\ m <= Min(fresh)
    BY <1>2, <1>3
  <2>2. Min(fresh) \in Nat /\ m \in Nat
    BY <1>2, <1>3
  <2> QED
    BY <2>1, <2>2
<1> QED
  BY <1>2, <1>4 DEF InWindow, fresh

\* Either every age has expired and nothing is left, or there is such a first age.
LEMMA WindowCases ==
  ASSUME NEW ages \in Seq(Nat)
  PROVE  \/ /\ \A i \in 1 .. Len(ages) : ages[i] >= Window
            /\ InWindow(ages) = <<>>
         \/ \E m \in 1 .. Len(ages) :
              /\ ages[m] < Window
              /\ \A i \in 1 .. m - 1 : ages[i] >= Window
              /\ InWindow(ages) = SubSeq(ages, m, Len(ages))
PROOF
<1> DEFINE fresh == {i \in DOMAIN ages : ages[i] < Window}
<1>1. /\ DOMAIN ages = 1 .. Len(ages)
      /\ \A i \in 1 .. Len(ages) : ages[i] \in Nat
      /\ Window \in Nat
  BY LenProperties, ElementOfSeq, Numbers
<1>2. CASE fresh = {}
  <2>1. \A i \in 1 .. Len(ages) : ages[i] >= Window
    BY <1>1, <1>2
  <2>2. InWindow(ages) = <<>>
    BY <1>2 DEF InWindow
  <2> QED
    BY <2>1, <2>2
<1>3. CASE fresh # {}
  <2>1. fresh \in SUBSET Nat
    BY <1>1
  <2> HIDE DEF fresh
  <2>2. Min(fresh) \in fresh /\ \A i \in fresh : Min(fresh) <= i
    BY <1>3, <2>1, LeastOfNats
  <2>3. \A i \in 1 .. Min(fresh) - 1 : ages[i] >= Window
    <3> TAKE i \in 1 .. Min(fresh) - 1
    <3>1. Min(fresh) \in 1 .. Len(ages)
      BY <2>2, <1>1 DEF fresh
    <3>2. i \in 1 .. Len(ages) /\ i \notin fresh
      BY <3>1, <2>2
    <3> QED
      BY <3>2, <1>1 DEF fresh
  <2>4. InWindow(ages) = SubSeq(ages, Min(fresh), Len(ages))
    BY <1>3 DEF InWindow, fresh
  <2> QED
    BY <2>2, <2>3, <2>4, <1>1 DEF fresh
<1> QED
  BY <1>2, <1>3
-----------------------------------------------------------------------------
\* Nothing goes while the oldest age is within the window.
LEMMA AllFresh ==
  ASSUME NEW ages \in Seq(Nat), ages # <<>> => ages[1] < Window
  PROVE  InWindow(ages) = ages
PROOF
<1>1. CASE ages = <<>>
  <2>1. {i \in DOMAIN ages : ages[i] < Window} = {}
    BY <1>1
  <2> QED
    BY <1>1, <2>1 DEF InWindow
<1>2. CASE ages # <<>>
  <2>1. 1 \in 1 .. Len(ages)
    BY <1>2, EmptySeq
  <2>2. \A i \in 1 .. 1 - 1 : ages[i] >= Window
    OBVIOUS
  <2>3. InWindow(ages) = SubSeq(ages, 1, Len(ages))
    BY <1>2, <2>1, <2>2, FirstFresh
  <2>4. SubSeq(ages, 1, Len(ages)) = ages
    BY SubSeqFull
  <2> QED
    BY <2>3, <2>4
<1> QED
  BY <1>1, <1>2

\* Pruning leaves a sequence that is not longer.
LEMMA InWindowLen ==
  ASSUME NEW ages \in Seq(Nat)
  PROVE  InWindow(ages) \in Seq(Nat) /\ Len(InWindow(ages)) <= Len(ages)
PROOF
<1>1. /\ Len(ages) \in Nat
      /\ \A i \in 1 .. Len(ages) : ages[i] \in Nat
  BY LenProperties, ElementOfSeq
<1>2. CASE InWindow(ages) = <<>>
  BY <1>1, <1>2
<1>3. ASSUME NEW m \in 1 .. Len(ages), InWindow(ages) = SubSeq(ages, m, Len(ages))
      PROVE  InWindow(ages) \in Seq(Nat) /\ Len(InWindow(ages)) <= Len(ages)
  BY <1>1, <1>3, SubSeqProperties
<1> QED
  BY <1>2, <1>3, WindowCases

\* What pruning leaves of descending ages is in the window and still descends; it
\* has the newest age if that is fresh, and all of them if the oldest is.
LEMMA PruneKeeps ==
  ASSUME NEW ages \in Seq(Ages), Descends(ages)
  PROVE  LET kept == InWindow(ages) IN
         /\ kept \in Seq(0 .. Window - 1)
         /\ Descends(kept)
         /\ InWindow(kept) = kept
         /\ ages # <<>> /\ ages[Len(ages)] = 0 =>
              kept # <<>> /\ kept[Len(kept)] = 0
PROOF
<1> DEFINE kept == InWindow(ages)
<1>1. /\ ages \in Seq(Nat)
      /\ Len(ages) \in Nat
      /\ DOMAIN ages = 1 .. Len(ages)
      /\ \A i \in 1 .. Len(ages) : ages[i] \in Nat
      /\ Window \in Nat \ {0}
  BY LenProperties, ElementOfSeq, SeqMonotonic, Numbers DEF Ages
<1>2. ASSUME kept = <<>>, \A i \in 1 .. Len(ages) : ages[i] >= Window
      PROVE  /\ kept \in Seq(0 .. Window - 1)
             /\ Descends(kept)
             /\ ages # <<>> => ages[Len(ages)] # 0
  <2>1. kept \in Seq(0 .. Window - 1) /\ Descends(kept)
    BY <1>2 DEF Descends
  <2>2. ages # <<>> => Len(ages) \in 1 .. Len(ages)
    BY <1>1, EmptySeq
  <2> QED
    BY <2>1, <2>2, <1>1, <1>2
<1>3. ASSUME NEW m \in 1 .. Len(ages), ages[m] < Window,
             kept = SubSeq(ages, m, Len(ages))
      PROVE  /\ kept \in Seq(0 .. Window - 1)
             /\ Descends(kept)
             /\ kept # <<>>
             /\ kept[Len(kept)] = ages[Len(ages)]
  <2>1. \A i \in m .. Len(ages) : ages[i] \in 0 .. Window - 1
    <3> TAKE i \in m .. Len(ages)
    <3>1. i \in 1 .. Len(ages) /\ ages[m] >= ages[i]
      BY <1>1 DEF Descends
    <3> QED
      BY <3>1, <1>1, <1>3
  <2>2. /\ kept \in Seq(0 .. Window - 1)
        /\ Len(kept) = Len(ages) - m + 1
        /\ \A i \in 1 .. Len(kept) : kept[i] = ages[m + i - 1]
    BY <2>1, <1>1, <1>3, SubSeqProperties
  <2>3. DOMAIN kept = 1 .. Len(kept) /\ Len(kept) \in 1 .. Len(kept)
    BY <2>2, <1>1, LenProperties
  <2> HIDE DEF kept
  <2>4. Descends(kept)
    <3> SUFFICES ASSUME NEW i \in 1 .. Len(kept), NEW j \in 1 .. Len(kept), i <= j
                 PROVE  kept[i] >= kept[j]
      BY <2>3 DEF Descends
    <3>1. /\ m + i - 1 \in 1 .. Len(ages)
          /\ m + j - 1 \in 1 .. Len(ages)
          /\ m + i - 1 <= m + j - 1
      BY <2>2, <1>1
    <3> QED
      BY <3>1, <2>2, <1>1 DEF Descends
  <2>5. kept # <<>>
    BY <2>3
  <2>6. kept[Len(kept)] = ages[Len(ages)]
    <3>1. kept[Len(kept)] = ages[m + Len(kept) - 1]
      BY <2>2, <2>3
    <3>2. m + Len(kept) - 1 = Len(ages)
      BY <2>2, <1>1
    <3> QED
      BY <3>1, <3>2
  <2> QED
    BY <2>2, <2>4, <2>5, <2>6
<1>4. /\ kept \in Seq(0 .. Window - 1)
      /\ Descends(kept)
      /\ ages # <<>> /\ ages[Len(ages)] = 0 => kept # <<>> /\ kept[Len(kept)] = 0
  BY <1>1, <1>2, <1>3, WindowCases
<1> HIDE DEF kept
<1>5. kept \in Seq(Nat) /\ (kept # <<>> => kept[1] < Window)
  <2>1. kept \in Seq(Nat)
    BY <1>1, <1>4, SeqMonotonic
  <2>2. ASSUME kept # <<>> PROVE kept[1] \in 0 .. Window - 1
    <3>1. 1 \in 1 .. Len(kept)
      BY <1>4, <2>2, EmptySeq
    <3> QED
      BY <3>1, <1>4, ElementOfSeq
  <2> QED
    BY <2>1, <2>2, <1>1
<1> QED
  BY <1>4, <1>5, AllFresh DEF kept

\* A new timestamp at the end of what was left keeps that.
LEMMA NowIsFresh ==
  ASSUME NEW kept \in Seq(0 .. Window - 1), Descends(kept)
  PROVE  LET new == Append(kept, 0) IN
         /\ new \in Seq(0 .. Window - 1)
         /\ Descends(new)
         /\ InWindow(new) = new
         /\ new # <<>> /\ new[Len(new)] = 0
         /\ Len(new) = Len(kept) + 1
PROOF
<1> DEFINE new == Append(kept, 0)
<1>1. /\ Window \in Nat \ {0}
      /\ 0 \in 0 .. Window - 1
      /\ Len(kept) \in Nat
      /\ DOMAIN kept = 1 .. Len(kept)
      /\ \A i \in 1 .. Len(kept) : kept[i] \in 0 .. Window - 1
  BY LenProperties, ElementOfSeq, Numbers
<1>2. /\ new \in Seq(0 .. Window - 1)
      /\ new # <<>>
      /\ Len(new) = Len(kept) + 1
      /\ \A i \in 1 .. Len(kept) : new[i] = kept[i]
      /\ new[Len(kept) + 1] = 0
  BY <1>1, AppendProperties
<1>3. DOMAIN new = 1 .. Len(new)
  BY <1>2, LenProperties
<1> HIDE DEF new
<1>4. Descends(new)
  <2> SUFFICES ASSUME NEW i \in 1 .. Len(new), NEW j \in 1 .. Len(new), i <= j
               PROVE  new[i] >= new[j]
    BY <1>3 DEF Descends
  <2>1. CASE j <= Len(kept)
    <3>1. i \in DOMAIN kept /\ j \in DOMAIN kept
      BY <2>1, <1>1
    <3>2. kept[i] >= kept[j]
      BY <3>1 DEF Descends
    <3> QED
      BY <3>1, <3>2, <1>1, <1>2
  <2>2. CASE j = Len(kept) + 1
    <3>1. new[j] = 0 /\ new[i] \in 0 .. Window - 1
      BY <2>2, <1>1, <1>2
    <3> QED
      BY <3>1, <1>1
  <2> QED
    BY <2>1, <2>2, <1>1, <1>2
<1>5. InWindow(new) = new
  <2>1. new \in Seq(Nat)
    BY <1>2, <1>1, SeqMonotonic
  <2>2. new[1] < Window
    <3>1. 1 \in 1 .. Len(new)
      BY <1>1, <1>2
    <3>2. new[1] \in 0 .. Window - 1
      BY <3>1, <1>2, ElementOfSeq
    <3> QED
      BY <3>2, <1>1
  <2> QED
    BY <2>1, <2>2, AllFresh
<1> QED
  BY <1>1, <1>2, <1>4, <1>5 DEF new
-----------------------------------------------------------------------------
\* A function on 1 .. n is a sequence of length n.
LEMMA FunctionIsSeq ==
  ASSUME NEW S, NEW n \in Nat, NEW f \in [1 .. n -> S]
  PROVE  f \in Seq(S) /\ Len(f) = n
PROOF
<1>1. f \in Seq(S)
  BY SeqDef
<1>2. DOMAIN f = 1 .. n /\ DOMAIN f = 1 .. Len(f) /\ Len(f) \in Nat
  BY <1>1, LenProperties
<1> QED
  BY <1>1, <1>2

\* The clock: ages of a state, and of what was sent, one unit later.
Later(ages) ==
  [i \in DOMAIN ages |-> IF ages[i] < Window THEN ages[i] + 1 ELSE Window]

Plus1(ages) == [i \in DOMAIN ages |-> ages[i] + 1]

\* Ages descend as they grow, up to the window.
LEMMA LaterDescends ==
  ASSUME NEW ages \in Seq(Ages), Descends(ages)
  PROVE  /\ Later(ages) \in Seq(Ages)
         /\ Descends(Later(ages))
         /\ Len(Later(ages)) = Len(ages)
PROOF
<1>1. /\ Len(ages) \in Nat
      /\ DOMAIN ages = 1 .. Len(ages)
      /\ \A i \in 1 .. Len(ages) : ages[i] \in Ages
      /\ Window \in Nat
  BY LenProperties, ElementOfSeq, Numbers
<1>2. Later(ages) \in [1 .. Len(ages) -> Ages]
  BY <1>1 DEF Later, Ages
<1>3. Later(ages) \in Seq(Ages) /\ Len(Later(ages)) = Len(ages)
  BY <1>1, <1>2, FunctionIsSeq
<1>4. Descends(Later(ages))
  <2> SUFFICES ASSUME NEW i \in 1 .. Len(ages), NEW j \in 1 .. Len(ages), i <= j
               PROVE  Later(ages)[i] >= Later(ages)[j]
    BY <1>1, <1>2 DEF Descends
  <2>1. ages[i] >= ages[j] /\ ages[i] \in Ages /\ ages[j] \in Ages
    BY <1>1 DEF Descends
  <2> QED
    BY <2>1, <1>1 DEF Later, Ages
<1> QED
  BY <1>3, <1>4

\* What was in the window and is one unit older, pruned, is what is in the window
\* one unit later.
LEMMA AgeTogether ==
  ASSUME NEW ages \in Seq(Ages), Descends(ages)
  PROVE  InWindow(Plus1(InWindow(ages))) = InWindow(Later(ages))
PROOF
<1> DEFINE kept  == InWindow(ages)
           older == Later(ages)
           next  == Plus1(kept)
           L     == Len(ages)
<1>1. /\ L \in Nat
      /\ DOMAIN ages = 1 .. L
      /\ ages \in Seq(Nat)
      /\ \A i \in 1 .. L : ages[i] \in Ages
      /\ Window \in Nat \ {0}
      /\ \A i, j \in 1 .. L : i <= j => ages[i] >= ages[j]
  BY LenProperties, ElementOfSeq, SeqMonotonic, Numbers DEF Ages, Descends
<1>2. /\ older \in Seq(Nat)
      /\ Len(older) = L
      /\ \A i \in 1 .. L :
           older[i] = IF ages[i] < Window THEN ages[i] + 1 ELSE Window
  BY <1>1, LaterDescends, SeqMonotonic DEF Later, Ages
<1>3. /\ Len(kept) \in Nat
      /\ DOMAIN kept = 1 .. Len(kept)
      /\ \A i \in 1 .. Len(kept) : kept[i] \in 0 .. Window - 1
  BY PruneKeeps, LenProperties, ElementOfSeq
<1>4. next \in [1 .. Len(kept) -> Nat]
  BY <1>3, <1>1 DEF Plus1
<1>5. /\ next \in Seq(Nat)
      /\ Len(next) = Len(kept)
      /\ \A i \in 1 .. Len(kept) : next[i] = kept[i] + 1
  BY <1>3, <1>4, FunctionIsSeq DEF Plus1
<1> HIDE DEF older, next
<1>6. ASSUME \A i \in 1 .. L : older[i] >= Window
      PROVE  InWindow(older) = <<>>
  <2>1. ASSUME NEW m \in 1 .. L, older[m] < Window PROVE FALSE
    <3>1. older[m] \in Nat
      BY <1>2, ElementOfSeq
    <3> QED
      BY <3>1, <2>1, <1>1, <1>6
  <2> QED
    BY <2>1, <1>2, WindowCases
<1>7. CASE \A i \in 1 .. L : ages[i] >= Window
  <2>1. \A i \in 1 .. L : older[i] >= Window
    BY <1>1, <1>2, <1>7 DEF Ages
  <2>2. kept = <<>>
    <3>1. ASSUME NEW m \in 1 .. L, ages[m] < Window PROVE FALSE
      BY <3>1, <1>1, <1>7 DEF Ages
    <3> QED
      BY <3>1, <1>1, WindowCases
  <2>3. next = <<>>
    BY <2>2, <1>5, EmptySeq
  <2>4. InWindow(next) = <<>>
    BY <2>3, <1>5, AllFresh
  <2> QED
    BY <2>1, <2>4, <1>6 DEF next, older
<1>8. ASSUME NEW m \in 1 .. L, ages[m] < Window,
             \A i \in 1 .. m - 1 : ages[i] >= Window,
             kept = SubSeq(ages, m, L)
      PROVE  InWindow(next) = InWindow(older)
  <2>1. Len(kept) = L - m + 1 /\ \A i \in 1 .. L - m + 1 : kept[i] = ages[m + i - 1]
    BY <1>1, <1>8, SubSeqProperties
  <2> HIDE DEF kept
  <2>2. \A i \in 1 .. L - m + 1 : next[i] = older[m + i - 1]
    <3> TAKE i \in 1 .. L - m + 1
    <3>1. m + i - 1 \in 1 .. L
      BY <1>1
    <3>2. i \in 1 .. Len(kept) /\ kept[i] = ages[m + i - 1]
      BY <2>1
    <3>3. kept[i] < Window
      BY <3>2, <1>1, <1>3
    <3>4. next[i] = ages[m + i - 1] + 1 /\ ages[m + i - 1] < Window
      BY <3>2, <3>3, <1>5
    <3> QED
      BY <3>1, <3>4, <1>2
  <2>3. \A i \in 1 .. m - 1 : older[i] >= Window
    <3> TAKE i \in 1 .. m - 1
    <3>1. i \in 1 .. L /\ ages[i] >= Window
      BY <1>1, <1>8
    <3>2. ages[i] \in 0 .. Window /\ Window \in Nat
      BY <3>1, <1>1 DEF Ages
    <3> QED
      BY <3>1, <3>2, <1>2
  <2>4. ASSUME InWindow(next) = <<>>, \A i \in 1 .. Len(next) : next[i] >= Window
        PROVE  InWindow(older) = <<>>
    <3>1. \A i \in 1 .. L : older[i] >= Window
      <4> TAKE i \in 1 .. L
      <4>1. CASE i <= m - 1
        BY <4>1, <2>3, <1>1
      <4>2. CASE i >= m
        <5>1. i - m + 1 \in 1 .. L - m + 1 /\ m + (i - m + 1) - 1 = i
          BY <4>2, <1>1
        <5> QED
          BY <5>1, <2>1, <2>2, <2>4, <1>5
      <4> QED
        BY <4>1, <4>2, <1>1
    <3> QED
      BY <3>1, <1>6
  <2>5. ASSUME NEW n \in 1 .. Len(next), next[n] < Window,
               \A i \in 1 .. n - 1 : next[i] >= Window,
               InWindow(next) = SubSeq(next, n, Len(next))
        PROVE  InWindow(next) = InWindow(older)
    <3> DEFINE f == m + n - 1
    <3>1. f \in 1 .. L /\ Len(next) = L - m + 1
      BY <2>1, <1>1, <1>5
    <3>2. older[f] < Window
      BY <3>1, <2>2, <2>5
    <3>3. \A i \in 1 .. f - 1 : older[i] >= Window
      <4> TAKE i \in 1 .. f - 1
      <4>1. CASE i <= m - 1
        BY <4>1, <2>3, <1>1
      <4>2. CASE i >= m
        <5>1. i - m + 1 \in 1 .. n - 1 /\ i - m + 1 \in 1 .. L - m + 1
              /\ m + (i - m + 1) - 1 = i
          BY <4>2, <3>1, <1>1
        <5> QED
          BY <5>1, <2>2, <2>5
      <4> QED
        BY <4>1, <4>2, <1>1
    <3>4. InWindow(older) = SubSeq(older, f, L)
      BY <3>1, <3>2, <3>3, <1>2, FirstFresh
    <3>5. /\ InWindow(older) \in Seq(Nat)
          /\ Len(InWindow(older)) = L - f + 1
          /\ \A i \in 1 .. L - f + 1 : InWindow(older)[i] = older[f + i - 1]
      <4>1. \A i \in f .. L : older[i] \in Nat
        BY <3>1, <1>1, <1>2, ElementOfSeq
      <4> QED
        BY <4>1, <3>1, <3>4, <1>1, SubSeqProperties
    <3>6. /\ InWindow(next) \in Seq(Nat)
          /\ Len(InWindow(next)) = Len(next) - n + 1
          /\ \A i \in 1 .. Len(next) - n + 1 : InWindow(next)[i] = next[n + i - 1]
      <4>1. \A i \in n .. Len(next) : next[i] \in Nat
        BY <3>1, <1>1, <1>5, ElementOfSeq
      <4> QED
        BY <4>1, <3>1, <2>5, <1>1, SubSeqProperties
    <3>7. \A i \in 1 .. L - f + 1 : InWindow(next)[i] = InWindow(older)[i]
      <4> TAKE i \in 1 .. L - f + 1
      <4>1. n + i - 1 \in 1 .. L - m + 1 /\ m + (n + i - 1) - 1 = f + i - 1
        BY <3>1, <1>1
      <4>2. i \in 1 .. Len(next) - n + 1
        BY <3>1, <1>1
      <4> QED
        BY <4>1, <4>2, <3>5, <3>6, <2>2
    <3>8. Len(InWindow(next)) = Len(InWindow(older)) /\ Len(InWindow(next)) = L - f + 1
      BY <3>1, <3>5, <3>6, <1>1
    <3> QED
      BY <3>5, <3>6, <3>7, <3>8, SeqEqual
  <2> QED
    BY <2>4, <2>5, <1>5, WindowCases
<1> QED
  BY <1>7, <1>8, <1>1, WindowCases DEF next, older
-----------------------------------------------------------------------------
\* What was sent descends as it ages.
LEMMA Plus1Descends ==
  ASSUME NEW ages \in Seq(0 .. Window - 1), Descends(ages)
  PROVE  /\ Plus1(ages) \in Seq(Ages)
         /\ Descends(Plus1(ages))
         /\ Len(Plus1(ages)) = Len(ages)
PROOF
<1>1. /\ Len(ages) \in Nat
      /\ DOMAIN ages = 1 .. Len(ages)
      /\ \A i \in 1 .. Len(ages) : ages[i] \in 0 .. Window - 1
      /\ Window \in Nat
  BY LenProperties, ElementOfSeq, Numbers
<1>2. Plus1(ages) \in [1 .. Len(ages) -> Ages]
  BY <1>1 DEF Plus1, Ages
<1>3. Plus1(ages) \in Seq(Ages) /\ Len(Plus1(ages)) = Len(ages)
  BY <1>1, <1>2, FunctionIsSeq
<1>4. Descends(Plus1(ages))
  <2> SUFFICES ASSUME NEW i \in 1 .. Len(ages), NEW j \in 1 .. Len(ages), i <= j
               PROVE  Plus1(ages)[i] >= Plus1(ages)[j]
    BY <1>1, <1>2 DEF Descends
  <2>1. ages[i] >= ages[j]
    BY <1>1 DEF Descends
  <2> QED
    BY <2>1, <1>1 DEF Plus1
<1> QED
  BY <1>3, <1>4

-----------------------------------------------------------------------------
(***************************************************************************)
(* The steps, with any number of tokens.                                   *)
(***************************************************************************)

\* What a caller in acquire refers to.
LEMMA Fields ==
  ASSUME Sound, NEW c \in Callers, InAcquire(c)
  PROVE  LET o == callers[c].object
             k == callers[c].key
         IN /\ callers[c] \in Acquiring
            /\ o \in Objects /\ k \in Keys
            /\ timestamps[o] \in Seq(Ages) /\ Descends(timestamps[o])
            /\ queue[o] \in Seq(Callers)
            /\ sent[k] \in Seq(0 .. Window - 1) /\ Descends(sent[k])
PROOF
<1>1. callers[c] \in Acquiring
  BY DEF Sound, Typed, CallerStates, InAcquire, Idle, Fetching
<1>2. callers[c].object \in Objects /\ callers[c].key \in Keys
  BY <1>1 DEF Acquiring
<1> QED
  BY <1>1, <1>2 DEF Sound, Typed

\* While one task runs, none sleeps in the same queue.
LEMMA RunnersAreAlone ==
  ASSUME Sound, NEW c \in Callers, AtHead(c),
         NEW d \in Callers, callers[d].at = "sleeping"
  PROVE  callers[d].object # callers[c].object
BY DEF Sound, InLine, AtHead

\* The pruned ages are ages.
LEMMA WindowInAges ==
  ASSUME NEW ages \in Seq(0 .. Window - 1)
  PROVE  ages \in Seq(Ages)
PROOF
<1>1. 0 .. Window - 1 \subseteq Ages
  BY Numbers DEF Ages
<1> QED
  BY <1>1, SeqMonotonic

\* One more in a queue.
LEMMA AcquireKeepsSound ==
  ASSUME Sound, NEW c \in Callers, NEW key \in Keys,
         NEW attempt \in 0 .. RetryLimit, Acquire(c, key, attempt)
  PROVE  Sound'
PROOF
<1>0. PICK o \in Objects :
        /\ states' = [states EXCEPT ![key] = o]
        /\ queue' = [queue EXCEPT ![o] = Append(@, c)]
        /\ callers' = [callers EXCEPT ![c] =
             [at |-> "queued", key |-> key, object |-> o, wait |-> 0,
              attempt |-> attempt]]
        /\ UNCHANGED <<timestamps, sent>>
  BY DEF Acquire
<1>1. /\ callers'[c] = [at |-> "queued", key |-> key, object |-> o, wait |-> 0,
                        attempt |-> attempt]
      /\ \A d \in Callers : d # c => callers'[d] = callers[d]
      /\ queue'[o] = Append(queue[o], c)
      /\ \A p \in Objects : p # o => queue'[p] = queue[p]
      /\ queue[o] \in Seq(Callers)
  BY <1>0 DEF Sound, Typed
<1>2. Typed'
  <2>1. callers' \in [Callers -> CallerStates]
    <3>1. callers'[c] \in Acquiring
      BY <1>1, Numbers DEF Acquiring
    <3> QED
      BY <3>1, <1>0 DEF Sound, Typed, CallerStates
  <2>2. queue' \in [Objects -> Seq(Callers)]
    BY <1>0, <1>1, AppendProperties DEF Sound, Typed
  <2> QED
    BY <2>1, <2>2, <1>0 DEF Sound, Typed
<1>3. ASSUME NEW d \in Callers PROVE InLine(d)'
  <2>1. /\ Append(queue[o], c) \in Seq(Callers)
        /\ Len(queue[o]) \in Nat
        /\ Len(Append(queue[o], c)) = Len(queue[o]) + 1
        /\ \A i \in 1 .. Len(queue[o]) : Append(queue[o], c)[i] = queue[o][i]
        /\ Append(queue[o], c)[Len(queue[o]) + 1] = c
        /\ DOMAIN queue[o] = 1 .. Len(queue[o])
    BY <1>1, AppendProperties, LenProperties
  <2>2. DOMAIN Append(queue[o], c) = 1 .. Len(queue[o]) + 1
    BY <2>1, LenProperties
  <2>3. CASE d = c
    BY <2>3, <1>1, <2>1, <2>2 DEF InLine
  <2>4. CASE d # c /\ callers[d].at \notin {"queued", "sleeping"}
    BY <2>4, <1>1 DEF InLine
  <2>5. CASE d # c /\ callers[d].at \in {"queued", "sleeping"}
    <3>1. callers'[d] = callers[d] /\ callers[d].object \in Objects
      BY <2>5, <1>1, Fields DEF InAcquire
    <3>2. CASE callers[d].object # o
      BY <3>1, <3>2, <1>1 DEF Sound, InLine
    <3>3. CASE callers[d].object = o
      <4>1. PICK i \in DOMAIN queue[o] : queue[o][i] = d
        BY <3>3, <2>5 DEF Sound, InLine
      <4>2. i \in DOMAIN queue'[o] /\ queue'[o][i] = d
        BY <4>1, <2>1, <2>2, <1>1
      <4>3. callers[d].at = "sleeping" => Head(queue'[o]) = d
        <5>1. queue[o] # <<>>
          BY <4>1
        <5>2. Head(queue'[o]) = Head(queue[o])
          BY <5>1, <1>1, HeadTailAppend
        <5> QED
          BY <5>2, <3>3 DEF Sound, InLine
      <4> QED
        BY <4>2, <4>3, <3>1, <3>3 DEF InLine
    <3> QED
      BY <3>2, <3>3
  <2> QED
    BY <2>3, <2>4, <2>5
<1>4. NeverOversleeps'
  BY <1>0, <1>1 DEF Sound, NeverOversleeps
<1> QED
  BY <1>0, <1>2, <1>3, <1>4 DEF Sound

\* Who is in the fetch or between two attempts is not in acquire.
LEMMA OutsideAcquire ==
  ASSUME NEW e \in CallerStates, e.at \in {"fetching", "backoff"}
  PROVE  e \in Fetching
PROOF
<1>1. Idle.at = "idle" /\ \A a \in Acquiring : a.at \in {"queued", "sleeping", "admitted"}
  BY DEF Idle, Acquiring
<1>2. e # Idle
  BY <1>1
<1>3. e \notin Acquiring
  <2> SUFFICES ASSUME e \in Acquiring PROVE FALSE
    OBVIOUS
  <2>1. e.at \in {"queued", "sleeping", "admitted"}
    BY <1>1
  <2> QED
    BY <2>1
<1> QED
  BY <1>2, <1>3 DEF CallerStates

\* What a caller becomes that leaves the limiter, or wakes up in it.
LEMMA Leaving ==
  ASSUME Sound, NEW c \in Callers, Wake(c) \/ Finish(c) \/ BackOff(c)
  PROVE  /\ callers' \in [Callers -> CallerStates]
         /\ \A d \in Callers : d # c => callers'[d] = callers[d]
         /\ callers'[c].at \notin {"sleeping", "admitted"}
         /\ callers'[c].at = "queued" =>
              /\ callers[c].at = "sleeping"
              /\ callers'[c].key = callers[c].key
              /\ callers'[c].object = callers[c].object
PROOF
<1>1. /\ \A d \in Callers : d # c => callers'[d] = callers[d]
      /\ callers' = [callers EXCEPT ![c] = callers'[c]]
  BY DEF Wake, Finish, BackOff, Sound, Typed
<1>2. CASE Wake(c)
  <2>1. callers[c].at = "sleeping" /\ callers[c] \in Acquiring
    BY <1>2, Fields DEF Wake, InAcquire
  <2>2. callers'[c] = [callers[c] EXCEPT !.at = "queued"]
    BY <1>2 DEF Wake, Sound, Typed
  <2>3. /\ callers'[c] \in Acquiring
        /\ callers'[c].at = "queued"
        /\ callers'[c].key = callers[c].key
        /\ callers'[c].object = callers[c].object
    BY <2>1, <2>2 DEF Acquiring
  <2> QED
    BY <2>1, <2>3, <1>1 DEF Sound, Typed, CallerStates
<1>3. CASE Finish(c)
  <2>1. callers'[c] = Idle
    BY <1>3 DEF Finish, Sound, Typed
  <2>2. Idle \in CallerStates /\ Idle.at = "idle"
    BY DEF CallerStates, Idle
  <2>3. callers' \in [Callers -> CallerStates]
    BY <2>1, <2>2, <1>1 DEF Sound, Typed
  <2> QED
    BY <2>1, <2>2, <2>3, <1>1
<1>4. CASE BackOff(c)
  <2>1. callers[c] \in Fetching
    BY <1>4, OutsideAcquire DEF BackOff, Sound, Typed
  <2>2. callers'[c] = [callers[c] EXCEPT !.at = "backoff", !.attempt = @ + 1]
    BY <1>4 DEF BackOff, Sound, Typed
  <2>3. callers[c].attempt \in 0 .. RetryLimit /\ callers[c].attempt < RetryLimit
    BY <1>4, <2>1 DEF BackOff, Fetching
  <2>4. callers'[c].at = "backoff" /\ callers'[c] \in Fetching
    <3>1. callers[c].attempt + 1 \in 0 .. RetryLimit
      BY <2>3, Numbers
    <3> QED
      BY <2>1, <2>2, <3>1 DEF Fetching
  <2> QED
    BY <2>4, <1>1 DEF Sound, Typed, CallerStates
<1> QED
  BY <1>2, <1>3, <1>4

\* Nothing else changes then.
LEMMA LeaveKeepsSound ==
  ASSUME Sound, NEW c \in Callers, Wake(c) \/ Finish(c) \/ BackOff(c)
  PROVE  Sound'
PROOF
<1>0. UNCHANGED <<states, timestamps, queue, sent>>
  BY DEF Wake, Finish, BackOff
<1>1. /\ callers' \in [Callers -> CallerStates]
      /\ \A d \in Callers : d # c => callers'[d] = callers[d]
      /\ callers'[c].at # "sleeping"
      /\ callers'[c].at = "queued" =>
           /\ callers[c].at = "sleeping"
           /\ callers'[c].object = callers[c].object
  BY Leaving
<1>2. Typed'
  BY <1>0, <1>1 DEF Sound, Typed
<1>3. \A d \in Callers : InLine(d)'
  BY <1>0, <1>1 DEF Sound, InLine
<1>4. NeverOversleeps'
  BY <1>0, <1>1 DEF Sound, NeverOversleeps
<1> QED
  BY <1>0, <1>2, <1>3, <1>4 DEF Sound

\* The task at the head of a queue leaves its timestamp and the queue.
LEMMA TakeSlotKeepsSound ==
  ASSUME Sound, NEW c \in Callers, TakeSlot(c)
  PROVE  Sound'
PROOF
<1> DEFINE o    == callers[c].object
           k    == callers[c].key
           new  == Append(InWindow(timestamps[o]), 0)
           more == Append(sent[k], 0)
<1>0. /\ AtHead(c)
      /\ callers[c].at = "queued"
      /\ Head(queue[o]) = c
      /\ timestamps' = [timestamps EXCEPT ![o] = new]
      /\ queue' = [queue EXCEPT ![o] = Tail(@)]
      /\ callers' = [callers EXCEPT ![c].at = "admitted"]
      /\ sent' = [sent EXCEPT ![k] = Append(@, 0)]
      /\ UNCHANGED states
  BY DEF TakeSlot, AtHead, Prune
<1>1. /\ callers[c] \in Acquiring
      /\ o \in Objects /\ k \in Keys
      /\ timestamps[o] \in Seq(Ages) /\ Descends(timestamps[o])
      /\ queue[o] \in Seq(Callers)
      /\ sent[k] \in Seq(0 .. Window - 1) /\ Descends(sent[k])
  BY <1>0, Fields DEF InAcquire
<1>2. new \in Seq(Ages) /\ Descends(new)
  <2>1. /\ InWindow(timestamps[o]) \in Seq(0 .. Window - 1)
        /\ Descends(InWindow(timestamps[o]))
    BY <1>1, PruneKeeps
  <2> QED
    BY <2>1, NowIsFresh, WindowInAges
<1>3. more \in Seq(0 .. Window - 1) /\ Descends(more)
  BY <1>1, NowIsFresh
<1> HIDE DEF new
<1>4. /\ \A d \in Callers : d # c => callers'[d] = callers[d]
      /\ callers'[c] = [callers[c] EXCEPT !.at = "admitted"]
      /\ timestamps'[o] = new
      /\ \A p \in Objects : p # o => timestamps'[p] = timestamps[p]
      /\ queue'[o] = Tail(queue[o])
      /\ \A p \in Objects : p # o => queue'[p] = queue[p]
      /\ sent' = [sent EXCEPT ![k] = more]
  BY <1>0, <1>1 DEF Sound, Typed
<1> HIDE DEF more
<1>5. callers'[c] \in Acquiring /\ callers'[c].at = "admitted"
  BY <1>1, <1>4 DEF Acquiring
<1>6. queue[o] # <<>>
  BY <1>0 DEF Sound, InLine
<1>7. /\ Tail(queue[o]) \in Seq(Callers)
      /\ Len(Tail(queue[o])) = Len(queue[o]) - 1
      /\ \A j \in 1 .. Len(Tail(queue[o])) : Tail(queue[o])[j] = queue[o][j + 1]
  BY <1>1, <1>6, HeadTailProperties
<1>8. Typed'
  <2>1. callers' \in [Callers -> CallerStates]
    BY <1>0, <1>4, <1>5 DEF Sound, Typed, CallerStates
  <2>2. timestamps' \in [Objects -> Seq(Ages)]
    BY <1>0, <1>2 DEF Sound, Typed
  <2>3. queue' \in [Objects -> Seq(Callers)]
    BY <1>0, <1>7 DEF Sound, Typed
  <2>4. sent' \in [Keys -> Seq(0 .. Window - 1)]
    BY <1>3, <1>4 DEF Sound, Typed
  <2> QED
    BY <2>1, <2>2, <2>3, <2>4, <1>0 DEF Sound, Typed
<1>9. /\ \A p \in Objects : Descends(timestamps'[p])
      /\ \A j \in Keys : Descends(sent'[j])
  BY <1>2, <1>3, <1>4 DEF Sound, Typed
<1>10. ASSUME NEW d \in Callers PROVE InLine(d)'
  <2>1. CASE d = c \/ callers[d].at \notin {"queued", "sleeping"}
    BY <2>1, <1>4, <1>5 DEF InLine
  <2>2. CASE d # c /\ callers[d].at \in {"queued", "sleeping"}
    <3>1. callers'[d] = callers[d] /\ callers[d].object \in Objects
      BY <2>2, <1>4, Fields DEF InAcquire
    <3>2. CASE callers[d].object # o
      BY <3>1, <3>2, <1>4 DEF Sound, InLine
    <3>3. CASE callers[d].object = o
      <4>1. callers[d].at = "queued"
        BY <3>3, <2>2, <1>0, RunnersAreAlone
      <4>2. PICK i \in DOMAIN queue[o] : queue[o][i] = d
        BY <3>3, <2>2 DEF Sound, InLine
      <4>3. /\ DOMAIN queue[o] = 1 .. Len(queue[o])
            /\ Len(queue[o]) \in Nat
            /\ DOMAIN Tail(queue[o]) = 1 .. Len(Tail(queue[o]))
        BY <1>1, <1>7, LenProperties
      <4>4. i # 1
        BY <4>2, <2>2, <1>0
      <4>5. i - 1 \in DOMAIN Tail(queue[o]) /\ Tail(queue[o])[i - 1] = d
        BY <4>2, <4>3, <4>4, <1>7
      <4> QED
        BY <4>1, <4>5, <3>1, <3>3, <1>4 DEF InLine
    <3> QED
      BY <3>2, <3>3
  <2> QED
    BY <2>1, <2>2
<1>11. NeverOversleeps'
  <2> SUFFICES ASSUME NEW d \in Callers, callers'[d].at = "sleeping"
               PROVE  /\ callers'[d] = callers[d]
                      /\ callers[d].object \in Objects
                      /\ callers[d].object # o
    BY <1>4 DEF Sound, NeverOversleeps
  <2>1. d # c /\ callers'[d] = callers[d]
    BY <1>4, <1>5
  <2> QED
    BY <2>1, <1>0, Fields, RunnersAreAlone DEF InAcquire
<1> QED
  BY <1>8, <1>9, <1>10, <1>11 DEF Sound
-----------------------------------------------------------------------------
\* The wait that a full window calls for.
LEMMA WaitFits ==
  ASSUME NEW kept \in Seq(0 .. Window - 1), ~HasRoom(kept)
  PROVE  /\ Len(kept) >= MaxRequests
         /\ WaitMs(kept) \in 1 .. Window
         /\ Head(kept) + WaitMs(kept) <= Window
PROOF
<1>1. Len(kept) \in Nat /\ Len(kept) >= MaxRequests
  BY LenProperties, Numbers DEF HasRoom
<1>2. kept # <<>>
  BY <1>1, Numbers
<1>3. Head(kept) \in 0 .. Window - 1
  BY <1>2, HeadTailProperties
<1>4. Window \in Nat \ {0}
  BY Numbers
<1>5. WaitMs(kept) = Window - Head(kept)
  BY <1>3, <1>4 DEF WaitMs, MaxOf
<1> QED
  BY <1>1, <1>3, <1>4, <1>5

\* The task at the head of a queue finds the window full and sleeps until its
\* oldest timestamp leaves it.
LEMMA SleepKeepsSound ==
  ASSUME Sound, NEW c \in Callers, Sleep(c)
  PROVE  Sound'
PROOF
<1> DEFINE o    == callers[c].object
           kept == InWindow(timestamps[o])
<1>0. /\ AtHead(c)
      /\ callers[c].at = "queued"
      /\ Head(queue[o]) = c
      /\ ~HasRoom(kept)
      /\ timestamps' = [timestamps EXCEPT ![o] = kept]
      /\ callers' = [callers EXCEPT ![c].at = "sleeping", ![c].wait = WaitMs(kept)]
      /\ UNCHANGED <<states, queue, sent>>
  BY DEF Sleep, AtHead, Prune
<1>1. /\ callers[c] \in Acquiring
      /\ o \in Objects
      /\ timestamps[o] \in Seq(Ages) /\ Descends(timestamps[o])
  BY <1>0, Fields DEF InAcquire
<1>2. kept \in Seq(0 .. Window - 1) /\ Descends(kept)
  BY <1>1, PruneKeeps
<1>3. /\ Len(kept) >= MaxRequests
      /\ WaitMs(kept) \in 1 .. Window
      /\ Head(kept) + WaitMs(kept) <= Window
  BY <1>0, <1>2, WaitFits
<1> HIDE DEF kept
<1>4. /\ \A d \in Callers : d # c => callers'[d] = callers[d]
      /\ callers'[c] = [callers[c] EXCEPT !.at = "sleeping", !.wait = WaitMs(kept)]
      /\ callers' = [callers EXCEPT ![c] = callers'[c]]
      /\ timestamps'[o] = kept
      /\ \A p \in Objects : p # o => timestamps'[p] = timestamps[p]
  BY <1>0, <1>1 DEF Sound, Typed
<1>5. /\ callers'[c] \in Acquiring
      /\ callers'[c].at = "sleeping"
      /\ callers'[c].wait = WaitMs(kept)
      /\ callers'[c].object = o
  <2>1. WaitMs(kept) \in 0 .. Window
    BY <1>3, Numbers
  <2> QED
    BY <1>1, <1>4, <2>1 DEF Acquiring
<1>6. Typed'
  BY <1>0, <1>2, <1>4, <1>5, WindowInAges DEF Sound, Typed, CallerStates
<1>7. \A p \in Objects : Descends(timestamps'[p])
  BY <1>2, <1>4 DEF Sound
<1>8. ASSUME NEW d \in Callers PROVE InLine(d)'
  <2>1. CASE d = c
    <3>1. InLine(c) /\ callers[c].object = o
      BY DEF Sound
    <3>2. \E i \in DOMAIN queue[o] : queue[o][i] = c
      BY <3>1, <1>0 DEF InLine
    <3> QED
      BY <2>1, <3>2, <1>0, <1>5 DEF InLine
  <2>2. CASE d # c
    <3>1. InLine(d) /\ callers'[d] = callers[d]
      BY <2>2, <1>4 DEF Sound
    <3> QED
      BY <3>1, <1>0 DEF InLine
  <2> QED
    BY <2>1, <2>2
<1>9. NeverOversleeps'
  <2> SUFFICES ASSUME NEW d \in Callers,
                      callers'[d].at = "sleeping", callers'[d].wait > 0
               PROVE  LET ages == timestamps'[callers'[d].object] IN
                      Len(ages) >= MaxRequests /\ Head(ages) + callers'[d].wait <= Window
    BY DEF NeverOversleeps
  <2>1. CASE d = c
    BY <2>1, <1>3, <1>4, <1>5
  <2>2. CASE d # c
    <3>1. /\ callers'[d] = callers[d]
          /\ callers[d].object \in Objects
          /\ callers[d].object # o
      <4>1. callers'[d] = callers[d] /\ callers[d].at = "sleeping"
        BY <2>2, <1>4
      <4>2. callers[d].object \in Objects
        BY <4>1, Fields DEF InAcquire
      <4>3. callers[d].object # o
        BY <4>1, <1>0, RunnersAreAlone
      <4> QED
        BY <4>1, <4>2, <4>3
    <3> QED
      BY <3>1, <1>4 DEF Sound, NeverOversleeps
  <2> QED
    BY <2>1, <2>2
<1> QED
  BY <1>0, <1>6, <1>7, <1>8, <1>9 DEF Sound

\* A task that still has to sleep has a fresh oldest timestamp: evictions leave its
\* window alone.
LEMMA SleepersKeepTheirs ==
  ASSUME Sound, NEW d \in Callers, callers[d].at = "sleeping", callers[d].wait > 0
  PROVE  LET ages == timestamps[callers[d].object] IN
         /\ InWindow(ages) = ages
         /\ Len(ages) \in Nat /\ Len(ages) >= MaxRequests /\ 1 \in DOMAIN ages
         /\ Head(ages) = ages[1]
         /\ ages[1] \in 0 .. Window - 1
         /\ callers[d].wait \in Nat
         /\ ages[1] + callers[d].wait <= Window
PROOF
<1> DEFINE ages == timestamps[callers[d].object]
<1>1. callers[d] \in Acquiring /\ ages \in Seq(Ages)
  BY Fields DEF InAcquire
<1>2. callers[d].wait \in 0 .. Window
  BY <1>1 DEF Acquiring
<1>3. Len(ages) >= MaxRequests /\ Head(ages) + callers[d].wait <= Window
  BY DEF Sound, NeverOversleeps
<1> HIDE DEF ages
<1>4. Len(ages) \in Nat /\ DOMAIN ages = 1 .. Len(ages)
  BY <1>1, LenProperties
<1>5. 1 \in 1 .. Len(ages)
  BY <1>3, <1>4, Numbers
<1>6. ages[1] \in Ages /\ Head(ages) = ages[1]
  BY <1>1, <1>5, ElementOfSeq
<1>7. ages[1] \in 0 .. Window - 1 /\ ages[1] < Window
  BY <1>2, <1>3, <1>6, Numbers DEF Ages
<1>8. ages \in Seq(Nat)
  <2>1. Ages \subseteq Nat
    BY Numbers DEF Ages
  <2> QED
    BY <2>1, <1>1, SeqMonotonic
<1> QED
  BY <1>2, <1>3, <1>4, <1>5, <1>6, <1>7, <1>8, AllFresh DEF ages

\* An object keeps its timestamps, or those in the window, or it is given up.
LEMMA EvictKeepsSound ==
  ASSUME Sound, NEW c \in Callers, Evict(c)
  PROVE  Sound'
PROOF
<1> DEFINE gone == [at |-> "fetching", key |-> callers[c].key,
                    attempt |-> callers[c].attempt]
<1>0. /\ callers[c].at = "admitted"
      /\ states' = [k \in Keys |->
           IF states[k] # None /\ Stale(timestamps[states[k]]) THEN None ELSE states[k]]
      /\ timestamps' = [o \in Objects |->
           CASE Mapped(states, o) -> InWindow(timestamps[o])
             [] ~Mapped(states, o) /\ HeldBy(Callers \ {c}, o) -> timestamps[o]
             [] OTHER -> <<>>]
      /\ callers' = [callers EXCEPT ![c] = gone]
      /\ UNCHANGED <<queue, sent>>
  BY DEF Evict, Prune
<1>1. /\ \A d \in Callers : d # c => callers'[d] = callers[d]
      /\ callers'[c] = gone
      /\ gone \in Fetching
  BY <1>0, Fields DEF Sound, Typed, InAcquire, Acquiring, Fetching
<1>2. ASSUME NEW o \in Objects
      PROVE  /\ timestamps'[o] \in {InWindow(timestamps[o]), timestamps[o], <<>>}
             /\ timestamps'[o] \in Seq(Ages)
             /\ Descends(timestamps'[o])
             /\ HeldBy(Callers \ {c}, o) =>
                  timestamps'[o] \in {InWindow(timestamps[o]), timestamps[o]}
  <2>1. timestamps[o] \in Seq(Ages) /\ Descends(timestamps[o])
    BY DEF Sound, Typed
  <2>2. InWindow(timestamps[o]) \in Seq(Ages) /\ Descends(InWindow(timestamps[o]))
    BY <2>1, PruneKeeps, WindowInAges
  <2>3. <<>> \in Seq(Ages) /\ Descends(<<>>)
    BY DEF Descends
  <2>4. timestamps'[o] =
          IF Mapped(states, o) THEN InWindow(timestamps[o])
          ELSE IF HeldBy(Callers \ {c}, o) THEN timestamps[o] ELSE <<>>
    BY <1>0
  <2> QED
    BY <2>1, <2>2, <2>3, <2>4
<1>3. Typed'
  <2>1. callers' \in [Callers -> CallerStates]
    BY <1>0, <1>1 DEF Sound, Typed, CallerStates
  <2>2. timestamps' \in [Objects -> Seq(Ages)]
    BY <1>0, <1>2
  <2>3. states' \in [Keys -> Objects \cup {None}]
    BY <1>0 DEF Sound, Typed
  <2> QED
    BY <2>1, <2>2, <2>3, <1>0 DEF Sound, Typed
<1>4. ASSUME NEW d \in Callers PROVE InLine(d)'
  <2>1. CASE d = c
    BY <2>1, <1>1 DEF InLine
  <2>2. CASE d # c
    <3>1. InLine(d) /\ callers'[d] = callers[d] /\ queue' = queue
      BY <2>2, <1>0, <1>1 DEF Sound
    <3> QED
      BY <3>1 DEF InLine
  <2> QED
    BY <2>1, <2>2
<1>5. NeverOversleeps'
  <2> SUFFICES ASSUME NEW d \in Callers,
                      callers'[d].at = "sleeping", callers'[d].wait > 0
               PROVE  LET ages == timestamps'[callers'[d].object] IN
                      Len(ages) >= MaxRequests /\ Head(ages) + callers'[d].wait <= Window
    BY DEF NeverOversleeps
  <2>1. d # c /\ callers'[d] = callers[d]
    BY <1>1
  <2>2. callers[d].object \in Objects /\ HeldBy(Callers \ {c}, callers[d].object)
    BY <2>1, Fields DEF InAcquire, HeldBy
  <2>3. InWindow(timestamps[callers[d].object]) = timestamps[callers[d].object]
    BY <2>1, SleepersKeepTheirs
  <2>4. timestamps'[callers[d].object] = timestamps[callers[d].object]
    BY <2>2, <2>3, <1>2
  <2> QED
    BY <2>1, <2>4 DEF Sound, NeverOversleeps
<1> QED
  BY <1>0, <1>2, <1>3, <1>4, <1>5 DEF Sound

\* What one unit of time does, besides letting timestamps age.
LEMMA Ticking ==
  ASSUME Sound, Tick
  PROVE  /\ timestamps' = [o \in Objects |-> Later(timestamps[o])]
         /\ sent' = [k \in Keys |-> InWindow(Plus1(sent[k]))]
         /\ UNCHANGED <<states, queue>>
         /\ callers' \in [Callers -> CallerStates]
         /\ \A c \in Callers :
              /\ callers[c].at # "admitted"
              /\ callers'[c].at = callers[c].at
              /\ InAcquire(c) => callers'[c].key = callers[c].key
                                 /\ callers'[c].object = callers[c].object
              /\ callers[c].at = "sleeping" /\ callers'[c].wait > 0 =>
                   callers[c].wait > 0 /\ callers'[c].wait = callers[c].wait - 1
PROOF
<1>0. /\ \A c \in Callers : callers[c].at # "admitted"
      /\ timestamps' = [o \in Objects |-> Later(timestamps[o])]
      /\ callers' = [c \in Callers |->
           IF callers[c].at = "sleeping" /\ callers[c].wait > 0
           THEN [callers[c] EXCEPT !.wait = @ - 1] ELSE callers[c]]
      /\ sent' = [k \in Keys |-> InWindow(Plus1(sent[k]))]
      /\ UNCHANGED <<states, queue>>
  BY DEF Tick, Settled, Later, Plus1
<1>1. ASSUME NEW c \in Callers
      PROVE  /\ callers'[c].at = callers[c].at
             /\ InAcquire(c) => callers'[c].key = callers[c].key
                                /\ callers'[c].object = callers[c].object
             /\ callers'[c] \in CallerStates
             /\ callers[c].at = "sleeping" /\ callers'[c].wait > 0 =>
                  callers[c].wait > 0 /\ callers'[c].wait = callers[c].wait - 1
  <2>1. CASE callers[c].at = "sleeping" /\ callers[c].wait > 0
    <3>1. callers[c] \in Acquiring
      BY <2>1, Fields DEF InAcquire
    <3>2. callers'[c] = [callers[c] EXCEPT !.wait = @ - 1]
      BY <2>1, <1>0
    <3>3. callers[c].wait - 1 \in 0 .. Window
      BY <2>1, <3>1, Numbers DEF Acquiring
    <3>4. callers'[c] \in Acquiring
      BY <3>1, <3>2, <3>3 DEF Acquiring
    <3> QED
      BY <2>1, <3>1, <3>2, <3>4 DEF CallerStates, Acquiring
  <2>2. CASE ~(callers[c].at = "sleeping" /\ callers[c].wait > 0)
    <3>1. callers'[c] = callers[c]
      BY <2>2, <1>0
    <3> QED
      BY <2>2, <3>1 DEF Sound, Typed
  <2> QED
    BY <2>1, <2>2
<1> QED
  BY <1>0, <1>1

\* Ages, what was sent, and the timers move together.
LEMMA TickKeepsSound ==
  ASSUME Sound, Tick
  PROVE  Sound'
PROOF
<1>0. /\ timestamps' = [o \in Objects |-> Later(timestamps[o])]
      /\ sent' = [k \in Keys |-> InWindow(Plus1(sent[k]))]
      /\ UNCHANGED <<states, queue>>
      /\ callers' \in [Callers -> CallerStates]
      /\ \A c \in Callers :
           /\ callers'[c].at = callers[c].at
           /\ InAcquire(c) => callers'[c].object = callers[c].object
           /\ callers[c].at = "sleeping" /\ callers'[c].wait > 0 =>
                callers[c].wait > 0 /\ callers'[c].wait = callers[c].wait - 1
  BY Ticking
<1>1. \A o \in Objects :
        /\ timestamps'[o] = Later(timestamps[o])
        /\ timestamps'[o] \in Seq(Ages)
        /\ Descends(timestamps'[o])
        /\ Len(timestamps'[o]) = Len(timestamps[o])
  BY <1>0, LaterDescends DEF Sound, Typed
<1>2. \A k \in Keys : sent'[k] \in Seq(0 .. Window - 1) /\ Descends(sent'[k])
  <2> TAKE k \in Keys
  <2>1. Plus1(sent[k]) \in Seq(Ages) /\ Descends(Plus1(sent[k]))
    BY Plus1Descends DEF Sound, Typed
  <2> QED
    BY <2>1, <1>0, PruneKeeps
<1>3. Typed'
  BY <1>0, <1>1, <1>2 DEF Sound, Typed
<1>4. ASSUME NEW c \in Callers PROVE InLine(c)'
  BY <1>0 DEF Sound, InLine, InAcquire
<1>5. NeverOversleeps'
  <2> SUFFICES ASSUME NEW c \in Callers,
                      callers'[c].at = "sleeping", callers'[c].wait > 0
               PROVE  LET ages == timestamps'[callers'[c].object] IN
                      Len(ages) >= MaxRequests /\ Head(ages) + callers'[c].wait <= Window
    BY DEF NeverOversleeps
  <2> DEFINE ages == timestamps[callers[c].object]
  <2>1. /\ callers[c].at = "sleeping"
        /\ callers[c].wait > 0
        /\ callers'[c].wait = callers[c].wait - 1
    BY <1>0
  <2>2. callers[c].object \in Objects /\ callers'[c].object = callers[c].object
    BY <2>1, <1>0, Fields DEF InAcquire
  <2>3. /\ Len(ages) >= MaxRequests /\ 1 \in DOMAIN ages
        /\ ages[1] \in 0 .. Window - 1
        /\ callers[c].wait \in Nat
        /\ ages[1] + callers[c].wait <= Window
    BY <2>1, SleepersKeepTheirs
  <2>4. Later(ages)[1] = ages[1] + 1
    BY <2>3, Numbers DEF Later
  <2>5. /\ Len(Later(ages)) = Len(ages)
        /\ Head(Later(ages)) = Later(ages)[1]
        /\ timestamps'[callers[c].object] = Later(ages)
    BY <2>2, <1>1
  <2> HIDE DEF ages
  <2>6. Head(Later(ages)) + (callers[c].wait - 1) <= Window
    BY <2>3, <2>4, <2>5, Numbers
  <2> QED
    BY <2>1, <2>2, <2>3, <2>5, <2>6
<1> QED
  BY <1>0, <1>1, <1>2, <1>3, <1>4, <1>5 DEF Sound
-----------------------------------------------------------------------------
LEMMA InitIsSound ==
  ASSUME Init
  PROVE  Sound
PROOF
<1>1. Typed
  BY DEF Init, Typed, CallerStates
<1>2. /\ \A o \in Objects : Descends(timestamps[o])
      /\ \A k \in Keys : Descends(sent[k])
  BY DEF Init, Descends
<1>3. \A c \in Callers : callers[c].at = "idle"
  BY DEF Init, Idle
<1> QED
  BY <1>1, <1>2, <1>3 DEF Sound, InLine, NeverOversleeps

LEMMA StepIsSound ==
  ASSUME Sound, [Next]_vars
  PROVE  Sound'
PROOF
<1>1. CASE UNCHANGED vars
  BY <1>1 DEF vars, Sound, Typed, InLine, NeverOversleeps
<1>2. ASSUME NEW c \in Callers, NEW key \in Keys, StartFetch(c, key)
      PROVE  Sound'
  BY <1>2, AcquireKeepsSound, Numbers DEF StartFetch
<1>3. ASSUME NEW c \in Callers, Retry(c)
      PROVE  Sound'
  <2>1. callers[c] \in Fetching
    BY <1>3, OutsideAcquire DEF Retry, Sound, Typed
  <2> QED
    BY <2>1, <1>3, AcquireKeepsSound DEF Retry, Fetching
<1> QED
  BY <1>1, <1>2, <1>3, LeaveKeepsSound, TakeSlotKeepsSound, SleepKeepsSound,
     EvictKeepsSound, TickKeepsSound DEF Next

-----------------------------------------------------------------------------
(***************************************************************************)
(* The steps, with one token.                                              *)
(***************************************************************************)

\* Everybody in acquire waits for the one state of the one token.
LEMMA OneQueue ==
  ASSUME Inv, NEW c \in Callers, InAcquire(c)
  PROVE  LET o == callers[c].object
             k == callers[c].key
         IN /\ o \in Objects /\ o # None
            /\ k \in Keys /\ Keys = {k}
            /\ states[k] = o
            /\ sent[k] = InWindow(timestamps[o])
            /\ timestamps[o] \in Seq(Ages) /\ Descends(timestamps[o])
            /\ \A p \in Objects : p # o => timestamps[p] = <<>>
            /\ \A d \in Callers : InAcquire(d) =>
                 callers[d].object = o /\ callers[d].key = k
PROOF
<1> DEFINE o == callers[c].object
           k == callers[c].key
<1>1. \A d \in Callers : InAcquire(d) =>
        callers[d].object \in Objects /\ callers[d].key \in Keys
  BY Fields DEF Inv
<1>2. o \in Objects /\ k \in Keys /\ o # None /\ Keys = {k}
  BY <1>1, Numbers DEF Inv, OneToken
<1>3. states[k] = o
  BY <1>2 DEF Inv, QueuesAreInTheMap
<1>4. sent[k] = InWindow(timestamps[o])
  BY <1>2, <1>3 DEF Inv, WindowIsKept
<1>5. timestamps[o] \in Seq(Ages) /\ Descends(timestamps[o])
  BY <1>2 DEF Inv, Sound, Typed
<1>6. \A p \in Objects : p # o => timestamps[p] = <<>>
  BY <1>2, <1>3 DEF Inv, WindowIsKept, Mapped
<1>7. \A d \in Callers : InAcquire(d) => callers[d].object = o /\ callers[d].key = k
  BY <1>1, <1>2, <1>3 DEF Inv, QueuesAreInTheMap
<1> QED
  BY <1>2, <1>3, <1>4, <1>5, <1>6, <1>7

\* One more in the queue of the state of the token, or in that of a new state.
LEMMA AcquireKeepsInv ==
  ASSUME Inv, Sound', NEW c \in Callers, NEW key \in Keys,
         NEW attempt \in 0 .. RetryLimit, Acquire(c, key, attempt)
  PROVE  Inv'
PROOF
<1>0. PICK o \in Objects :
        /\ IF states[key] # None THEN o = states[key]
           ELSE ~Mapped(states, o) /\ ~HeldBy(Callers, o)
        /\ states' = [states EXCEPT ![key] = o]
        /\ callers' = [callers EXCEPT ![c] =
             [at |-> "queued", key |-> key, object |-> o, wait |-> 0,
              attempt |-> attempt]]
        /\ UNCHANGED <<timestamps, sent>>
  BY DEF Acquire
<1>1. /\ callers'[c] = [at |-> "queued", key |-> key, object |-> o, wait |-> 0,
                        attempt |-> attempt]
      /\ \A d \in Callers : d # c => callers'[d] = callers[d]
      /\ states'[key] = o
      /\ Keys = {key}
      /\ o # None
      /\ states[key] \in {o, None}
  BY <1>0, Numbers DEF Inv, Sound, Typed, OneToken
<1>2. \A d \in Callers : InAcquire(d) =>
        callers[d].object = o /\ callers[d].key = key
  BY <1>0, <1>1, OneQueue
<1>3. QueuesAreInTheMap'
  BY <1>1, <1>2 DEF QueuesAreInTheMap, InAcquire
<1>4. WindowIsKept'
  <2>1. CASE states[key] = None
    <3>1. \A p \in Objects : timestamps[p] = <<>>
      BY <2>1, <1>1, Numbers DEF Inv, WindowIsKept, Mapped
    <3>2. InWindow(<<>>) = <<>>
      BY EmptyWindow
    <3>3. sent[key] = <<>>
      BY <2>1 DEF Inv, WindowIsKept
    <3> QED
      BY <3>1, <3>2, <3>3, <1>0, <1>1 DEF WindowIsKept
  <2>2. CASE states[key] = o
    <3>1. states' = states
      BY <2>2, <1>0 DEF Inv, Sound, Typed
    <3> QED
      BY <3>1, <1>0 DEF Inv, WindowIsKept
  <2> QED
    BY <2>1, <2>2, <1>1
<1>5. NewestIsFresh' /\ WindowBound'
  BY <1>0, <1>1 DEF Inv, NewestIsFresh, WindowBound
<1> QED
  BY <1>3, <1>4, <1>5 DEF Inv, OneToken

\* Who leaves changes nothing else.
LEMMA LeaveKeepsInv ==
  ASSUME Inv, Sound', NEW c \in Callers, Wake(c) \/ Finish(c) \/ BackOff(c)
  PROVE  Inv'
PROOF
<1>0. UNCHANGED <<states, timestamps, queue, sent>>
  BY DEF Wake, Finish, BackOff
<1>1. /\ \A d \in Callers : d # c => callers'[d] = callers[d]
      /\ callers'[c].at \notin {"sleeping", "admitted"}
      /\ callers'[c].at = "queued" =>
           /\ callers[c].at = "sleeping"
           /\ callers'[c].key = callers[c].key
           /\ callers'[c].object = callers[c].object
  BY Leaving DEF Inv
<1>2. QueuesAreInTheMap'
  BY <1>0, <1>1 DEF Inv, QueuesAreInTheMap, InAcquire
<1>3. WindowIsKept' /\ WindowBound'
  BY <1>0 DEF Inv, WindowIsKept, WindowBound
<1>4. NewestIsFresh'
  BY <1>0, <1>1 DEF Inv, NewestIsFresh
<1> QED
  BY <1>2, <1>3, <1>4 DEF Inv, OneToken

\* The timestamp that is taken is the one that is counted.
LEMMA TakeSlotKeepsInv ==
  ASSUME Inv, Sound', NEW c \in Callers, TakeSlot(c)
  PROVE  Inv'
PROOF
<1> DEFINE o   == callers[c].object
           k   == callers[c].key
           new == Append(InWindow(timestamps[o]), 0)
<1>0. /\ callers[c].at = "queued"
      /\ HasRoom(InWindow(timestamps[o]))
      /\ timestamps' = [timestamps EXCEPT ![o] = new]
      /\ callers' = [callers EXCEPT ![c].at = "admitted"]
      /\ sent' = [sent EXCEPT ![k] = Append(@, 0)]
      /\ UNCHANGED states
  BY DEF TakeSlot, AtHead, Prune
<1>1. /\ o \in Objects /\ o # None
      /\ k \in Keys /\ Keys = {k}
      /\ states[k] = o
      /\ sent[k] = InWindow(timestamps[o])
      /\ timestamps[o] \in Seq(Ages) /\ Descends(timestamps[o])
      /\ \A p \in Objects : p # o => timestamps[p] = <<>>
      /\ \A d \in Callers : InAcquire(d) =>
           callers[d].object = o /\ callers[d].key = k
  BY <1>0, OneQueue DEF InAcquire
<1>2. InWindow(timestamps[o]) \in Seq(0 .. Window - 1) /\ Descends(InWindow(timestamps[o]))
  BY <1>1, PruneKeeps
<1>3. /\ InWindow(new) = new
      /\ new # <<>> /\ new[Len(new)] = 0
      /\ Len(new) = Len(InWindow(timestamps[o])) + 1
  BY <1>2, NowIsFresh
<1>4. Len(new) <= MaxRequests
  BY <1>0, <1>2, <1>3, LenProperties, Numbers DEF HasRoom
<1>5. /\ \A d \in Callers : d # c => callers'[d] = callers[d]
      /\ callers'[c] = [callers[c] EXCEPT !.at = "admitted"]
      /\ timestamps'[o] = new
      /\ \A p \in Objects : p # o => timestamps'[p] = timestamps[p]
      /\ sent'[k] = new
  BY <1>0, <1>1 DEF Inv, Sound, Typed
<1> HIDE DEF new
<1>6. /\ callers'[c].at = "admitted"
      /\ callers'[c].object = o
      /\ callers'[c].key = k
  <2>1. callers[c] \in Acquiring
    BY <1>0, Fields DEF Inv, InAcquire
  <2> QED
    BY <2>1, <1>5 DEF Acquiring
<1>7. QueuesAreInTheMap'
  BY <1>0, <1>1, <1>5, <1>6 DEF QueuesAreInTheMap, InAcquire
<1>8. WindowIsKept'
  <2>1. \A p \in Objects : p # o => timestamps'[p] = <<>>
    BY <1>1, <1>5
  <2>2. \A j \in Keys : j = k /\ states'[j] = o
    BY <1>0, <1>1
  <2> QED
    BY <2>1, <2>2, <1>1, <1>3, <1>5 DEF WindowIsKept, Mapped
<1>9. NewestIsFresh'
  <2> SUFFICES ASSUME NEW d \in Callers, callers'[d].at = "admitted"
               PROVE  callers'[d].object = o
    BY <1>3, <1>5 DEF NewestIsFresh
  <2>1. CASE d = c
    BY <2>1, <1>6
  <2>2. CASE d # c
    BY <2>2, <1>1, <1>5 DEF InAcquire
  <2> QED
    BY <2>1, <2>2
<1>10. WindowBound'
  BY <1>1, <1>4, <1>5 DEF WindowBound
<1> QED
  BY <1>7, <1>8, <1>9, <1>10 DEF Inv, OneToken

\* Pruning takes nothing that counts.
LEMMA SleepKeepsInv ==
  ASSUME Inv, Sound', NEW c \in Callers, Sleep(c)
  PROVE  Inv'
PROOF
<1> DEFINE o    == callers[c].object
           k    == callers[c].key
           kept == InWindow(timestamps[o])
<1>0. /\ callers[c].at = "queued"
      /\ timestamps' = [timestamps EXCEPT ![o] = kept]
      /\ callers' = [callers EXCEPT ![c].at = "sleeping", ![c].wait = WaitMs(kept)]
      /\ UNCHANGED <<states, queue, sent>>
  BY DEF Sleep, AtHead, Prune
<1>1. /\ o \in Objects /\ o # None
      /\ k \in Keys /\ Keys = {k}
      /\ states[k] = o
      /\ sent[k] = kept
      /\ timestamps[o] \in Seq(Ages) /\ Descends(timestamps[o])
      /\ \A p \in Objects : p # o => timestamps[p] = <<>>
      /\ \A d \in Callers : InAcquire(d) =>
           callers[d].object = o /\ callers[d].key = k
  BY <1>0, OneQueue DEF InAcquire
<1>2. /\ InWindow(kept) = kept
      /\ timestamps[o] # <<>> /\ timestamps[o][Len(timestamps[o])] = 0 =>
           kept # <<>> /\ kept[Len(kept)] = 0
  BY <1>1, PruneKeeps
<1> HIDE DEF kept
<1>3. /\ \A d \in Callers : d # c => callers'[d] = callers[d]
      /\ callers'[c] = [callers[c] EXCEPT !.at = "sleeping", !.wait = WaitMs(kept)]
      /\ timestamps'[o] = kept
      /\ \A p \in Objects : p # o => timestamps'[p] = timestamps[p]
  BY <1>0, <1>1 DEF Inv, Sound, Typed
<1>4. /\ callers'[c].at = "sleeping"
      /\ callers'[c].object = o
      /\ callers'[c].key = k
  <2>1. callers[c] \in Acquiring
    BY <1>0, Fields DEF Inv, InAcquire
  <2> QED
    BY <2>1, <1>3 DEF Acquiring
<1>5. QueuesAreInTheMap'
  <2> SUFFICES ASSUME NEW d \in Callers, InAcquire(d)'
               PROVE  states'[callers'[d].key] = callers'[d].object
    BY DEF QueuesAreInTheMap
  <2>1. CASE d = c
    BY <2>1, <1>0, <1>1, <1>4
  <2>2. CASE d # c
    <3>1. callers'[d] = callers[d]
      BY <2>2, <1>3
    <3>2. InAcquire(d)
      BY <3>1 DEF InAcquire
    <3> QED
      BY <3>1, <3>2, <1>0, <1>1
  <2> QED
    BY <2>1, <2>2
<1>6. WindowIsKept'
  <2>1. \A p \in Objects : p # o => timestamps'[p] = <<>>
    BY <1>1, <1>3
  <2>2. \A j \in Keys : j = k /\ states'[j] = o /\ sent'[j] = kept
    BY <1>0, <1>1
  <2> QED
    BY <2>1, <2>2, <1>1, <1>2, <1>3 DEF WindowIsKept, Mapped
<1>7. NewestIsFresh'
  <2> SUFFICES ASSUME NEW d \in Callers, callers'[d].at = "admitted"
               PROVE  /\ callers'[d].object = o
                      /\ kept # <<>> /\ kept[Len(kept)] = 0
    BY <1>3 DEF NewestIsFresh
  <2>1. d # c /\ callers'[d] = callers[d]
    BY <1>3, <1>4
  <2>2. callers[d].object = o
    BY <2>1, <1>1 DEF InAcquire
  <2> QED
    BY <2>1, <2>2, <1>2 DEF Inv, NewestIsFresh
<1>8. WindowBound'
  BY <1>0 DEF Inv, WindowBound
<1> QED
  BY <1>5, <1>6, <1>7, <1>8 DEF Inv, OneToken

\* The timestamp of the admitted caller itself keeps the state in the map.
LEMMA EvictKeepsInv ==
  ASSUME Inv, Sound', NEW c \in Callers, Evict(c)
  PROVE  Inv'
PROOF
<1> DEFINE o    == callers[c].object
           k    == callers[c].key
           kept == InWindow(timestamps[o])
           gone == [at |-> "fetching", key |-> k, attempt |-> callers[c].attempt]
<1>0. /\ callers[c].at = "admitted"
      /\ states' = [j \in Keys |->
           IF states[j] # None /\ Stale(timestamps[states[j]]) THEN None ELSE states[j]]
      /\ timestamps' = [p \in Objects |->
           CASE Mapped(states, p) -> InWindow(timestamps[p])
             [] ~Mapped(states, p) /\ HeldBy(Callers \ {c}, p) -> timestamps[p]
             [] OTHER -> <<>>]
      /\ callers' = [callers EXCEPT ![c] = gone]
      /\ UNCHANGED <<queue, sent>>
  BY DEF Evict, Prune
<1>1. /\ o \in Objects /\ o # None
      /\ k \in Keys /\ Keys = {k}
      /\ states[k] = o
      /\ sent[k] = kept
      /\ timestamps[o] \in Seq(Ages) /\ Descends(timestamps[o])
      /\ \A p \in Objects : p # o => timestamps[p] = <<>>
      /\ \A d \in Callers : InAcquire(d) =>
           callers[d].object = o /\ callers[d].key = k
  BY <1>0, OneQueue DEF InAcquire
<1>2. /\ InWindow(kept) = kept
      /\ kept # <<>> /\ kept[Len(kept)] = 0
  BY <1>0, <1>1, PruneKeeps DEF Inv, NewestIsFresh
<1>3. states' = states
  <2>1. ~Stale(timestamps[o])
    BY <1>2 DEF Stale, Prune
  <2>2. \A j \in Keys : states'[j] = states[j]
    BY <2>1, <1>0, <1>1
  <2> QED
    BY <2>2, <1>0 DEF Inv, Sound, Typed
<1>4. timestamps'[o] = kept /\ \A p \in Objects : p # o => timestamps'[p] = <<>>
  <2>1. \A p \in Objects : Mapped(states, p) <=> p = o
    BY <1>1 DEF Mapped
  <2>2. \A p \in Objects :
          timestamps'[p] = IF Mapped(states, p) THEN InWindow(timestamps[p])
                           ELSE IF HeldBy(Callers \ {c}, p) THEN timestamps[p] ELSE <<>>
    BY <1>0
  <2> QED
    BY <2>1, <2>2, <1>1
<1> HIDE DEF kept
<1>5. /\ \A d \in Callers : d # c => callers'[d] = callers[d]
      /\ callers'[c].at = "fetching"
  BY <1>0 DEF Inv, Sound, Typed
<1>6. QueuesAreInTheMap'
  BY <1>3, <1>5 DEF Inv, QueuesAreInTheMap, InAcquire
<1>7. WindowIsKept'
  <2>1. \A j \in Keys : j = k /\ states'[j] = o /\ sent'[j] = kept
    BY <1>0, <1>1, <1>3
  <2> QED
    BY <2>1, <1>1, <1>2, <1>4 DEF WindowIsKept, Mapped
<1>8. NewestIsFresh'
  BY <1>1, <1>2, <1>4, <1>5 DEF NewestIsFresh, InAcquire
<1>9. WindowBound'
  BY <1>0 DEF Inv, WindowBound
<1> QED
  BY <1>6, <1>7, <1>8, <1>9 DEF Inv, OneToken

\* What was sent leaves the window together with its timestamp.
LEMMA TickKeepsInv ==
  ASSUME Inv, Sound', Tick
  PROVE  Inv'
PROOF
<1>0. /\ timestamps' = [o \in Objects |-> Later(timestamps[o])]
      /\ sent' = [k \in Keys |-> InWindow(Plus1(sent[k]))]
      /\ UNCHANGED <<states, queue>>
      /\ \A c \in Callers :
           /\ callers[c].at # "admitted"
           /\ callers'[c].at = callers[c].at
           /\ InAcquire(c) => callers'[c].key = callers[c].key
                              /\ callers'[c].object = callers[c].object
  BY Ticking DEF Inv
<1>1. InWindow(<<>>) = <<>> /\ Later(<<>>) = <<>> /\ Plus1(<<>>) = <<>>
  <2>1. InWindow(<<>>) = <<>>
    BY EmptyWindow
  <2>2. Later(<<>>) \in [1 .. 0 -> Nat] /\ Plus1(<<>>) \in [1 .. 0 -> Nat]
    BY DEF Later, Plus1
  <2>3. /\ Later(<<>>) \in Seq(Nat) /\ Len(Later(<<>>)) = 0
        /\ Plus1(<<>>) \in Seq(Nat) /\ Len(Plus1(<<>>)) = 0
    BY <2>2, FunctionIsSeq
  <2> QED
    BY <2>1, <2>3, EmptySeq
<1>2. \A k \in Keys : sent'[k] =
        IF states[k] = None THEN <<>> ELSE InWindow(timestamps'[states[k]])
  <2> TAKE k \in Keys
  <2>1. CASE states[k] = None
    BY <2>1, <1>0, <1>1 DEF Inv, WindowIsKept
  <2>2. CASE states[k] # None
    <3>1. /\ states[k] \in Objects
          /\ timestamps[states[k]] \in Seq(Ages)
          /\ Descends(timestamps[states[k]])
      BY <2>2 DEF Inv, Sound, Typed
    <3>2. sent[k] = InWindow(timestamps[states[k]])
      BY <2>2 DEF Inv, WindowIsKept
    <3>3. InWindow(Plus1(sent[k])) = InWindow(Later(timestamps[states[k]]))
      BY <3>1, <3>2, AgeTogether
    <3> QED
      BY <3>1, <3>3, <2>2, <1>0
  <2> QED
    BY <2>1, <2>2
<1>3. QueuesAreInTheMap'
  BY <1>0 DEF Inv, QueuesAreInTheMap, InAcquire
<1>4. WindowIsKept'
  BY <1>0, <1>1, <1>2 DEF Inv, WindowIsKept, Mapped
<1>5. NewestIsFresh'
  BY <1>0 DEF NewestIsFresh
<1>6. WindowBound'
  <2> SUFFICES ASSUME NEW k \in Keys PROVE Len(sent'[k]) <= MaxRequests
    BY DEF WindowBound
  <2>1. /\ sent[k] \in Seq(0 .. Window - 1)
        /\ Descends(sent[k])
        /\ Len(sent[k]) <= MaxRequests
    BY DEF Inv, Sound, Typed, WindowBound
  <2>2. Plus1(sent[k]) \in Seq(Nat) /\ Len(Plus1(sent[k])) = Len(sent[k])
    <3>1. Ages \subseteq Nat
      BY Numbers DEF Ages
    <3> QED
      BY <2>1, <3>1, Plus1Descends, SeqMonotonic
  <2>3. /\ InWindow(Plus1(sent[k])) \in Seq(Nat)
        /\ Len(InWindow(Plus1(sent[k]))) <= Len(sent[k])
    BY <2>2, InWindowLen
  <2>4. Len(sent[k]) \in Nat /\ Len(sent'[k]) \in Nat /\ Len(sent'[k]) <= Len(sent[k])
    BY <2>1, <2>3, <1>0, LenProperties
  <2> QED
    BY <2>1, <2>4, Numbers
<1> QED
  BY <1>3, <1>4, <1>5, <1>6 DEF Inv, OneToken

LEMMA InitHasInv ==
  ASSUME OneToken, Init
  PROVE  Inv
PROOF
<1>1. Sound
  BY InitIsSound
<1>2. WindowIsKept /\ WindowBound
  BY Numbers DEF Init, WindowIsKept, WindowBound
<1>3. QueuesAreInTheMap /\ NewestIsFresh
  BY DEF Init, Idle, QueuesAreInTheMap, NewestIsFresh, InAcquire
<1> QED
  BY <1>1, <1>2, <1>3 DEF Inv

LEMMA StepKeepsInv ==
  ASSUME Inv, [Next]_vars
  PROVE  Inv'
PROOF
<1>0. Sound /\ Sound'
  BY StepIsSound DEF Inv
<1>1. CASE UNCHANGED vars
  BY <1>0, <1>1 DEF vars, Inv, OneToken, QueuesAreInTheMap, InAcquire, WindowIsKept,
                    Mapped, NewestIsFresh, WindowBound
<1>2. ASSUME NEW c \in Callers, NEW key \in Keys, StartFetch(c, key)
      PROVE  Inv'
  BY <1>0, <1>2, AcquireKeepsInv, Numbers DEF StartFetch
<1>3. ASSUME NEW c \in Callers, Retry(c)
      PROVE  Inv'
  <2>1. callers[c] \in Fetching
    BY <1>0, <1>3, OutsideAcquire DEF Retry, Sound, Typed
  <2> QED
    BY <2>1, <1>0, <1>3, AcquireKeepsInv DEF Retry, Fetching
<1> QED
  BY <1>0, <1>1, <1>2, <1>3, LeaveKeepsInv, TakeSlotKeepsInv, SleepKeepsInv,
     EvictKeepsInv, TickKeepsInv DEF Next

-----------------------------------------------------------------------------
\* The timers of acquire fit the windows they wait for, with any number of tokens,
\* also in states that the map has forgotten (ynabRateLimiter.ts 48-53).
THEOREM SleepsFit == Spec => []NeverOversleeps
PROOF
<1>1. Sound => NeverOversleeps
  BY DEF Sound
<1> QED
  BY <1>1, InitIsSound, StepIsSound, PTL DEF Spec

\* With one token the state of everybody in acquire stays in the map, beside the
\* types (ynabRateLimiter.ts 62-87).
THEOREM TypeCorrect ==
  ASSUME OneToken
  PROVE  Spec => []TypeOK
PROOF
<1>1. Inv => TypeOK
  BY DEF Inv, Sound, Typed, TypeOK, Ages
<1> QED
  BY <1>1, InitHasInv, StepKeepsInv, PTL DEF Spec

\* One token is used at most MaxRequests times in any window, however its calls
\* overlap, fail and are retried (ynabRateLimiter.ts 37-60).
THEOREM WindowHolds ==
  ASSUME OneToken
  PROVE  Spec => []WindowBound
PROOF
<1>1. Inv => WindowBound
  BY DEF Inv
<1> QED
  BY <1>1, InitHasInv, StepKeepsInv, PTL DEF Spec
=============================================================================
