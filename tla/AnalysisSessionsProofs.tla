----------------------- MODULE AnalysisSessionsProofs -----------------------
(***************************************************************************)
(* Within the life of a server a token names one analysis, for exactly its *)
(* time to live, for all numbers of callers, plans, analyses and restarts. *)
(***************************************************************************)
EXTENDS AnalysisSessions, TLAPS

USE DEF Analyses, Tokens, Given

\* No analysis was made, and no token given, that the counters do not count.
Counted ==
  /\ counter <= made
  /\ \A a \in Analyses : Given(a) => a <= made /\ given[a].restarts <= restarts
  /\ \A a \in Current : given[a].token <= counter

\* The tokens of the current life are all different.
TokensDiffer ==
  \A a, b \in Current : given[a].token = given[b].token => a = b

\* A session is stored under the token of its analysis, and its life and the age of
\* that analysis add up.
Filed ==
  \A t \in Tokens : sessions[t] # None =>
    /\ sessions[t].analysis \in Current
    /\ given[sessions[t].analysis].token = t
    /\ sessions[t].left + given[sessions[t].analysis].age = Ttl

Bookkeeping == Counted /\ TokensDiffer /\ Filed

Inv == TypeOK /\ Bookkeeping /\ KeptForItsTtl

\* The first state: nothing stored and nothing given.
LEMMA InitEstablishes == Init => Inv
PROOF
  BY SessionsAssumption, NoneAssumption
     DEF Init, Inv, TypeOK, Bookkeeping, Counted, TokensDiffer, Filed, KeptForItsTtl, Current,
         CallerStates, Idle

\* Under the invariant a token in use is never the next one: createAnalysisSession
\* overwrites nothing.
LEMMA CreateKeepsInv ==
  ASSUME Inv, NEW c \in Callers, NEW kind \in Kinds, NEW plan \in Plans,
         Create(c, kind, plan)
  PROVE  Inv'
PROOF
<1> DEFINE new   == [kind |-> kind, plan |-> plan, left |-> Ttl, analysis |-> made + 1]
           entry == [token |-> counter + 1, restarts |-> restarts, age |-> 0]
<1>1. /\ counter' = counter + 1
      /\ made < MaxAnalyses
      /\ made' = made + 1
      /\ restarts' = restarts
      /\ sessions' = [sessions EXCEPT ![counter + 1] = new]
      /\ given' = [given EXCEPT ![made + 1] = entry]
      /\ callers' = [callers EXCEPT ![c] = Idle]
  BY DEF Create, NextToken
<1>2. counter + 1 \in Tokens /\ made + 1 \in Analyses
  BY <1>1, SessionsAssumption DEF Inv, TypeOK, Bookkeeping, Counted
<1>3. new \in Sessions /\ entry \in Answers
  BY <1>2, SessionsAssumption DEF Inv, TypeOK, Sessions, Answers
<1>4. new # None /\ entry # None
  BY <1>3, NoneAssumption
<1>5. TypeOK'
  BY <1>1, <1>2, <1>3, SessionsAssumption DEF Inv, TypeOK, CallerStates, Idle
<1>6. \A a \in Analyses : a # made + 1 => given'[a] = given[a]
  BY <1>1 DEF Inv, TypeOK
<1>7. given'[made + 1] = entry /\ ~Given(made + 1)
  BY <1>1, <1>2 DEF Inv, TypeOK, Bookkeeping, Counted
<1>8. \A t \in Tokens : t # counter + 1 => sessions'[t] = sessions[t]
  BY <1>1 DEF Inv, TypeOK
<1>9. sessions'[counter + 1] = new
  BY <1>1, <1>2 DEF Inv, TypeOK
<1>10. Current' = Current \cup {made + 1}
  BY <1>1, <1>2, <1>4, <1>6, <1>7 DEF Current
<1>11. \A a \in Current : given[a].token # counter + 1 /\ given[a].restarts = restarts
  BY SessionsAssumption DEF Inv, TypeOK, Bookkeeping, Counted, Current, Answers
<1>12. Counted'
  <2>1. counter' <= made'
    BY <1>1 DEF Inv, TypeOK, Bookkeeping, Counted
  <2>2. ASSUME NEW a \in Analyses, Given(a)'
        PROVE  a <= made' /\ given'[a].restarts <= restarts'
    <3>1. CASE a = made + 1
      BY <3>1, <1>1, <1>7 DEF Inv, TypeOK
    <3>2. CASE a # made + 1
      BY <2>2, <3>2, <1>1, <1>6 DEF Inv, TypeOK, Bookkeeping, Counted
    <3> QED
      BY <3>1, <3>2
  <2>3. ASSUME NEW a \in Current' PROVE given'[a].token <= counter'
    <3>1. CASE a = made + 1
      BY <3>1, <1>1, <1>7 DEF Inv, TypeOK
    <3>2. CASE a # made + 1
      <4>1. a \in Current /\ given'[a] = given[a]
        BY <2>3, <3>2, <1>6, <1>10 DEF Current
      <4>2. given[a].token \in Nat /\ given[a].token <= counter
        BY <4>1 DEF Inv, TypeOK, Bookkeeping, Counted, Current, Answers
      <4> QED
        BY <4>1, <4>2, <1>1 DEF Inv, TypeOK
    <3> QED
      BY <3>1, <3>2
  <2> QED
    BY <2>1, <2>2, <2>3 DEF Counted
<1>13. TokensDiffer'
  BY <1>6, <1>7, <1>10, <1>11 DEF Inv, Bookkeeping, TokensDiffer, Current
<1>14. Filed'
  <2> SUFFICES ASSUME NEW t \in Tokens, sessions'[t] # None
               PROVE  /\ sessions'[t].analysis \in Current'
                      /\ given'[sessions'[t].analysis].token = t
                      /\ sessions'[t].left + given'[sessions'[t].analysis].age = Ttl
    BY DEF Filed
  <2>1. CASE t = counter + 1
    BY <2>1, <1>7, <1>9, <1>10, SessionsAssumption
  <2>2. CASE t # counter + 1
    BY <2>2, <1>6, <1>7, <1>8, <1>10 DEF Inv, Bookkeeping, Filed, Current
  <2> QED
    BY <2>1, <2>2
<1>15. KeptForItsTtl'
  <2> SUFFICES ASSUME NEW a \in Current', given'[a].age < Ttl
               PROVE  /\ sessions'[given'[a].token] # None
                      /\ sessions'[given'[a].token].left > 0
    BY DEF KeptForItsTtl, Live
  <2>1. CASE a = made + 1
    BY <2>1, <1>4, <1>7, <1>9, SessionsAssumption
  <2>2. CASE a # made + 1
    <3>1. a \in Current /\ given'[a] = given[a]
      BY <2>2, <1>6, <1>10 DEF Current
    <3>2. given[a].token \in Tokens /\ given[a].token # counter + 1
      BY <3>1, <1>11 DEF Inv, TypeOK, Current, Answers
    <3>3. sessions[given[a].token] # None /\ sessions[given[a].token].left > 0
      BY <3>1 DEF Inv, KeptForItsTtl, Live
    <3> QED
      BY <3>1, <3>2, <3>3, <1>8
  <2> QED
    BY <2>1, <2>2
<1> QED
  BY <1>5, <1>12, <1>13, <1>14, <1>15 DEF Inv, Bookkeeping

\* getAnalysisSession takes only dead sessions out.
LEMMA LookKeepsInv ==
  ASSUME Inv, NEW token \in Tokens, sessions' = AfterLook(token),
         callers' \in [Callers -> CallerStates],
         UNCHANGED <<counter, given, made, restarts>>
  PROVE  Inv'
PROOF
<1>1. \A t \in Tokens :
        \/ sessions'[t] = sessions[t]
        \/ sessions'[t] = None /\ ~Live(t)
  BY DEF Inv, TypeOK, AfterLook
<1>2. Current' = Current
  BY DEF Current
<1>3. TypeOK'
  BY DEF Inv, TypeOK, AfterLook
<1>4. Bookkeeping'
  BY <1>1, <1>2 DEF Inv, Bookkeeping, Counted, TokensDiffer, Filed
<1>5. KeptForItsTtl'
  <2> SUFFICES ASSUME NEW a \in Current, given[a].age < Ttl
               PROVE  /\ sessions'[given[a].token] # None
                      /\ sessions'[given[a].token].left > 0
    BY <1>2 DEF KeptForItsTtl, Live
  <2>1. given[a].token \in Tokens
    BY DEF Inv, TypeOK, Current, Answers
  <2> QED
    BY <1>1, <2>1 DEF Inv, KeptForItsTtl, Live
<1> QED
  BY <1>3, <1>4, <1>5 DEF Inv

\* A unit of time goes from the life of every live session to the age of its
\* analysis.
LEMMA TickKeepsInv == Inv /\ Tick => Inv'
PROOF
<1> SUFFICES ASSUME Inv, Tick PROVE Inv'
  OBVIOUS
<1>1. UNCHANGED <<counter, callers, made, restarts>>
  BY DEF Tick
<1>2. \A a \in Analyses :
        given'[a] = IF Given(a) /\ given[a].age < Ttl
                    THEN [given[a] EXCEPT !.age = @ + 1] ELSE given[a]
  BY DEF Tick
<1>3. \A t \in Tokens :
        sessions'[t] = IF Live(t) THEN [sessions[t] EXCEPT !.left = @ - 1] ELSE sessions[t]
  BY DEF Tick
<1>4. \A a \in Analyses : Given(a) =>
        /\ given[a] \in Answers
        /\ given'[a] \in Answers
        /\ given'[a].token = given[a].token
        /\ given'[a].restarts = given[a].restarts
        /\ given'[a].age = IF given[a].age < Ttl THEN given[a].age + 1 ELSE given[a].age
  <2> SUFFICES ASSUME NEW a \in Analyses, Given(a)
               PROVE  /\ given[a] \in Answers
                      /\ given'[a] \in Answers
                      /\ given'[a].token = given[a].token
                      /\ given'[a].restarts = given[a].restarts
                      /\ given'[a].age =
                           IF given[a].age < Ttl THEN given[a].age + 1 ELSE given[a].age
    OBVIOUS
  <2>1. given[a] \in Answers
    BY DEF Inv, TypeOK
  <2>2. CASE given[a].age < Ttl
    <3>1. given'[a] = [given[a] EXCEPT !.age = given[a].age + 1]
      BY <1>2, <2>2
    <3>2. given[a].age + 1 \in 0 .. Ttl
      BY <2>1, <2>2, SessionsAssumption DEF Answers
    <3> QED
      BY <2>1, <2>2, <3>1, <3>2 DEF Answers
  <2>3. CASE ~(given[a].age < Ttl)
    BY <1>2, <2>1, <2>3
  <2> QED
    BY <2>2, <2>3
<1>5. \A t \in Tokens : sessions[t] # None =>
        /\ sessions[t] \in Sessions
        /\ sessions'[t] \in Sessions
        /\ sessions'[t].analysis = sessions[t].analysis
        /\ sessions'[t].left = IF sessions[t].left > 0
                               THEN sessions[t].left - 1 ELSE sessions[t].left
  <2> SUFFICES ASSUME NEW t \in Tokens, sessions[t] # None
               PROVE  /\ sessions[t] \in Sessions
                      /\ sessions'[t] \in Sessions
                      /\ sessions'[t].analysis = sessions[t].analysis
                      /\ sessions'[t].left = IF sessions[t].left > 0
                                             THEN sessions[t].left - 1 ELSE sessions[t].left
    OBVIOUS
  <2>1. sessions[t] \in Sessions
    BY DEF Inv, TypeOK
  <2>2. CASE sessions[t].left > 0
    <3>1. sessions'[t] = [sessions[t] EXCEPT !.left = sessions[t].left - 1]
      BY <1>3, <2>2 DEF Live
    <3>2. sessions[t].left - 1 \in 0 .. Ttl
      BY <2>1, <2>2, SessionsAssumption DEF Sessions
    <3> QED
      BY <2>1, <2>2, <3>1, <3>2 DEF Sessions
  <2>3. CASE ~(sessions[t].left > 0)
    BY <1>3, <2>1, <2>3 DEF Live
  <2> QED
    BY <2>2, <2>3
<1>6. /\ \A a \in Analyses : given'[a] # None <=> given[a] # None
      /\ \A t \in Tokens : sessions'[t] # None <=> sessions[t] # None
  BY <1>2, <1>3, <1>4, <1>5, NoneAssumption DEF Live
<1>7. TypeOK'
  <2>1. given' \in [Analyses -> Answers \cup {None}]
    BY <1>4, <1>6 DEF Tick
  <2>2. sessions' \in [Tokens -> Sessions \cup {None}]
    BY <1>5, <1>6 DEF Tick
  <2> QED
    BY <1>1, <2>1, <2>2 DEF Inv, TypeOK
<1>8. Current' = Current
  BY <1>1, <1>4, <1>6 DEF Current
<1>9. Counted' /\ TokensDiffer'
  BY <1>1, <1>4, <1>6, <1>8 DEF Inv, Bookkeeping, Counted, TokensDiffer, Current
<1>10. Filed'
  <2> SUFFICES ASSUME NEW t \in Tokens, sessions'[t] # None
               PROVE  /\ sessions'[t].analysis \in Current
                      /\ given'[sessions'[t].analysis].token = t
                      /\ sessions'[t].left + given'[sessions'[t].analysis].age = Ttl
    BY <1>8 DEF Filed
  <2>1. /\ sessions[t] # None
        /\ sessions[t].analysis \in Current
        /\ given[sessions[t].analysis].token = t
        /\ sessions[t].left + given[sessions[t].analysis].age = Ttl
    BY <1>6 DEF Inv, Bookkeeping, Filed
  <2>2. /\ sessions[t].left \in 0 .. Ttl
        /\ given[sessions[t].analysis].age \in 0 .. Ttl
    BY <2>1, <1>4, <1>5 DEF Sessions, Answers, Current
  <2> QED
    BY <2>1, <2>2, <1>4, <1>5, SessionsAssumption DEF Current
<1>11. KeptForItsTtl'
  <2> SUFFICES ASSUME NEW a \in Current, given'[a].age < Ttl
               PROVE  /\ sessions'[given'[a].token] # None
                      /\ sessions'[given'[a].token].left > 0
    BY <1>8 DEF KeptForItsTtl, Live
  <2>1. given[a].token \in Tokens /\ given'[a].token = given[a].token
    BY <1>4 DEF Current, Answers
  <2>2. given[a].age < Ttl
    BY <1>4, SessionsAssumption DEF Current, Answers
  <2>3. sessions[given[a].token] # None
    BY <2>2 DEF Inv, KeptForItsTtl, Live
  <2>4. sessions'[given[a].token].analysis = a
    BY <2>1, <2>3, <1>5 DEF Inv, Bookkeeping, Filed, TokensDiffer
  <2>5. /\ sessions'[given[a].token] # None
        /\ sessions'[given[a].token].left + given'[a].age = Ttl
    BY <2>1, <2>3, <2>4, <1>6, <1>10 DEF Filed
  <2>6. sessions'[given[a].token].left \in Nat /\ given'[a].age \in Nat
    BY <2>1, <2>3, <1>4, <1>5, SessionsAssumption DEF Current, Sessions, Answers
  <2> QED
    BY <2>1, <2>5, <2>6, SessionsAssumption
<1> QED
  BY <1>7, <1>9, <1>10, <1>11 DEF Inv, Bookkeeping

\* The new server knows no session, and no analysis is of its life.
LEMMA RestartKeepsInv == Inv /\ Restart => Inv'
PROOF
<1> SUFFICES ASSUME Inv, Restart PROVE Inv'
  OBVIOUS
<1>1. Current' = {}
  BY SessionsAssumption DEF Inv, TypeOK, Bookkeeping, Counted, Restart, Current, Answers
<1>2. TypeOK'
  BY SessionsAssumption DEF Inv, TypeOK, Restart, CallerStates, Idle
<1>3. Counted'
  BY <1>1, SessionsAssumption DEF Inv, TypeOK, Bookkeeping, Counted, Restart, Answers
<1>4. TokensDiffer' /\ Filed' /\ KeptForItsTtl'
  BY <1>1 DEF TokensDiffer, Filed, KeptForItsTtl, Restart
<1> QED
  BY <1>2, <1>3, <1>4 DEF Inv, Bookkeeping

\* Every action keeps the invariant.
LEMMA NextKeepsInv == Inv /\ [Next]_vars => Inv'
PROOF
<1> SUFFICES ASSUME Inv, [Next]_vars PROVE Inv'
  OBVIOUS
<1>1. ASSUME NEW c \in Callers, NEW kind \in Kinds, NEW plan \in Plans,
             StartAnalysis(c, kind, plan)
      PROVE  Inv'
  BY <1>1 DEF StartAnalysis, Inv, TypeOK, Bookkeeping, Counted, TokensDiffer, Filed,
              KeptForItsTtl, Live, Current, CallerStates
<1>2. ASSUME NEW c \in Callers, FinishAnalysis(c) PROVE Inv'
  <2>1. callers[c].kind \in Kinds /\ callers[c].plan \in Plans
    BY <1>2 DEF FinishAnalysis, Inv, TypeOK, CallerStates, Idle
  <2> QED
    BY <1>2, <2>1, CreateKeepsInv DEF FinishAnalysis
<1>3. ASSUME NEW c \in Callers, NEW a \in Analyses, NEW asked \in Plans \cup {None},
             StartUpdate(c, a, asked)
      PROVE  Inv'
  <2>1. given[a].token \in Tokens
    BY <1>3 DEF StartUpdate, Inv, TypeOK, Answers
  <2>2. callers' \in [Callers -> CallerStates]
    <3> DEFINE found == sessions[given[a].token]
               plan  == IF asked # None THEN asked ELSE found.plan
    <3>1. CASE Live(given[a].token) /\ found.kind = "spending_anomalies"
      <4>1. found \in Sessions
        BY <2>1, <3>1 DEF Inv, TypeOK, Live
      <4>2. plan \in Plans
        BY <4>1 DEF Sessions
      <4>3. callers' = [callers EXCEPT ![c] =
                          [at |-> "updating", meant |-> a, found |-> found, plan |-> plan]]
        BY <1>3, <3>1 DEF StartUpdate
      <4>4. [at |-> "updating", meant |-> a, found |-> found, plan |-> plan] \in CallerStates
        BY <4>1, <4>2 DEF CallerStates
      <4> QED
        BY <4>3, <4>4 DEF Inv, TypeOK
    <3>2. CASE ~(Live(given[a].token) /\ found.kind = "spending_anomalies")
      BY <1>3, <3>2 DEF StartUpdate, Inv, TypeOK
    <3> QED
      BY <3>1, <3>2
  <2> QED
    BY <1>3, <2>1, <2>2, LookKeepsInv DEF StartUpdate
<1>4. ASSUME NEW c \in Callers, FinishUpdate(c) PROVE Inv'
  <2>1. "spending_anomalies" \in Kinds /\ callers[c].plan \in Plans
    BY <1>4 DEF FinishUpdate, Inv, TypeOK, CallerStates, Idle, Kinds
  <2> QED
    BY <1>4, <2>1, CreateKeepsInv DEF FinishUpdate
<1>5. ASSUME NEW c \in Callers, NEW a \in Analyses, Refine(c, a) PROVE Inv'
  <2>1. given[a].token \in Tokens /\ callers' \in [Callers -> CallerStates]
    BY <1>5 DEF Refine, Inv, TypeOK, Answers
  <2> QED
    BY <1>5, <2>1, LookKeepsInv DEF Refine
<1>6. ASSUME NEW c \in Callers, Fail(c) PROVE Inv'
  BY <1>6 DEF Fail, Inv, TypeOK, Bookkeeping, Counted, TokensDiffer, Filed,
              KeptForItsTtl, Live, Current, CallerStates, Idle
<1>7. CASE Tick
  BY <1>7, TickKeepsInv
<1>8. CASE Restart
  BY <1>8, RestartKeepsInv
<1>9. CASE UNCHANGED vars
  BY <1>9 DEF vars, Inv, TypeOK, Bookkeeping, Counted, TokensDiffer, Filed,
              KeptForItsTtl, Live, Current
<1> QED
  BY <1>1, <1>2, <1>3, <1>4, <1>5, <1>6, <1>7, <1>8, <1>9 DEF Next

\* The invariant holds in every behaviour.
LEMMA InvHolds == Spec => []Inv
PROOF
  BY InitEstablishes, NextKeepsInv, PTL DEF Spec

\* Every variable keeps its type.
THEOREM TypeCorrect == Spec => []TypeOK
PROOF
<1>1. Inv => TypeOK
  BY DEF Inv
<1> QED
  BY <1>1, InvHolds, PTL

\* A token names no other analysis than the one it was given for, until a restart.
THEOREM TokensAreUnique == Spec => []TokensAreNotReused
PROOF
<1>1. Inv => TokensAreNotReused
  <2> SUFFICES ASSUME Inv, NEW a \in Current, sessions[given[a].token] # None
               PROVE  sessions[given[a].token].analysis = a
    BY DEF TokensAreNotReused
  <2>1. given[a].token \in Tokens
    BY DEF Inv, TypeOK, Current, Answers
  <2> QED
    BY <2>1 DEF Inv, Bookkeeping, Filed, TokensDiffer
<1> QED
  BY <1>1, InvHolds, PTL

\* An analysis can be gone on with for the whole of its time to live.
THEOREM KeptLongEnough == Spec => []KeptForItsTtl
PROOF
<1>1. Inv => KeptForItsTtl
  BY DEF Inv
<1> QED
  BY <1>1, InvHolds, PTL

\* No update starts from an analysis that is older than that.
THEOREM ExpiredIsRefused == Spec => NothingStartsFromExpired
PROOF
<1> DEFINE Fresh(c) ==
      callers[c].at = "idle" /\ callers'[c].at = "updating"
        => given[callers'[c].found.analysis].age < Ttl
<1>1. Inv /\ [Next]_vars => [\A c \in Callers : Fresh(c)]_vars
  <2> SUFFICES ASSUME Inv, Next, NEW c \in Callers,
                      callers[c].at = "idle", callers'[c].at = "updating"
               PROVE  given[callers'[c].found.analysis].age < Ttl
    OBVIOUS
  <2>1. PICK a \in Analyses, asked \in Plans \cup {None} : StartUpdate(c, a, asked)
    <3>1. callers \in [Callers -> CallerStates]
      BY DEF Inv, TypeOK
    <3>2. ASSUME NEW d \in Callers,
                 \/ \E kind \in Kinds, plan \in Plans : StartAnalysis(d, kind, plan)
                 \/ FinishAnalysis(d)
                 \/ FinishUpdate(d)
                 \/ \E b \in Analyses : Refine(d, b)
                 \/ Fail(d)
          PROVE  FALSE
      BY <3>1, <3>2 DEF StartAnalysis, FinishAnalysis, FinishUpdate, Create, Refine, Fail,
                        Idle
    <3>3. ~Tick /\ ~Restart
      BY DEF Tick, Restart, Idle
    <3>4. PICK d \in Callers, b \in Analyses, asked \in Plans \cup {None} :
            StartUpdate(d, b, asked)
      BY <3>2, <3>3 DEF Next
    <3>5. d = c
      BY <3>1, <3>4 DEF StartUpdate
    <3> QED
      BY <3>4, <3>5
  <2>2. /\ Live(given[a].token)
        /\ callers'[c].found = sessions[given[a].token]
    BY <2>1 DEF StartUpdate, Inv, TypeOK
  <2>3. given[a].token \in Tokens
    BY <2>1 DEF StartUpdate, Inv, TypeOK, Answers
  <2>4. /\ sessions[given[a].token] \in Sessions
        /\ sessions[given[a].token].analysis \in Current
        /\ sessions[given[a].token].left
              + given[sessions[given[a].token].analysis].age = Ttl
    BY <2>2, <2>3 DEF Live, Inv, TypeOK, Bookkeeping, Filed
  <2>5. given[sessions[given[a].token].analysis].age \in Nat
    BY <2>4, SessionsAssumption DEF Inv, TypeOK, Current, Answers
  <2> QED
    BY <2>2, <2>4, <2>5, SessionsAssumption DEF Live, Sessions
<1> QED
  BY <1>1, InvHolds, PTL DEF Spec, NothingStartsFromExpired
=============================================================================
