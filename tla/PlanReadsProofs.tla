-------------------------- MODULE PlanReadsProofs --------------------------
(***************************************************************************)
(* Calls that share lookups and reads get the plan they want, share what   *)
(* is on its way, and agree on what they read, for all sets of plans,      *)
(* callers and promises and however often the account changes.             *)
(***************************************************************************)
EXTENDS PlanReads, TLAPS

\* What a call waits for is what it asked for, and the creator of a lookup is the
\* call that its key in the map waits for.
CallersHold ==
  \A c \in Callers :
    /\ callers[c].at = "resolving" =>
         /\ callers[c].asked = None
         /\ promises[callers[c].promise].kind = "lookup"
         /\ promises[callers[c].promise].excluded = callers[c].excluded
         /\ callers[c].creator => resolutions[callers[c].excluded] = callers[c].promise
    /\ callers[c].at = "reading" =>
         /\ promises[callers[c].promise].kind = "read"
         /\ promises[callers[c].promise].plan = callers[c].plan

\* A key is taken out by one call.
OneCreator ==
  \A c, d \in Callers :
    /\ callers[c].at = "resolving"
    /\ callers[d].at = "resolving"
    /\ callers[c].creator
    /\ callers[d].creator
    /\ callers[c].excluded = callers[d].excluded
    => c = d

\* The maps hold promises of what their keys say.
MapsHold ==
  /\ \A k \in ResolutionKeys : resolutions[k] # None =>
       /\ promises[resolutions[k]].kind = "lookup"
       /\ promises[resolutions[k]].excluded = k
  /\ \A p \in Plans : reads[p] # None =>
       /\ promises[reads[p]].kind = "read"
       /\ promises[reads[p]].plan = p

\* What is on its way is in its map, and so is every read that succeeded.
InTheMaps ==
  \A q \in Promises :
    /\ promises[q].kind = "lookup" /\ ~Settled(q) =>
         resolutions[promises[q].excluded] = q
    /\ promises[q].kind = "read" =>
         reads[promises[q].plan] = q \/ Outcome(q) \in {Failed, Missing}

\* A lookup never picks the plan it leaves out.
PicksAnother ==
  \A q \in Promises : promises[q].kind = "lookup" /\ Outcome(q).state = "plan" =>
    Outcome(q).plan # promises[q].excluded

\* What a call was answered is what the map still holds.
AnswersStand ==
  \A c \in Callers : callers[c].at = "answered" =>
    /\ reads[callers[c].plan] # None
    /\ Outcome(reads[callers[c].plan]).state = "data"
    /\ Outcome(reads[callers[c].plan]).version = callers[c].version

Inv ==
  /\ TypeOK
  /\ CallersHold
  /\ OneCreator
  /\ MapsHold
  /\ InTheMaps
  /\ PicksAnother
  /\ AnswersStand
  /\ ReadsTheRightPlan
  /\ FailuresAreNotCached

-----------------------------------------------------------------------------
\* The fields of promises and calls.
LEMMA Fields ==
  ASSUME TypeOK
  PROVE  /\ \A q \in Promises : promises[q].kind = "lookup" =>
              /\ promises[q].excluded \in ResolutionKeys
              /\ Outcome(q) \in Outcomes
         /\ \A q \in Promises : promises[q].kind = "read" =>
              /\ promises[q].plan \in Plans
              /\ Outcome(q) \in Outcomes
         /\ \A q \in Promises : promises[q] # Free =>
              promises[q].kind \in {"lookup", "read"}
         /\ \A c \in Callers : callers[c].at = "resolving" =>
              /\ callers[c].promise \in Promises
              /\ callers[c].excluded \in ResolutionKeys
              /\ callers[c].creator \in BOOLEAN
         /\ \A c \in Callers : callers[c].at = "reading" =>
              /\ callers[c].promise \in Promises
              /\ callers[c].asked \in ResolutionKeys
              /\ callers[c].excluded \in ResolutionKeys
              /\ callers[c].plan \in Plans
         /\ \A c \in Callers : callers[c].at = "answered" =>
              /\ callers[c].plan \in Plans
         /\ \A c \in Callers :
              callers[c].at \in {"idle", "resolving", "reading", "answered", "refused"}
PROOF
  BY DEF TypeOK, PromiseStates, CallerStates, Free, Idle, ResolutionKeys, Outcome

\* What an outcome holds.
LEMMA OutcomeFields ==
  ASSUME NEW o \in Outcomes
  PROVE  /\ o.state = "plan" => o.plan \in Plans
         /\ o.state = "data" => o.version \in 0 .. MaxChanges
         /\ o.state \in {"plan", "data"} => o \notin {Unsettled, Failed, Missing}
         /\ o.state \notin {"plan", "data"} => o \in {Unsettled, Failed, Missing}
PROOF
  BY DEF Outcomes, Unsettled, Failed, Missing

\* Nothing refers to a promise that is free.
LEMMA FreeIsUnused ==
  ASSUME Inv, NEW q \in Promises, promises[q] = Free
  PROVE  /\ \A c \in Callers :
              callers[c].at \in {"resolving", "reading"} => callers[c].promise # q
         /\ \A k \in ResolutionKeys : resolutions[k] # q
         /\ \A p \in Plans : reads[p] # q
PROOF
<1>1. promises[q].kind = "free" /\ q # None
  BY PlansAssumption DEF Free
<1> QED
  BY <1>1 DEF Inv, CallersHold, MapsHold

\* The first state: no promise and no call.
LEMMA InitEstablishes == Init => Inv
PROOF
<1> SUFFICES ASSUME Init PROVE Inv
  OBVIOUS
<1>1. TypeOK
  BY PlansAssumption
     DEF Init, TypeOK, Accounts, ResolutionKeys, PromiseStates, CallerStates
<1> QED
  BY <1>1 DEF Init, Inv, CallersHold, OneCreator, MapsHold, InTheMaps, PicksAnother, AnswersStand,
     ReadsTheRightPlan, FailuresAreNotCached, Idle, Free

\* A call leaves the lookup it waited for: its creator takes the key out, and has an
\* answer then.
Departs(c) ==
  /\ resolutions' \in [ResolutionKeys -> Promises \cup {None}]
  /\ \A k \in ResolutionKeys :
       \/ resolutions'[k] = resolutions[k]
       \/ /\ resolutions'[k] = None
          /\ callers[c].at = "resolving"
          /\ callers[c].creator
          /\ callers[c].excluded = k
          /\ Settled(callers[c].promise)
  /\ callers[c].at = "resolving" /\ callers[c].creator =>
       resolutions'[callers[c].excluded] = None

\* What is referred to in the next state is as it is in held.
Keeps(held) ==
  \A q \in Promises :
    /\ promises'[q] \in {held[q], Free}
    /\ \A c \in Callers :
         callers'[c].at \in {"resolving", "reading"} /\ callers'[c].promise = q =>
           promises'[q] = held[q]
    /\ \A k \in ResolutionKeys : resolutions'[k] = q => promises'[q] = held[q]
    /\ \A p \in Plans : reads'[p] = q => promises'[q] = held[q]

LEMMA CollectKeeps ==
  ASSUME NEW held, promises' = Collect(held, callers', resolutions', reads')
  PROVE  Keeps(held)
PROOF
  BY DEF Collect, Keeps

\* The maps keep their type.
LEMMA CollectTyped ==
  ASSUME NEW held \in [Promises -> PromiseStates], NEW cs, NEW rs, NEW ds
  PROVE  Collect(held, cs, rs, ds) \in [Promises -> PromiseStates]
PROOF
  BY DEF Collect, PromiseStates

\* The lookup's creator leaves it with AfterLookup; who is idle or reads has no
\* lookup to leave.
LEMMA Departure ==
  ASSUME Inv, NEW c \in Callers
  PROVE  /\ callers[c].at = "resolving" /\ Settled(callers[c].promise)
              /\ resolutions' = AfterLookup(c) => Departs(c)
         /\ callers[c].at # "resolving" /\ resolutions' = resolutions => Departs(c)
PROOF
<1>1. ASSUME callers[c].at = "resolving", Settled(callers[c].promise),
             resolutions' = AfterLookup(c)
      PROVE  Departs(c)
  <2>1. callers[c].excluded \in ResolutionKeys
    BY <1>1, Fields DEF Inv
  <2>2. CASE callers[c].creator
    BY <1>1, <2>1, <2>2 DEF Inv, TypeOK, Departs, AfterLookup, ResolutionKey
  <2>3. CASE ~callers[c].creator
    BY <1>1, <2>1, <2>3 DEF Inv, TypeOK, Departs, AfterLookup
  <2> QED
    BY <2>2, <2>3
<1>2. ASSUME callers[c].at # "resolving", resolutions' = resolutions
      PROVE  Departs(c)
  BY <1>2 DEF Inv, TypeOK, Departs
<1> QED
  BY <1>1, <1>2

\* A call goes on to a promise that is already there, or to none.
LEMMA MoveKeepsInv ==
  ASSUME Inv, NEW c \in Callers, NEW goes \in CallerStates,
         callers' = [callers EXCEPT ![c] = goes],
         Departs(c), Keeps(promises), promises' \in [Promises -> PromiseStates],
         UNCHANGED <<configured, account, reads>>,
         goes.at = "resolving" =>
           /\ goes.asked = None
           /\ promises[goes.promise].kind = "lookup"
           /\ promises[goes.promise].excluded = goes.excluded
           /\ ~goes.creator,
         goes.at = "reading" =>
           /\ promises[goes.promise].kind = "read"
           /\ promises[goes.promise].plan = goes.plan,
         goes.at = "answered" =>
           /\ reads[goes.plan] # None
           /\ Outcome(reads[goes.plan]).state = "data"
           /\ Outcome(reads[goes.plan]).version = goes.version,
         goes.at \in {"reading", "answered"} =>
           /\ goes.asked # None => goes.plan = goes.asked
           /\ goes.plan # goes.excluded
  PROVE  Inv'
PROOF
<1>1. callers'[c] = goes /\ \A d \in Callers : d # c => callers'[d] = callers[d]
  BY DEF Inv, TypeOK
<1>2. TypeOK'
  BY DEF Inv, TypeOK, Departs
<1>3. \A d \in Callers : callers'[d].at \in {"resolving", "reading"} =>
        /\ callers'[d].promise \in Promises
        /\ promises'[callers'[d].promise] = promises[callers'[d].promise]
  <2>1. \A d \in Callers : callers'[d].at \in {"resolving", "reading"} =>
          callers'[d].promise \in Promises
    BY <1>2 DEF TypeOK, CallerStates, Idle
  <2> QED
    BY <2>1 DEF Keeps
<1>4. \A p \in Plans : reads[p] # None =>
        reads[p] \in Promises /\ promises'[reads[p]] = promises[reads[p]]
  BY DEF Inv, TypeOK, Keeps
<1>5. \A k \in ResolutionKeys : resolutions'[k] # None =>
        /\ resolutions'[k] \in Promises
        /\ promises'[resolutions'[k]] = promises[resolutions'[k]]
        /\ resolutions'[k] = resolutions[k]
  BY DEF Inv, TypeOK, Keeps, Departs
<1>6. CallersHold'
  <2> SUFFICES ASSUME NEW d \in Callers
               PROVE  (/\ callers[d].at = "resolving" =>
                            /\ callers[d].asked = None
                            /\ promises[callers[d].promise].kind = "lookup"
                            /\ promises[callers[d].promise].excluded = callers[d].excluded
                            /\ callers[d].creator =>
                                 resolutions[callers[d].excluded] = callers[d].promise
                       /\ callers[d].at = "reading" =>
                            /\ promises[callers[d].promise].kind = "read"
                            /\ promises[callers[d].promise].plan = callers[d].plan)'
    BY DEF CallersHold
  <2>1. CASE d = c
    BY <2>1, <1>1, <1>3
  <2>2. CASE d # c
    <3>1. callers'[d] = callers[d]
      BY <2>2, <1>1
    <3>2. ASSUME callers[d].at = "resolving", callers[d].creator
          PROVE  resolutions'[callers[d].excluded] = callers[d].promise
      <4>1. callers[d].excluded \in ResolutionKeys
        BY <3>2, Fields DEF Inv
      <4>2. ~(/\ callers[c].at = "resolving"
              /\ callers[c].creator
              /\ callers[c].excluded = callers[d].excluded)
        BY <2>2, <3>2 DEF Inv, OneCreator
      <4> QED
        BY <3>2, <4>1, <4>2 DEF Inv, CallersHold, Departs
    <3> QED
      BY <3>1, <3>2, <1>3 DEF Inv, CallersHold
  <2> QED
    BY <2>1, <2>2
<1>7. OneCreator'
  BY <1>1 DEF Inv, OneCreator
<1>8. MapsHold'
  BY <1>4, <1>5 DEF Inv, MapsHold
<1>9. InTheMaps'
  <2> SUFFICES ASSUME NEW q \in Promises, promises'[q] # Free
               PROVE  (/\ promises[q].kind = "lookup" /\ promises[q].outcome = Unsettled =>
                            resolutions[promises[q].excluded] = q
                       /\ promises[q].kind = "read" =>
                            \/ reads[promises[q].plan] = q
                            \/ promises[q].outcome \in {Failed, Missing})'
    BY DEF InTheMaps, Settled, Outcome, Free
  <2>1. promises'[q] = promises[q]
    BY DEF Keeps
  <2>2. ASSUME promises[q].kind = "lookup", promises[q].outcome = Unsettled
        PROVE  resolutions'[promises[q].excluded] = q
    <3>1. promises[q].excluded \in ResolutionKeys /\ resolutions[promises[q].excluded] = q
      BY <2>2, Fields DEF Inv, InTheMaps, Settled, Outcome
    <3>2. ASSUME callers[c].at = "resolving", callers[c].creator,
                 callers[c].excluded = promises[q].excluded, Settled(callers[c].promise)
          PROVE  FALSE
      BY <2>2, <3>1, <3>2 DEF Inv, CallersHold, Settled, Outcome
    <3> QED
      BY <3>1, <3>2 DEF Departs
  <2> QED
    BY <2>1, <2>2 DEF Inv, InTheMaps, Outcome
<1>10. PicksAnother'
  BY DEF Inv, PicksAnother, Keeps, Outcome, Free
<1>11. AnswersStand'
  <2> SUFFICES ASSUME NEW d \in Callers, callers'[d].at = "answered"
               PROVE  (/\ reads[callers[d].plan] # None
                       /\ Outcome(reads[callers[d].plan]).state = "data"
                       /\ Outcome(reads[callers[d].plan]).version = callers[d].version)'
    BY DEF AnswersStand
  <2>1. callers'[d].plan \in Plans
    BY <1>2 DEF TypeOK, CallerStates, Idle
  <2>2. /\ reads[callers'[d].plan] # None
        /\ Outcome(reads[callers'[d].plan]).state = "data"
        /\ Outcome(reads[callers'[d].plan]).version = callers'[d].version
    BY <1>1 DEF Inv, AnswersStand
  <2> QED
    BY <2>1, <2>2, <1>4 DEF Outcome
<1>12. ReadsTheRightPlan'
  BY <1>1 DEF Inv, ReadsTheRightPlan
<1>13. FailuresAreNotCached'
  <2>1. \A p \in Plans : reads[p] # None => promises'[reads[p]].outcome \notin {Failed, Missing}
    BY <1>4 DEF Inv, FailuresAreNotCached, Outcome
  <2>2. ASSUME NEW k \in ResolutionKeys, resolutions'[k] # None
        PROVE  \E d \in Callers :
                 /\ callers'[d].at = "resolving"
                 /\ callers'[d].promise = resolutions'[k]
                 /\ callers'[d].creator
    <3>1. PICK d \in Callers :
            /\ callers[d].at = "resolving"
            /\ callers[d].promise = resolutions[k]
            /\ callers[d].creator
      BY <2>2, <1>5 DEF Inv, FailuresAreNotCached
    <3>2. d # c
      <4> SUFFICES ASSUME d = c PROVE FALSE
        OBVIOUS
      <4>1. callers[c].excluded = k
        BY <3>1, <2>2, <1>5 DEF Inv, MapsHold, CallersHold
      <4> QED
        BY <3>1, <4>1, <2>2 DEF Departs
    <3> QED
      BY <3>1, <3>2, <2>2, <1>1, <1>5
  <2> QED
    BY <2>1, <2>2 DEF FailuresAreNotCached, Outcome
<1> QED
  BY <1>2, <1>6, <1>7, <1>8, <1>9, <1>10, <1>11, <1>12, <1>13 DEF Inv

\* A new lookup is the only one with its key: the key was free.
LEMMA StartKeepsInv ==
  ASSUME Inv, NEW c \in Callers, NEW excluded \in ResolutionKeys,
         resolutions[excluded] = None, callers[c].at # "resolving",
         Resolve(c, None, excluded)
  PROVE  Inv'
PROOF
<1> DEFINE q     == Fresh
           new   == [kind |-> "lookup", excluded |-> excluded, outcome |-> Unsettled]
           going == [at |-> "resolving", asked |-> None, excluded |-> excluded,
                     promise |-> q, creator |-> TRUE]
           held  == [promises EXCEPT ![q] = new]
<1>0. /\ q \in Promises
      /\ promises[q] = Free
      /\ callers' = [callers EXCEPT ![c] = going]
      /\ resolutions' = [resolutions EXCEPT ![excluded] = q]
      /\ promises' = Collect(held, callers', resolutions', reads')
      /\ UNCHANGED <<configured, account, reads>>
  BY DEF Resolve, ResolutionKey, SomeFree, Fresh
<1> HIDE DEF q
<1>1. /\ callers'[c] = going
      /\ \A d \in Callers : d # c => callers'[d] = callers[d]
      /\ resolutions'[excluded] = q
      /\ \A k \in ResolutionKeys : k # excluded => resolutions'[k] = resolutions[k]
      /\ held[q] = new
      /\ \A r \in Promises : r # q => held[r] = promises[r]
      /\ reads' = reads
  BY <1>0 DEF Inv, TypeOK
<1>2. Keeps(held) /\ q \in Promises /\ q # None
  BY <1>0, CollectKeeps, PlansAssumption
<1>4. TypeOK'
  <2>1. going \in CallerStates /\ new \in PromiseStates
    BY <1>2 DEF CallerStates, PromiseStates, Outcomes, ResolutionKeys
  <2>2. held \in [Promises -> PromiseStates] /\ callers' \in [Callers -> CallerStates]
    BY <1>0, <2>1 DEF Inv, TypeOK
  <2>3. promises' \in [Promises -> PromiseStates]
    BY <1>0, <2>2, CollectTyped
  <2> QED
    BY <1>0, <2>2, <2>3 DEF Inv, TypeOK
<1> HIDE DEF held
<1>3. /\ \A d \in Callers : callers[d].at \in {"resolving", "reading"} => callers[d].promise # q
      /\ \A k \in ResolutionKeys : resolutions[k] # q
      /\ \A p \in Plans : reads[p] # q
  BY <1>0, FreeIsUnused
<1>5. promises'[q] = new
  BY <1>1, <1>2 DEF Keeps
<1>6. \A d \in Callers : d # c /\ callers[d].at \in {"resolving", "reading"} =>
        promises'[callers[d].promise] = promises[callers[d].promise]
  <2>1. \A d \in Callers : callers[d].at \in {"resolving", "reading"} =>
          callers[d].promise \in Promises
    BY Fields DEF Inv
  <2> QED
    BY <2>1, <1>1, <1>2, <1>3 DEF Keeps
<1>7. \A p \in Plans : reads[p] # None =>
        reads[p] \in Promises /\ promises'[reads[p]] = promises[reads[p]]
  BY <1>1, <1>2, <1>3 DEF Inv, TypeOK, Keeps
<1>8. \A k \in ResolutionKeys : k # excluded /\ resolutions[k] # None =>
        promises'[resolutions[k]] = promises[resolutions[k]]
  BY <1>1, <1>2, <1>3 DEF Inv, TypeOK, Keeps
<1>9. CallersHold'
  <2> SUFFICES ASSUME NEW d \in Callers
               PROVE  (/\ callers[d].at = "resolving" =>
                            /\ callers[d].asked = None
                            /\ promises[callers[d].promise].kind = "lookup"
                            /\ promises[callers[d].promise].excluded = callers[d].excluded
                            /\ callers[d].creator =>
                                 resolutions[callers[d].excluded] = callers[d].promise
                       /\ callers[d].at = "reading" =>
                            /\ promises[callers[d].promise].kind = "read"
                            /\ promises[callers[d].promise].plan = callers[d].plan)'
    BY DEF CallersHold
  <2>1. CASE d = c
    BY <2>1, <1>1, <1>5
  <2>2. CASE d # c
    <3>1. ASSUME callers[d].at = "resolving", callers[d].creator
          PROVE  resolutions'[callers[d].excluded] = callers[d].promise
      <4>1. callers[d].excluded \in ResolutionKeys /\ callers[d].promise \in Promises
        BY <3>1, Fields DEF Inv
      <4>2. resolutions[callers[d].excluded] = callers[d].promise
        BY <3>1 DEF Inv, CallersHold
      <4> QED
        BY <4>1, <4>2, <1>1, PlansAssumption
    <3> QED
      BY <2>2, <3>1, <1>1, <1>6 DEF Inv, CallersHold
  <2> QED
    BY <2>1, <2>2
<1>10. OneCreator'
  <2>1. \A d \in Callers : callers[d].at = "resolving" /\ callers[d].creator =>
          callers[d].excluded # excluded
    BY Fields, PlansAssumption DEF Inv, CallersHold
  <2> QED
    BY <1>1, <2>1 DEF Inv, OneCreator
<1>11. MapsHold'
  BY <1>1, <1>5, <1>7, <1>8 DEF Inv, MapsHold
<1>12. InTheMaps'
  <2> SUFFICES ASSUME NEW r \in Promises, promises'[r] # Free
               PROVE  (/\ promises[r].kind = "lookup" /\ promises[r].outcome = Unsettled =>
                            resolutions[promises[r].excluded] = r
                       /\ promises[r].kind = "read" =>
                            \/ reads[promises[r].plan] = r
                            \/ promises[r].outcome \in {Failed, Missing})'
    BY DEF InTheMaps, Settled, Outcome, Free
  <2>1. CASE r = q
    BY <2>1, <1>1, <1>5
  <2>2. CASE r # q
    <3>1. promises'[r] = promises[r]
      BY <2>2, <1>1, <1>2 DEF Keeps
    <3>2. ASSUME promises[r].kind = "lookup", promises[r].outcome = Unsettled
          PROVE  resolutions'[promises[r].excluded] = r
      <4>1. promises[r].excluded \in ResolutionKeys /\ resolutions[promises[r].excluded] = r
        BY <3>2, Fields DEF Inv, InTheMaps, Settled, Outcome
      <4> QED
        BY <4>1, <1>1, PlansAssumption
    <3> QED
      BY <3>1, <3>2, <1>1 DEF Inv, InTheMaps, Outcome
  <2> QED
    BY <2>1, <2>2
<1>13. PicksAnother'
  BY <1>1, <1>2 DEF Inv, PicksAnother, Keeps, Outcome, Free, Unsettled
<1>14. AnswersStand'
  <2>1. \A d \in Callers : callers'[d].at = "answered" =>
          callers'[d] = callers[d] /\ callers[d].plan \in Plans
    BY <1>1, Fields DEF Inv
  <2> QED
    BY <2>1, <1>1, <1>7 DEF Inv, AnswersStand, Outcome
<1>15. ReadsTheRightPlan'
  BY <1>1 DEF Inv, ReadsTheRightPlan
<1>16. FailuresAreNotCached'
  <2>1. \A p \in Plans : reads[p] # None => promises'[reads[p]].outcome \notin {Failed, Missing}
    BY <1>7 DEF Inv, FailuresAreNotCached, Outcome
  <2>2. ASSUME NEW k \in ResolutionKeys, resolutions'[k] # None
        PROVE  \E d \in Callers :
                 /\ callers'[d].at = "resolving"
                 /\ callers'[d].promise = resolutions'[k]
                 /\ callers'[d].creator
    <3>1. CASE k = excluded
      BY <3>1, <1>1
    <3>2. CASE k # excluded
      BY <2>2, <3>2, <1>1 DEF Inv, FailuresAreNotCached
    <3> QED
      BY <3>1, <3>2
  <2> QED
    BY <2>1, <2>2, <1>1 DEF FailuresAreNotCached, Outcome
<1> QED
  BY <1>4, <1>9, <1>10, <1>11, <1>12, <1>13, <1>14, <1>15, <1>16 DEF Inv

\* A call that looks for a plan joins the lookup with its key or starts it.
LEMMA ResolveKeepsInv ==
  ASSUME Inv, NEW c \in Callers, NEW excluded \in ResolutionKeys,
         callers[c].at # "resolving", Resolve(c, None, excluded)
  PROVE  Inv'
PROOF
<1>1. CASE resolutions[excluded] # None
  <2> DEFINE q     == resolutions[excluded]
             going == [at |-> "resolving", asked |-> None, excluded |-> excluded,
                       promise |-> q, creator |-> FALSE]
  <2>1. /\ callers' = [callers EXCEPT ![c] = going]
        /\ resolutions' = resolutions
        /\ promises' = Collect(promises, callers', resolutions', reads')
        /\ UNCHANGED <<configured, account, reads>>
    BY <1>1 DEF Resolve, ResolutionKey, Inv, TypeOK
  <2>2. going \in CallerStates
    BY <1>1 DEF Inv, TypeOK, CallerStates, ResolutionKeys
  <2>3. Keeps(promises) /\ Departs(c)
    BY <2>1, CollectKeeps, Departure
  <2>4. promises' \in [Promises -> PromiseStates]
    BY <2>1, CollectTyped DEF Inv, TypeOK
  <2>5. promises[q].kind = "lookup" /\ promises[q].excluded = excluded
    BY <1>1 DEF Inv, MapsHold
  <2> QED
    BY <2>1, <2>2, <2>3, <2>4, <2>5, MoveKeepsInv
<1>2. CASE resolutions[excluded] = None
  BY <1>2, StartKeepsInv
<1> QED
  BY <1>1, <1>2

\* A new read is the only one of its plan: none was in the map.
LEMMA LoadKeepsInv ==
  ASSUME Inv, NEW c \in Callers, NEW asked \in ResolutionKeys, NEW excluded \in ResolutionKeys,
         NEW plan \in Plans, NEW then,
         asked # None => plan = asked, plan # excluded, reads[plan] = None,
         Read(c, asked, excluded, plan, then), Departs(c)
  PROVE  Inv'
PROOF
<1> DEFINE q     == Fresh
           new   == [kind |-> "read", plan |-> plan, outcome |-> Unsettled]
           going == [at |-> "reading", asked |-> asked, excluded |-> excluded,
                     promise |-> q, plan |-> plan]
           held  == [promises EXCEPT ![q] = new]
<1>1. /\ q \in Promises
      /\ promises[q] = Free
      /\ callers' = [callers EXCEPT ![c] = going]
      /\ reads' = [reads EXCEPT ![plan] = q]
      /\ promises' = Collect(held, callers', resolutions', reads')
      /\ UNCHANGED <<configured, account>>
  BY DEF Read, Cached, SomeFree, Fresh
<1> HIDE DEF q
<1>2. /\ callers'[c] = going
      /\ \A d \in Callers : d # c => callers'[d] = callers[d]
      /\ reads'[plan] = q
      /\ \A p \in Plans : p # plan => reads'[p] = reads[p]
      /\ held[q] = new
      /\ \A r \in Promises : r # q => held[r] = promises[r]
  BY <1>1 DEF Inv, TypeOK
<1>3. Keeps(held) /\ q \in Promises /\ q # None
  BY <1>1, CollectKeeps, PlansAssumption
<1>4. TypeOK'
  <2>1. going \in CallerStates /\ new \in PromiseStates
    BY <1>3 DEF CallerStates, PromiseStates, Outcomes, ResolutionKeys
  <2>2. held \in [Promises -> PromiseStates] /\ callers' \in [Callers -> CallerStates]
    BY <1>1, <2>1 DEF Inv, TypeOK
  <2>3. promises' \in [Promises -> PromiseStates]
    BY <1>1, <2>2, CollectTyped
  <2> QED
    BY <1>1, <2>2, <2>3 DEF Inv, TypeOK, Departs
<1> HIDE DEF held
<1>5. /\ \A d \in Callers : callers[d].at \in {"resolving", "reading"} => callers[d].promise # q
      /\ \A k \in ResolutionKeys : resolutions[k] # q
      /\ \A p \in Plans : reads[p] # q
  BY <1>1, FreeIsUnused
<1>6. promises'[q] = new
  BY <1>2, <1>3 DEF Keeps
<1>7. \A d \in Callers : d # c /\ callers[d].at \in {"resolving", "reading"} =>
        promises'[callers[d].promise] = promises[callers[d].promise]
  <2>1. \A d \in Callers : callers[d].at \in {"resolving", "reading"} =>
          callers[d].promise \in Promises
    BY Fields DEF Inv
  <2> QED
    BY <2>1, <1>2, <1>3, <1>5 DEF Keeps
<1>8. \A p \in Plans : p # plan /\ reads[p] # None =>
        reads[p] \in Promises /\ promises'[reads[p]] = promises[reads[p]]
  BY <1>2, <1>3, <1>5 DEF Inv, TypeOK, Keeps
<1>9. \A k \in ResolutionKeys : resolutions'[k] # None =>
        /\ promises'[resolutions'[k]] = promises[resolutions'[k]]
        /\ resolutions'[k] = resolutions[k]
  <2> SUFFICES ASSUME NEW k \in ResolutionKeys, resolutions'[k] # None
               PROVE  /\ promises'[resolutions'[k]] = promises[resolutions'[k]]
                      /\ resolutions'[k] = resolutions[k]
    OBVIOUS
  <2>1. resolutions'[k] = resolutions[k] /\ resolutions[k] \in Promises /\ resolutions[k] # q
    BY <1>5 DEF Departs, Inv, TypeOK
  <2> QED
    BY <2>1, <1>2, <1>3 DEF Keeps
<1>10. \A d \in Callers : d # c /\ callers[d].at = "resolving" /\ callers[d].creator =>
         resolutions'[callers[d].excluded] = resolutions[callers[d].excluded]
  <2>1. \A d \in Callers : callers[d].at = "resolving" => callers[d].excluded \in ResolutionKeys
    BY Fields DEF Inv
  <2> QED
    BY <2>1 DEF Inv, OneCreator, Departs
<1>11. CallersHold'
  <2> SUFFICES ASSUME NEW d \in Callers
               PROVE  (/\ callers[d].at = "resolving" =>
                            /\ callers[d].asked = None
                            /\ promises[callers[d].promise].kind = "lookup"
                            /\ promises[callers[d].promise].excluded = callers[d].excluded
                            /\ callers[d].creator =>
                                 resolutions[callers[d].excluded] = callers[d].promise
                       /\ callers[d].at = "reading" =>
                            /\ promises[callers[d].promise].kind = "read"
                            /\ promises[callers[d].promise].plan = callers[d].plan)'
    BY DEF CallersHold
  <2>1. CASE d = c
    BY <2>1, <1>2, <1>6
  <2>2. CASE d # c
    BY <2>2, <1>2, <1>7, <1>10 DEF Inv, CallersHold
  <2> QED
    BY <2>1, <2>2
<1>12. OneCreator'
  BY <1>2 DEF Inv, OneCreator
<1>13. MapsHold'
  <2>1. \A k \in ResolutionKeys : resolutions'[k] # None =>
          /\ promises'[resolutions'[k]].kind = "lookup"
          /\ promises'[resolutions'[k]].excluded = k
    BY <1>9 DEF Inv, MapsHold
  <2>2. ASSUME NEW p \in Plans, reads'[p] # None
        PROVE  promises'[reads'[p]].kind = "read" /\ promises'[reads'[p]].plan = p
    <3>1. CASE p = plan
      BY <3>1, <1>2, <1>6
    <3>2. CASE p # plan
      BY <2>2, <3>2, <1>2, <1>8 DEF Inv, MapsHold
    <3> QED
      BY <3>1, <3>2
  <2> QED
    BY <2>1, <2>2 DEF MapsHold
<1>14. InTheMaps'
  <2> SUFFICES ASSUME NEW r \in Promises, promises'[r] # Free
               PROVE  (/\ promises[r].kind = "lookup" /\ promises[r].outcome = Unsettled =>
                            resolutions[promises[r].excluded] = r
                       /\ promises[r].kind = "read" =>
                            \/ reads[promises[r].plan] = r
                            \/ promises[r].outcome \in {Failed, Missing})'
    BY DEF InTheMaps, Settled, Outcome, Free
  <2>1. CASE r = q
    BY <2>1, <1>2, <1>6
  <2>2. CASE r # q
    <3>1. promises'[r] = promises[r]
      BY <2>2, <1>2, <1>3 DEF Keeps
    <3>2. ASSUME promises[r].kind = "lookup", promises[r].outcome = Unsettled
          PROVE  resolutions'[promises[r].excluded] = r
      <4>1. promises[r].excluded \in ResolutionKeys /\ resolutions[promises[r].excluded] = r
        BY <3>2, Fields DEF Inv, InTheMaps, Settled, Outcome
      <4>2. ASSUME callers[c].at = "resolving", callers[c].creator,
                   callers[c].excluded = promises[r].excluded, Settled(callers[c].promise)
            PROVE  FALSE
        BY <3>2, <4>1, <4>2 DEF Inv, CallersHold, Settled, Outcome
      <4> QED
        BY <4>1, <4>2 DEF Departs
    <3>3. ASSUME promises[r].kind = "read"
          PROVE  \/ reads'[promises[r].plan] = r
                 \/ promises[r].outcome \in {Failed, Missing}
      <4>1. promises[r].plan \in Plans
        BY <3>3, Fields DEF Inv
      <4> QED
        BY <3>3, <4>1, <1>2, <1>3, PlansAssumption DEF Inv, InTheMaps, Outcome
    <3> QED
      BY <3>1, <3>2, <3>3
  <2> QED
    BY <2>1, <2>2
<1>15. PicksAnother'
  BY <1>2, <1>3 DEF Inv, PicksAnother, Keeps, Outcome, Free
<1>16. AnswersStand'
  <2> SUFFICES ASSUME NEW d \in Callers, callers'[d].at = "answered"
               PROVE  (/\ reads[callers[d].plan] # None
                       /\ Outcome(reads[callers[d].plan]).state = "data"
                       /\ Outcome(reads[callers[d].plan]).version = callers[d].version)'
    BY DEF AnswersStand
  <2>1. callers'[d] = callers[d] /\ callers[d].plan \in Plans
    BY <1>2, Fields DEF Inv
  <2>2. reads[callers[d].plan] # None /\ callers[d].plan # plan
    BY <2>1 DEF Inv, AnswersStand
  <2> QED
    BY <2>1, <2>2, <1>2, <1>8 DEF Inv, AnswersStand, Outcome
<1>17. ReadsTheRightPlan'
  BY <1>2 DEF Inv, ReadsTheRightPlan
<1>18. FailuresAreNotCached'
  <2>1. ASSUME NEW p \in Plans, reads'[p] # None
        PROVE  promises'[reads'[p]].outcome \notin {Failed, Missing}
    <3>1. CASE p = plan
      BY <3>1, <1>2, <1>6 DEF Unsettled, Failed, Missing
    <3>2. CASE p # plan
      BY <2>1, <3>2, <1>2, <1>8 DEF Inv, FailuresAreNotCached, Outcome
    <3> QED
      BY <3>1, <3>2
  <2>2. ASSUME NEW k \in ResolutionKeys, resolutions'[k] # None
        PROVE  \E d \in Callers :
                 /\ callers'[d].at = "resolving"
                 /\ callers'[d].promise = resolutions'[k]
                 /\ callers'[d].creator
    <3>1. PICK d \in Callers :
            /\ callers[d].at = "resolving"
            /\ callers[d].promise = resolutions[k]
            /\ callers[d].creator
      BY <2>2, <1>9 DEF Inv, FailuresAreNotCached
    <3>2. d # c
      <4> SUFFICES ASSUME d = c PROVE FALSE
        OBVIOUS
      <4>1. callers[c].excluded = k
        BY <3>1, <2>2, <1>9 DEF Inv, MapsHold, CallersHold
      <4> QED
        BY <3>1, <4>1, <2>2 DEF Departs
    <3> QED
      BY <3>1, <3>2, <2>2, <1>2, <1>9
  <2> QED
    BY <2>1, <2>2 DEF FailuresAreNotCached, Outcome
<1> QED
  BY <1>4, <1>11, <1>12, <1>13, <1>14, <1>15, <1>16, <1>17, <1>18 DEF Inv

\* A call that has its plan joins the read of it or starts it.
LEMMA ReadKeepsInv ==
  ASSUME Inv, NEW c \in Callers, NEW asked \in ResolutionKeys, NEW excluded \in ResolutionKeys,
         NEW plan \in Plans, NEW then,
         asked # None => plan = asked, plan # excluded,
         Read(c, asked, excluded, plan, then), Departs(c)
  PROVE  Inv'
PROOF
<1>1. CASE reads[plan] # None
  <2> DEFINE q     == reads[plan]
             going == [at |-> "reading", asked |-> asked, excluded |-> excluded,
                       promise |-> q, plan |-> plan]
  <2>1. /\ callers' = [callers EXCEPT ![c] = going]
        /\ promises' = Collect(promises, callers', resolutions', reads')
        /\ UNCHANGED <<configured, account, reads>>
    BY <1>1 DEF Read, Cached, Inv, TypeOK
  <2>2. going \in CallerStates
    BY <1>1 DEF Inv, TypeOK, CallerStates, ResolutionKeys
  <2>3. Keeps(promises)
    BY <2>1, CollectKeeps
  <2>4. promises' \in [Promises -> PromiseStates]
    BY <2>1, CollectTyped DEF Inv, TypeOK
  <2>5. promises[q].kind = "read" /\ promises[q].plan = plan
    BY <1>1 DEF Inv, MapsHold
  <2> QED
    BY <2>1, <2>2, <2>3, <2>4, <2>5, MoveKeepsInv
<1>2. CASE reads[plan] = None
  BY <1>2, LoadKeepsInv
<1> QED
  BY <1>1, <1>2

\* The outcome of a lookup changes no map: its creator takes it out when it goes on.
LEMMA LookupKeepsInv ==
  ASSUME Inv, NEW q \in Promises, LookupAnswered(q) \/ LookupFails(q)
  PROVE  Inv'
PROOF
<1>1. PICK o : /\ promises' = [promises EXCEPT ![q].outcome = o]
               /\ o \in Outcomes
               /\ o # Unsettled
               /\ o.state = "plan" => o.plan # promises[q].excluded
  <2>1. Failed \in Outcomes /\ Failed # Unsettled /\ Failed.state # "plan"
    BY DEF Outcomes, Failed, Unsettled
  <2>2. CASE \/ LookupFails(q)
             \/ LookupAnswered(q) /\ Pick(promises[q].excluded) = {}
    <3>1. promises' = [promises EXCEPT ![q].outcome = Failed]
      BY <2>2 DEF LookupFails, LookupAnswered
    <3> QED
      BY <2>1, <3>1
  <2>3. CASE LookupAnswered(q) /\ Pick(promises[q].excluded) # {}
    <3> DEFINE p == CHOOSE p \in Pick(promises[q].excluded) : TRUE
    <3>1. p \in Pick(promises[q].excluded)
      BY <2>3
    <3>2. p \in Plans /\ p # promises[q].excluded
      BY <3>1 DEF Pick, Inv, TypeOK, Accounts
    <3>3. promises' = [promises EXCEPT ![q].outcome = [state |-> "plan", plan |-> p]]
      BY <2>3 DEF LookupAnswered
    <3> DEFINE o == [state |-> "plan", plan |-> p]
    <3>4. o \in Outcomes /\ o # Unsettled /\ o.plan # promises[q].excluded
      BY <3>2 DEF Outcomes, Unsettled
    <3> HIDE DEF o
    <3> QED
      BY <3>3, <3>4 DEF o
  <2> QED
    BY <2>2, <2>3
<1>2. /\ promises[q].kind = "lookup"
      /\ Outcome(q) = Unsettled
      /\ UNCHANGED <<configured, account, resolutions, reads, callers>>
  BY DEF LookupAnswered, LookupFails, Settled
<1>3. /\ \A r \in Promises : r # q => promises'[r] = promises[r]
      /\ promises'[q].kind = "lookup"
      /\ promises'[q].excluded = promises[q].excluded
      /\ promises'[q].outcome = o
  BY <1>1, <1>2 DEF Inv, TypeOK, PromiseStates, Free
<1>4. TypeOK'
  <2>1. [promises[q] EXCEPT !.outcome = o] \in PromiseStates
    BY <1>1, <1>2 DEF Inv, TypeOK, PromiseStates, Free
  <2> QED
    BY <1>1, <1>2, <2>1 DEF Inv, TypeOK
<1>5. CallersHold'
  BY <1>2, <1>3, Fields DEF Inv, CallersHold
<1>6. OneCreator'
  BY <1>2 DEF Inv, OneCreator
<1>7. MapsHold'
  BY <1>2, <1>3 DEF Inv, MapsHold, TypeOK
<1>8. InTheMaps'
  BY <1>1, <1>2, <1>3 DEF Inv, InTheMaps, Settled, Outcome
<1>9. PicksAnother'
  BY <1>1, <1>3 DEF Inv, PicksAnother, Outcome
<1>10. \A p \in Plans : reads[p] # None => promises'[reads[p]] = promises[reads[p]]
  BY <1>2, <1>3 DEF Inv, TypeOK, MapsHold
<1>11. AnswersStand'
  BY <1>2, <1>10, Fields DEF Inv, AnswersStand, Outcome
<1>12. ReadsTheRightPlan'
  BY <1>2 DEF Inv, ReadsTheRightPlan
<1>13. FailuresAreNotCached'
  BY <1>2, <1>10 DEF Inv, FailuresAreNotCached, Outcome
<1> QED
  BY <1>4, <1>5, <1>6, <1>7, <1>8, <1>9, <1>11, <1>12, <1>13 DEF Inv

\* A read that succeeds stays in the map; one that fails is taken out of it in the
\* same step, and nobody was answered from it.
LEMMA OutcomeKeepsInv ==
  ASSUME Inv, NEW q \in Promises,
         ReadAnswered(q) \/ \E outcome \in {Failed, Missing} : ReadFails(q, outcome)
  PROVE  Inv'
PROOF
<1> DEFINE plan == promises[q].plan
<1>1. /\ promises[q].kind = "read"
      /\ promises[q].outcome = Unsettled
      /\ UNCHANGED <<configured, account, resolutions, callers>>
  BY DEF ReadAnswered, ReadFails, Settled, Outcome
<1>2. PICK o : /\ promises' = [promises EXCEPT ![q].outcome = o]
               /\ o \in Outcomes
               /\ o # Unsettled
               /\ \/ o \in {Failed, Missing} /\ reads' = [reads EXCEPT ![plan] = None]
                  \/ o.state = "data" /\ reads' = reads
  <2>1. CASE ReadAnswered(q)
    <3> DEFINE d == [state |-> "data", version |-> account.version]
    <3>1. d \in Outcomes /\ d # Unsettled /\ d.state = "data"
      BY DEF Inv, TypeOK, Accounts, Outcomes, Unsettled
    <3>2. promises' = [promises EXCEPT ![q].outcome = d] /\ reads' = reads
      BY <2>1 DEF ReadAnswered
    <3> HIDE DEF d
    <3> QED
      BY <3>1, <3>2
  <2>2. CASE \E outcome \in {Failed, Missing} : ReadFails(q, outcome)
    BY <2>2 DEF ReadFails, AfterFailure, Outcomes, Failed, Missing, Unsettled
  <2> QED
    BY <2>1, <2>2
<1>3. plan \in Plans /\ reads[plan] = q
  BY <1>1, Fields DEF Inv, InTheMaps, Outcome, Unsettled, Failed, Missing
<1>4. /\ \A r \in Promises : r # q => promises'[r] = promises[r]
      /\ promises'[q].kind = "read"
      /\ promises'[q].plan = plan
      /\ promises'[q].outcome = o
  BY <1>1, <1>2 DEF Inv, TypeOK, PromiseStates, Free
<1>5. \A p \in Plans : p # plan => reads'[p] = reads[p] /\ reads[p] # q
  <2>1. \A p \in Plans : p # plan => reads[p] # q
    BY <1>3, PlansAssumption DEF Inv, MapsHold
  <2> QED
    BY <2>1, <1>2 DEF Inv, TypeOK
<1>6. reads'[plan] = IF o \in {Failed, Missing} THEN None ELSE q
  BY <1>2, <1>3 DEF Inv, TypeOK, Failed, Missing
<1>7. TypeOK'
  <2>1. [promises[q] EXCEPT !.outcome = o] \in PromiseStates
    BY <1>1, <1>2, <1>3 DEF Inv, TypeOK, PromiseStates, Free
  <2>2. reads' \in [Plans -> Promises \cup {None}]
    BY <1>2 DEF Inv, TypeOK
  <2> QED
    BY <1>1, <1>2, <2>1, <2>2 DEF Inv, TypeOK
<1>8. CallersHold'
  BY <1>1, <1>4, Fields DEF Inv, CallersHold
<1>9. OneCreator'
  BY <1>1 DEF Inv, OneCreator
<1>10. MapsHold'
  <2>1. \A k \in ResolutionKeys : resolutions[k] # None =>
          promises'[resolutions[k]] = promises[resolutions[k]]
    BY <1>1, <1>4 DEF Inv, TypeOK, MapsHold
  <2>2. ASSUME NEW p \in Plans, reads'[p] # None
        PROVE  promises'[reads'[p]].kind = "read" /\ promises'[reads'[p]].plan = p
    <3>1. CASE p = plan
      BY <2>2, <3>1, <1>4, <1>6
    <3>2. CASE p # plan
      BY <2>2, <3>2, <1>4, <1>5 DEF Inv, MapsHold, TypeOK
    <3> QED
      BY <3>1, <3>2
  <2> QED
    BY <2>1, <2>2, <1>1 DEF Inv, MapsHold
<1>11. InTheMaps'
  <2> SUFFICES ASSUME NEW r \in Promises
               PROVE  (/\ promises[r].kind = "lookup" /\ promises[r].outcome = Unsettled =>
                            resolutions[promises[r].excluded] = r
                       /\ promises[r].kind = "read" =>
                            \/ reads[promises[r].plan] = r
                            \/ promises[r].outcome \in {Failed, Missing})'
    BY DEF InTheMaps, Settled, Outcome
  <2>1. CASE r = q
    BY <2>1, <1>4, <1>6
  <2>2. CASE r # q
    <3>1. promises'[r] = promises[r]
      BY <2>2, <1>4
    <3>2. promises[r].kind = "read" => promises[r].plan \in Plans
      BY Fields DEF Inv
    <3> QED
      BY <2>2, <3>1, <3>2, <1>1, <1>3, <1>5 DEF Inv, InTheMaps, Settled, Outcome
  <2> QED
    BY <2>1, <2>2
<1>12. PicksAnother'
  BY <1>4 DEF Inv, PicksAnother, Outcome
<1>13. \A p \in Plans : p # plan /\ reads[p] # None =>
         reads'[p] = reads[p] /\ promises'[reads[p]] = promises[reads[p]]
  BY <1>4, <1>5 DEF Inv, TypeOK
<1>14. AnswersStand'
  <2> SUFFICES ASSUME NEW d \in Callers, callers[d].at = "answered"
               PROVE  (/\ reads[callers[d].plan] # None
                       /\ Outcome(reads[callers[d].plan]).state = "data"
                       /\ Outcome(reads[callers[d].plan]).version = callers[d].version)'
    BY <1>1 DEF AnswersStand
  <2>1. /\ callers[d].plan \in Plans
        /\ reads[callers[d].plan] # None
        /\ Outcome(reads[callers[d].plan]).state = "data"
    BY Fields DEF Inv, AnswersStand
  <2>2. callers[d].plan # plan
    BY <2>1, <1>1, <1>3 DEF Outcome, Unsettled
  <2> QED
    BY <2>1, <2>2, <1>1, <1>13 DEF Inv, AnswersStand, Outcome
<1>15. ReadsTheRightPlan'
  BY <1>1 DEF Inv, ReadsTheRightPlan
<1>16. FailuresAreNotCached'
  <2>1. ASSUME NEW p \in Plans, reads'[p] # None
        PROVE  promises'[reads'[p]].outcome \notin {Failed, Missing}
    <3>1. CASE p = plan
      BY <2>1, <3>1, <1>4, <1>6
    <3>2. CASE p # plan
      BY <2>1, <3>2, <1>5, <1>13 DEF Inv, FailuresAreNotCached, Outcome
    <3> QED
      BY <3>1, <3>2
  <2> QED
    BY <2>1, <1>1 DEF Inv, FailuresAreNotCached, Outcome
<1> QED
  BY <1>7, <1>8, <1>9, <1>10, <1>11, <1>12, <1>14, <1>15, <1>16 DEF Inv

\* A call that ends leaves the map as its creator must, and is answered from the read
\* that the map holds.
LEMMA EndKeepsInv ==
  ASSUME Inv, NEW c \in Callers, Unresolved(c) \/ Answered(c) \/ Refused(c) \/ Leave(c)
  PROVE  Inv'
PROOF
<1>1. CASE Unresolved(c)
  <2> DEFINE goes == [at |-> "refused"]
  <2>1. /\ callers[c].at = "resolving"
        /\ Settled(callers[c].promise)
        /\ callers' = [callers EXCEPT ![c] = goes]
        /\ resolutions' = AfterLookup(c)
        /\ promises' = Collect(promises, callers', resolutions', reads')
        /\ UNCHANGED <<configured, account, reads>>
    BY <1>1 DEF Unresolved, Settled, Failed, Unsettled
  <2>2. goes \in CallerStates
    BY DEF CallerStates
  <2>3. Keeps(promises) /\ Departs(c) /\ promises' \in [Promises -> PromiseStates]
    BY <2>1, CollectKeeps, CollectTyped, Departure DEF Inv, TypeOK
  <2> QED
    BY <2>1, <2>2, <2>3, MoveKeepsInv
<1>2. CASE Answered(c)
  <2> DEFINE o    == Outcome(callers[c].promise)
             goes == [at |-> "answered", asked |-> callers[c].asked,
                      excluded |-> callers[c].excluded, plan |-> callers[c].plan,
                      version |-> o.version]
  <2>1. /\ callers[c].at = "reading"
        /\ o.state = "data"
        /\ callers' = [callers EXCEPT ![c] = goes]
        /\ resolutions' = resolutions
        /\ promises' = Collect(promises, callers', resolutions', reads')
        /\ UNCHANGED <<configured, account, reads>>
    BY <1>2 DEF Answered
  <2>2. /\ callers[c].promise \in Promises
        /\ promises[callers[c].promise].kind = "read"
        /\ promises[callers[c].promise].plan = callers[c].plan
        /\ callers[c].plan \in Plans
        /\ callers[c].asked \in ResolutionKeys
        /\ callers[c].excluded \in ResolutionKeys
    BY <2>1, Fields DEF Inv, CallersHold
  <2>3. o.version \in 0 .. MaxChanges /\ o \notin {Failed, Missing}
    BY <2>1, <2>2, Fields, OutcomeFields DEF Inv
  <2>4. reads[callers[c].plan] = callers[c].promise /\ callers[c].promise # None
    BY <2>2, <2>3, PlansAssumption DEF Inv, InTheMaps, Outcome
  <2>5. goes \in CallerStates
    BY <2>2, <2>3 DEF CallerStates, ResolutionKeys
  <2>6. Keeps(promises) /\ Departs(c) /\ promises' \in [Promises -> PromiseStates]
    BY <2>1, CollectKeeps, CollectTyped, Departure DEF Inv, TypeOK
  <2>7. /\ callers[c].asked # None => callers[c].plan = callers[c].asked
        /\ callers[c].plan # callers[c].excluded
    BY <2>1 DEF Inv, ReadsTheRightPlan
  <2> QED
    BY <2>1, <2>4, <2>5, <2>6, <2>7, MoveKeepsInv
<1>3. CASE Refused(c)
  <2> DEFINE goes == [at |-> "refused"]
  <2>1. /\ callers[c].at = "reading"
        /\ callers' = [callers EXCEPT ![c] = goes]
        /\ resolutions' = resolutions
        /\ promises' = Collect(promises, callers', resolutions', reads')
        /\ UNCHANGED <<configured, account, reads>>
    BY <1>3 DEF Refused
  <2>2. goes \in CallerStates
    BY DEF CallerStates
  <2>3. Keeps(promises) /\ Departs(c) /\ promises' \in [Promises -> PromiseStates]
    BY <2>1, CollectKeeps, CollectTyped, Departure DEF Inv, TypeOK
  <2> QED
    BY <2>1, <2>2, <2>3, MoveKeepsInv
<1>4. CASE Leave(c)
  <2>1. /\ callers[c].at \in {"answered", "refused"}
        /\ callers' = [callers EXCEPT ![c] = Idle]
        /\ UNCHANGED <<configured, account, resolutions, reads, promises>>
    BY <1>4 DEF Leave
  <2>2. Idle \in CallerStates
    BY DEF CallerStates
  <2>3. Keeps(promises) /\ Departs(c) /\ promises' \in [Promises -> PromiseStates]
    BY <2>1, Departure DEF Inv, TypeOK, Keeps
  <2> QED
    BY <2>1, <2>2, <2>3, MoveKeepsInv DEF Idle
<1> QED
  BY <1>1, <1>2, <1>3, <1>4

\* One lemma for every kind of step.
LEMMA NextKeepsInv == Inv /\ [Next]_vars => Inv'
PROOF
<1> SUFFICES ASSUME Inv, [Next]_vars PROVE Inv'
  OBVIOUS
<1>1. ASSUME NEW c \in Callers, NEW asked \in Plans \cup {None}, Call(c, asked)
      PROVE  Inv'
  <2>1. callers[c].at = "idle"
    BY <1>1 DEF Call, Idle
  <2>2. CASE asked # None
    <3>1. Read(c, asked, None, asked, resolutions) /\ resolutions' = resolutions
      BY <1>1, <2>2 DEF Call, Read
    <3>2. Departs(c)
      BY <2>1, <3>1, Departure
    <3> QED
      BY <2>2, <3>1, <3>2, ReadKeepsInv, PlansAssumption DEF ResolutionKeys
  <2>3. CASE asked = None /\ configured # None
    <3>1. Read(c, None, None, configured, resolutions) /\ resolutions' = resolutions
      BY <1>1, <2>3 DEF Call, Read
    <3>2. Departs(c)
      BY <2>1, <3>1, Departure
    <3>3. configured \in Plans
      BY <2>3 DEF Inv, TypeOK
    <3> QED
      BY <2>3, <3>1, <3>2, <3>3, ReadKeepsInv DEF ResolutionKeys
  <2>4. CASE asked = None /\ configured = None
    <3>1. Resolve(c, None, None)
      BY <1>1, <2>4 DEF Call
    <3> QED
      BY <2>1, <3>1, ResolveKeepsInv DEF ResolutionKeys
  <2> QED
    BY <2>2, <2>3, <2>4
<1>2. ASSUME NEW c \in Callers, Resolved(c)
      PROVE  Inv'
  <2> DEFINE q == callers[c].promise
             o == Outcome(q)
  <2>1. /\ callers[c].at = "resolving"
        /\ o.state = "plan"
        /\ Read(c, callers[c].asked, callers[c].excluded, o.plan, AfterLookup(c))
    BY <1>2 DEF Resolved
  <2>2. /\ q \in Promises
        /\ promises[q].kind = "lookup"
        /\ promises[q].excluded = callers[c].excluded
        /\ callers[c].asked = None
        /\ callers[c].excluded \in ResolutionKeys
    BY <2>1, Fields DEF Inv, CallersHold
  <2>3. o.plan \in Plans /\ o # Unsettled /\ o.plan # callers[c].excluded
    BY <2>1, <2>2, Fields, OutcomeFields DEF Inv, PicksAnother
  <2>4. resolutions' = AfterLookup(c)
    BY <2>1 DEF Read
  <2>5. Departs(c)
    BY <2>1, <2>3, <2>4, Departure DEF Settled
  <2> QED
    BY <2>1, <2>2, <2>3, <2>5, ReadKeepsInv DEF ResolutionKeys
<1>3. ASSUME NEW c \in Callers, Recover(c)
      PROVE  Inv'
  <2>1. callers[c].at = "reading" /\ Resolve(c, None, callers[c].plan)
    BY <1>3 DEF Recover, Recovers
  <2>2. callers[c].plan \in ResolutionKeys
    BY <2>1, Fields DEF Inv, ResolutionKeys
  <2> QED
    BY <2>1, <2>2, ResolveKeepsInv
<1>4. ASSUME NEW plans \in SUBSET Plans, NEW default \in Plans \cup {None},
             Change(plans, default)
      PROVE  Inv'
  <2>1. UNCHANGED <<configured, resolutions, reads, promises, callers>>
    BY <1>4 DEF Change
  <2>2. account.version \in 0 .. MaxChanges /\ account.version + 1 \in 0 .. MaxChanges
    BY <1>4, PlansAssumption DEF Inv, TypeOK, Change, Accounts
  <2>3. account' \in Accounts
    BY <1>4, <2>2 DEF Inv, TypeOK, Change, Accounts
  <2>4. TypeOK'
    BY <2>1, <2>3 DEF Inv, TypeOK
  <2> QED
    BY <2>1, <2>4 DEF Inv, CallersHold, OneCreator, MapsHold, InTheMaps, PicksAnother,
       AnswersStand, ReadsTheRightPlan, FailuresAreNotCached, Settled, Outcome
<1>5. CASE UNCHANGED vars
  BY <1>5 DEF vars, Inv, TypeOK, CallersHold, OneCreator, MapsHold, InTheMaps, PicksAnother,
     AnswersStand, ReadsTheRightPlan, FailuresAreNotCached, Settled, Outcome
<1> QED
  BY <1>1, <1>2, <1>3, <1>4, <1>5, LookupKeepsInv, OutcomeKeepsInv, EndKeepsInv DEF Next

-----------------------------------------------------------------------------
\* The invariant holds in every state.
LEMMA InvHolds == Spec => []Inv
PROOF
<1>1. Init => Inv
  BY InitEstablishes
<1>2. Inv /\ [Next]_vars => Inv'
  BY NextKeepsInv
<1> QED
  BY <1>1, <1>2, PTL DEF Spec

\* A promise on its way is the one its key in the map names.
LEMMA InvMeansSingleFlight == Inv => SingleFlight
PROOF
<1> SUFFICES ASSUME Inv, NEW q \in Promises, NEW r \in Promises,
                    promises[q] # Free, promises[q] = promises[r], Outcome(q) = Unsettled
             PROVE  q = r
  BY DEF SingleFlight
<1>1. CASE promises[q].kind = "lookup"
  BY <1>1 DEF Inv, InTheMaps, Settled, Outcome
<1>2. CASE promises[q].kind = "read"
  BY <1>2 DEF Inv, InTheMaps, Settled, Outcome, Unsettled, Failed, Missing
<1> QED
  BY <1>1, <1>2, Fields DEF Inv

\* Two answers about a plan come from the one read the map holds.
LEMMA InvMeansReadsAgree == Inv => ReadsAgree
PROOF
  BY DEF Inv, AnswersStand, ReadsAgree

\* Every variable of cachedYnabReads.ts and planToolUtils.ts keeps its type, whatever
\* the interleaving of the calls and the answers of the API.
THEOREM TypeCorrect == Spec => []TypeOK
PROOF
<1>1. Inv => TypeOK
  BY DEF Inv
<1> QED
  BY <1>1, InvHolds, PTL

\* No call ever reads a plan other than the one it asked for, or the one that it found
\* missing, for any number of calls that share lookups and reads.
THEOREM RightPlanIsRead == Spec => []ReadsTheRightPlan
PROOF
<1>1. Inv => ReadsTheRightPlan
  BY DEF Inv
<1> QED
  BY <1>1, InvHolds, PTL

\* Concurrent calls share what is on its way: there is never a second request to the
\* API for the same thing.
THEOREM FlightsAreSingle == Spec => []SingleFlight
PROOF
  BY InvHolds, InvMeansSingleFlight, PTL

\* A failure is never what a later call joins.
THEOREM FailuresLeaveTheMaps == Spec => []FailuresAreNotCached
PROOF
<1>1. Inv => FailuresAreNotCached
  BY DEF Inv
<1> QED
  BY <1>1, InvHolds, PTL

\* Calls in progress together are answered with one state of a plan, however often its
\* owner changes it.
THEOREM AnswersAgree == Spec => []ReadsAgree
PROOF
  BY InvHolds, InvMeansReadsAgree, PTL
=============================================================================
