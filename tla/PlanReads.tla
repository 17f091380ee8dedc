----------------------------- MODULE PlanReads -----------------------------
(***************************************************************************)
(* How a read tool finds its plan and reads it: withResolvedPlan of        *)
(* src/planToolUtils.ts around the reads of src/cachedYnabReads.ts, both   *)
(* on the one API object that all requests share.                          *)
(*                                                                         *)
(* Two maps hold promises. A plan lookup is shared while it is in flight,  *)
(* and its creator takes it out; a read stays for good, and takes itself   *)
(* out when it fails. Promises have an identity because callers go on with *)
(* the one they found. The account is external: its owner may edit, delete *)
(* or add a plan, or choose another default, at any time.                  *)
(***************************************************************************)
EXTENDS Integers, FiniteSets

CONSTANTS
  Plans,         \* plan ids
  Callers,       \* tool calls in progress together
  Promises,      \* identities of promises, used again when nothing holds them
  Configurable,  \* plan ids the server may be configured with, or None
  Lackings,      \* sets of plans without the month, account or category read
  MaxChanges,    \* bound: changes the owner makes to the account
  None           \* no plan, no promise

ASSUME PlansAssumption ==
  /\ Configurable \subseteq Plans \cup {None}
  /\ Lackings \subseteq SUBSET Plans
  /\ None \notin Plans \cup Promises
  /\ MaxChanges \in Nat

VARIABLES
  configured,   \* the configured plan id, or None
  account,      \* external: its plans, those that lack what is read, the default
                \* plan and the number of changes so far
  resolutions,  \* the in-flight plan lookups by cache key
  reads,        \* the cached read of each plan
  promises,     \* what each promise stands for and what became of it
  callers       \* what each call is doing

vars == <<configured, account, resolutions, reads, promises, callers>>

Accounts ==
  [plans : SUBSET Plans, lacking : SUBSET Plans, default : Plans \cup {None},
   version : 0 .. MaxChanges]

\* A lookup is keyed by the plan it excludes; the first one excludes none.
ResolutionKeys == Plans \cup {None}

Unsettled == [state |-> "pending"]
Failed    == [state |-> "failed"]    \* any error but a missing plan
Missing   == [state |-> "missing"]   \* an error that says "not found"
Outcomes ==
  {Unsettled, Failed, Missing}
    \cup [state : {"plan"}, plan : Plans]
    \cup [state : {"data"}, version : 0 .. MaxChanges]

Free == [kind |-> "free"]

PromiseStates ==
  {Free}
    \cup [kind : {"lookup"}, excluded : ResolutionKeys, outcome : Outcomes]
    \cup [kind : {"read"}, plan : Plans, outcome : Outcomes]

Idle == [at |-> "idle"]

CallerStates ==
  {Idle}
    \cup [at : {"resolving"}, asked : Plans \cup {None}, excluded : ResolutionKeys,
          promise : Promises, creator : BOOLEAN]
    \cup [at : {"reading"}, asked : Plans \cup {None}, excluded : ResolutionKeys,
          promise : Promises, plan : Plans]
    \cup [at : {"answered"}, asked : Plans \cup {None}, excluded : ResolutionKeys,
          plan : Plans, version : 0 .. MaxChanges]
    \cup [at : {"refused"}]

Init ==
  /\ configured \in Configurable
  /\ account \in [plans : SUBSET Plans, lacking : Lackings,
                  default : Plans \cup {None}, version : {0}]
  /\ account.default \in account.plans \cup {None}
  /\ resolutions = [k \in ResolutionKeys |-> None]
  /\ reads = [p \in Plans |-> None]
  /\ promises = [q \in Promises |-> Free]
  /\ callers = [c \in Callers |-> Idle]

Outcome(q) == promises[q].outcome
Settled(q) == Outcome(q) # Unsettled

\* A promise for a new request: which one does not matter.
Fresh == CHOOSE q \in Promises : promises[q] = Free
SomeFree == \E q \in Promises : promises[q] = Free

\* Promises nothing refers to are forgotten.
Collect(held, cs, rs, ds) ==
  [q \in Promises |->
     IF \/ \E c \in Callers : cs[c].at \in {"resolving", "reading"} /\ cs[c].promise = q
        \/ \E k \in ResolutionKeys : rs[k] = q
        \/ \E p \in Plans : ds[p] = q
     THEN held[q] ELSE Free]

-----------------------------------------------------------------------------
\* Faulty variant: the cache key leaves the excluded plan out.
KeyWithoutExclusion(excluded) == None

\* getPlanResolutionCacheKey. Only the recovery ignores the configured plan, and
\* it always excludes one, so that part of the key adds nothing.
ResolutionKey(excluded) == excluded

\* resolvePlanId without a plan to go by: join the lookup in flight, or start one.
Resolve(c, asked, excluded) ==
  LET key     == ResolutionKey(excluded)
      joins   == resolutions[key] # None
      q       == IF joins THEN resolutions[key] ELSE Fresh
      started == [promises EXCEPT ![q] =
                    [kind |-> "lookup", excluded |-> excluded, outcome |-> Unsettled]]
      goes    == [callers EXCEPT ![c] =
                    [at |-> "resolving", asked |-> asked, excluded |-> excluded,
                     promise |-> q, creator |-> ~joins]]
      shared  == [resolutions EXCEPT ![key] = q]
  IN /\ joins \/ SomeFree
     /\ callers' = goes
     /\ resolutions' = shared
     /\ promises' = Collect(IF joins THEN promises ELSE started, goes, shared, reads)
     /\ UNCHANGED <<configured, account, reads>>

\* Faulty variant: only a read that is still in flight is joined.
CachedWhilePending(plan) ==
  IF reads[plan] # None THEN IF Settled(reads[plan]) THEN None ELSE reads[plan] ELSE None

\* hasCachedRead: any promise in the map counts.
Cached(plan) == reads[plan]

\* getCachedRead: join the promise in the map, whatever its age, or load. The
\* call comes from a lookup that ended (then is the map it leaves) or from none.
Read(c, asked, excluded, plan, then) ==
  LET joins  == Cached(plan) # None
      q      == IF joins THEN Cached(plan) ELSE Fresh
      loaded == [promises EXCEPT ![q] =
                   [kind |-> "read", plan |-> plan, outcome |-> Unsettled]]
      goes   == [callers EXCEPT ![c] =
                   [at |-> "reading", asked |-> asked, excluded |-> excluded,
                    promise |-> q, plan |-> plan]]
      kept   == [reads EXCEPT ![plan] = q]
  IN /\ joins \/ SomeFree
     /\ callers' = goes
     /\ resolutions' = then
     /\ reads' = kept
     /\ promises' = Collect(IF joins THEN promises ELSE loaded, goes, then, kept)
     /\ UNCHANGED <<configured, account>>

\* A tool is called, with a plan id or without. An explicit id comes first, then
\* the configured one, then the plan the account suggests.
Call(c, asked) ==
  /\ callers[c] = Idle
  /\ CASE asked # None -> Read(c, asked, None, asked, resolutions)
       [] asked = None /\ configured # None ->
            Read(c, None, None, configured, resolutions)
       [] OTHER -> Resolve(c, None, None)

\* Faulty variant: an account without a default plan is not provided for.
PickDefault(excluded) ==
  IF account.default # excluded
  THEN {account.default}
  ELSE {p \in account.plans \ {excluded} : account.plans \ {excluded} = {p}}

\* pickResolvedPlanId, as the set of the plan that is picked, or the empty set:
\* the default, else the only plan that is left.
Pick(excluded) ==
  IF account.default \notin {None, excluded}
  THEN {account.default}
  ELSE {p \in account.plans \ {excluded} : account.plans \ {excluded} = {p}}

\* getPlans answers.
LookupAnswered(q) ==
  /\ promises[q].kind = "lookup"
  /\ ~Settled(q)
  /\ LET picked == Pick(promises[q].excluded) IN
     promises' = [promises EXCEPT ![q].outcome =
       IF picked = {} THEN Failed
       ELSE [state |-> "plan", plan |-> CHOOSE p \in picked : TRUE]]
  /\ UNCHANGED <<configured, account, resolutions, reads, callers>>

\* getPlans fails.
LookupFails(q) ==
  /\ promises[q].kind = "lookup"
  /\ ~Settled(q)
  /\ promises' = [promises EXCEPT ![q].outcome = Failed]
  /\ UNCHANGED <<configured, account, resolutions, reads, callers>>

\* Faulty variant: every caller that joined the lookup takes it out.
EveryoneTakesOut(c) ==
  [resolutions EXCEPT ![ResolutionKey(callers[c].excluded)] = None]

\* finally of resolvePlanId: the creator takes its key out of the map.
AfterLookup(c) ==
  IF callers[c].creator
  THEN [resolutions EXCEPT ![ResolutionKey(callers[c].excluded)] = None]
  ELSE resolutions

\* resolvePlanId returns, and the operation starts with the plan.
Resolved(c) ==
  /\ callers[c].at = "resolving"
  /\ Outcome(callers[c].promise).state = "plan"
  /\ Read(c, callers[c].asked, callers[c].excluded,
          Outcome(callers[c].promise).plan, AfterLookup(c))

\* resolvePlanId throws, and so does the call.
Unresolved(c) ==
  LET goes == [callers EXCEPT ![c] = [at |-> "refused"]]
      left == AfterLookup(c)
  IN /\ callers[c].at = "resolving"
     /\ Outcome(callers[c].promise) = Failed
     /\ callers' = goes
     /\ resolutions' = left
     /\ promises' = Collect(promises, goes, left, reads)
     /\ UNCHANGED <<configured, account, reads>>

Present(plan) == plan \in account.plans \ account.lacking

\* The API answers a read of a plan that has what is read.
ReadAnswered(q) ==
  /\ promises[q].kind = "read"
  /\ ~Settled(q)
  /\ Present(promises[q].plan)
  /\ promises' = [promises EXCEPT ![q].outcome =
       [state |-> "data", version |-> account.version]]
  /\ UNCHANGED <<configured, account, resolutions, reads, callers>>

\* Faulty variant: the failed promise is left in the map.
KeepsFailure(plan) == reads

\* The catch of getCachedRead takes the key out before anyone sees the error.
AfterFailure(plan) == [reads EXCEPT ![plan] = None]

\* The API answers that the plan, or what is read of it, is not there, or fails in
\* another way.
ReadFails(q, outcome) ==
  /\ promises[q].kind = "read"
  /\ ~Settled(q)
  /\ outcome = Missing => ~Present(promises[q].plan)
  /\ promises' = [promises EXCEPT ![q].outcome = outcome]
  /\ reads' = AfterFailure(promises[q].plan)
  /\ UNCHANGED <<configured, account, resolutions, callers>>

\* The operation returns.
Answered(c) ==
  /\ callers[c].at = "reading"
  /\ Outcome(callers[c].promise).state = "data"
  /\ callers' = [callers EXCEPT ![c] =
       [at |-> "answered", asked |-> callers[c].asked,
        excluded |-> callers[c].excluded, plan |-> callers[c].plan,
        version |-> Outcome(callers[c].promise).version]]
  /\ promises' = Collect(promises, callers', resolutions, reads)
  /\ UNCHANGED <<configured, account, resolutions, reads>>

\* Faulty variant: a call moves on as often as a plan is missing.
RecoversAgain(c) ==
  /\ Outcome(callers[c].promise) = Missing
  /\ callers[c].asked = None

\* isMissingPlanError: any error that says so, whatever is missing. Only a plan
\* that the call did not ask for is left, and only once.
Recovers(c) ==
  /\ Outcome(callers[c].promise) = Missing
  /\ callers[c].asked = None
  /\ callers[c].excluded = None

\* withResolvedPlan looks for another plan and leaves the missing one out.
Recover(c) ==
  /\ callers[c].at = "reading"
  /\ Recovers(c)
  /\ Resolve(c, callers[c].asked, callers[c].plan)

\* The error of the operation is the error of the call.
Refused(c) ==
  LET goes == [callers EXCEPT ![c] = [at |-> "refused"]] IN
  /\ callers[c].at = "reading"
  /\ Outcome(callers[c].promise) \in {Failed, Missing}
  /\ ~Recovers(c)
  /\ callers' = goes
  /\ promises' = Collect(promises, goes, resolutions, reads)
  /\ UNCHANGED <<configured, account, resolutions, reads>>

\* The answer was sent; the slot is free for another call.
Leave(c) ==
  /\ callers[c].at \in {"answered", "refused"}
  /\ callers' = [callers EXCEPT ![c] = Idle]
  /\ UNCHANGED <<configured, account, resolutions, reads, promises>>

\* The owner edits the budget, or adds and deletes plans and moves the default.
Change(plans, default) ==
  /\ account.version < MaxChanges
  /\ default \in plans \cup {None}
  /\ account' = [account EXCEPT !.plans = plans, !.default = default, !.version = @ + 1]
  /\ UNCHANGED <<configured, resolutions, reads, promises, callers>>

Next ==
  \/ \E c \in Callers :
       \/ \E asked \in Plans \cup {None} : Call(c, asked)
       \/ Resolved(c)
       \/ Unresolved(c)
       \/ Answered(c)
       \/ Recover(c)
       \/ Refused(c)
       \/ Leave(c)
  \/ \E q \in Promises :
       \/ LookupAnswered(q)
       \/ LookupFails(q)
       \/ ReadAnswered(q)
       \/ \E outcome \in {Failed, Missing} : ReadFails(q, outcome)
  \/ \E plans \in SUBSET Plans, default \in Plans \cup {None} : Change(plans, default)

\* The API answers every request in the end, and settled promises are handled.
Fairness ==
  /\ \A q \in Promises :
       WF_vars(\/ LookupAnswered(q)
               \/ LookupFails(q)
               \/ ReadAnswered(q)
               \/ \E outcome \in {Failed, Missing} : ReadFails(q, outcome))
  /\ \A c \in Callers :
       WF_vars(Resolved(c) \/ Unresolved(c) \/ Answered(c) \/ Recover(c) \/ Refused(c))

Spec == Init /\ [][Next]_vars /\ Fairness

-----------------------------------------------------------------------------
\* Every variable holds a value of its type.
TypeOK ==
  /\ configured \in Plans \cup {None}
  /\ account \in Accounts
  /\ resolutions \in [ResolutionKeys -> Promises \cup {None}]
  /\ reads \in [Plans -> Promises \cup {None}]
  /\ promises \in [Promises -> PromiseStates]
  /\ callers \in [Callers -> CallerStates]

\* A call reads the plan it asked for, and after a recovery another one than the
\* plan that was missing, although calls that want different plans share lookups
\* and reads (planToolUtils.ts 99-105, 135-150).
ReadsTheRightPlan ==
  \A c \in Callers : callers[c].at \in {"reading", "answered"} =>
    /\ callers[c].asked # None => callers[c].plan = callers[c].asked
    /\ callers[c].plan # callers[c].excluded

\* A call moves to another plan only when its own is gone: README.md 133, "If a
\* configured plan becomes stale, the bridge retries once with a fresh resolution".
\* It is stated for an account that does not change.
MovesOnlyFromStalePlans ==
  \A c \in Callers :
    callers[c].at = "answered" => callers[c].excluded \notin account.plans

\* At most one lookup with an exclusion, and one read of a plan, is on its way to
\* the API: concurrent calls share it (planToolUtils.spec.ts 110).
SingleFlight ==
  \A q, r \in Promises :
    /\ q # r
    /\ Free \notin {promises[q], promises[r]}
    /\ Outcome(q) = Unsettled
    /\ Outcome(r) = Unsettled
    => promises[q] # promises[r]

\* Whoever starts after a failure tries again: the map of reads holds no failed
\* promise, and the map of lookups none without a call that will take it out
\* (planToolUtils.spec.ts 163, "retries default-plan discovery after a shared
\* lookup failure"; cachedYnabReads.ts 43-46).
FailuresAreNotCached ==
  /\ \A p \in Plans :
       reads[p] # None => Outcome(reads[p]) \notin {Failed, Missing}
  /\ \A k \in ResolutionKeys : resolutions[k] # None =>
       \E c \in Callers :
         /\ callers[c].at = "resolving"
         /\ callers[c].promise = resolutions[k]
         /\ callers[c].creator

\* Two calls that have one read of the same plan answered at the same time have it from
\* one state of the plan, whatever the owner changes meanwhile
\* (cachedYnabReads.ts 36-50).
ReadsAgree ==
  \A c, d \in Callers :
    /\ callers[c].at = "answered"
    /\ callers[d].at = "answered"
    /\ callers[c].plan = callers[d].plan
    => callers[c].version = callers[d].version

\* Every call is answered or refused in the end, also those that joined a lookup or
\* a read that failed.
EveryCallEnds ==
  \A c \in Callers :
    callers[c].at \in {"resolving", "reading"} ~> callers[c].at \in {"answered", "refused"}
=============================================================================
