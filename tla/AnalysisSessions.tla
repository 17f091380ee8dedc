-------------------------- MODULE AnalysisSessions --------------------------
(***************************************************************************)
(* The analyses that src/financialAnalysisState.ts keeps on the API object *)
(* for the tools that go on with an earlier one: a token is drawn from a   *)
(* counter, names a session and expires. The sessions are in memory only,  *)
(* the tokens are in the conversations of the clients and survive the      *)
(* process.                                                                *)
(*                                                                         *)
(* Time is kept as what is left of a session's life and as the age of an   *)
(* analysis, up to Ttl where it no longer matters: the clock has no bound. *)
(***************************************************************************)
EXTENDS Integers, FiniteSets

CONSTANTS
  Callers,      \* tool calls in progress together
  Plans,        \* plan ids
  Ttl,          \* DEFAULT_ANALYSIS_TTL_MS
  MaxAnalyses,  \* bound: analyses over all lives of the server
  MaxRestarts,  \* bound: restarts of the server
  None          \* no session, no analysis

ASSUME SessionsAssumption ==
  /\ {Ttl, MaxAnalyses} \subseteq Nat \ {0}
  /\ MaxRestarts \in Nat

VARIABLES
  counter,   \* the counter of the store
  sessions,  \* the map of the store, by token
  callers,   \* what each call is doing
  given,     \* history: the token each analysis was answered with, and its age
  made,      \* history: analyses so far, over all lives of the server
  restarts   \* restarts so far

vars == <<counter, sessions, callers, given, made, restarts>>

\* The kinds that a tool creates.
Kinds == {"spending_change", "spending_anomalies"}

Analyses == 1 .. MaxAnalyses
Tokens   == 1 .. MaxAnalyses   \* analysis_1, analysis_2, ...

\* analysis stands for the payload.
Sessions == [kind : Kinds, plan : Plans, left : 0 .. Ttl, analysis : Analyses]

Idle == [at |-> "idle"]

\* A call reads its months or transactions; an update holds the session it found
\* under the token of the analysis it is meant to go on with.
CallerStates ==
  {Idle}
    \cup [at : {"analysing"}, kind : Kinds, plan : Plans]
    \cup [at : {"updating"}, plan : Plans, meant : Analyses, found : Sessions]

Answers == [token : Tokens, restarts : 0 .. MaxRestarts, age : 0 .. Ttl]

ASSUME NoneAssumption == None \notin Sessions \cup Answers \cup Plans

Init ==
  /\ counter = 0
  /\ sessions = [t \in Tokens |-> None]
  /\ callers = [c \in Callers |-> Idle]
  /\ given = [a \in Analyses |-> None]
  /\ made = 0
  /\ restarts = 0

-----------------------------------------------------------------------------
\* Faulty variant: the number of sessions is taken for the number of tokens.
NextFromSize == Cardinality({t \in Tokens : sessions[t] # None}) + 1

NextToken == counter + 1

\* createAnalysisSession, and the answer that names it. A bound on the analyses
\* is the bound on the counter.
Create(c, kind, plan) ==
  LET token    == NextToken
      analysis == made + 1
  IN /\ made < MaxAnalyses
     /\ counter' = token
     /\ sessions' = [sessions EXCEPT ![token] =
          [kind |-> kind, plan |-> plan, left |-> Ttl, analysis |-> analysis]]
     /\ given' = [given EXCEPT ![analysis] =
          [token |-> token, restarts |-> restarts, age |-> 0]]
     /\ made' = analysis
     /\ callers' = [callers EXCEPT ![c] = Idle]
     /\ UNCHANGED restarts

\* Faulty variant: the expiry is not looked at.
Stored(token) == sessions[token] # None

\* expiresAt is later than now.
Live(token) == sessions[token] # None /\ sessions[token].left > 0

\* Faulty variants: a session is used up by a look at it, or lives on from it.
UsedUp(token) == [sessions EXCEPT ![token] = None]

Renewed(token) ==
  IF Live(token) THEN [sessions EXCEPT ![token].left = Ttl]
  ELSE [sessions EXCEPT ![token] = None]

\* getAnalysisSession leaves a live session as it is and deletes an expired one.
AfterLook(token) ==
  IF Live(token) THEN sessions ELSE [sessions EXCEPT ![token] = None]

\* ynab_get_spending_anomalies, or ynab_get_spending_change_explanation without a
\* token.
StartAnalysis(c, kind, plan) ==
  /\ callers[c] = Idle
  /\ callers' = [callers EXCEPT ![c] = [at |-> "analysing", kind |-> kind, plan |-> plan]]
  /\ UNCHANGED <<counter, sessions, given, made, restarts>>

\* The reads of a first analysis have answered.
FinishAnalysis(c) ==
  /\ callers[c].at = "analysing"
  /\ Create(c, callers[c].kind, callers[c].plan)

Given(analysis) == given[analysis] # None

\* ynab_get_updated_anomalies with the token of an analysis, and a plan id or the
\* one of the session. A token that is invalid or has expired is an error.
StartUpdate(c, analysis, asked) ==
  LET token == given[analysis].token
      found == sessions[token]
      goes  == Live(token) /\ found.kind = "spending_anomalies"
  IN /\ callers[c] = Idle
     /\ Given(analysis)
     /\ sessions' = AfterLook(token)
     /\ callers' = IF goes
          THEN [callers EXCEPT ![c] =
                  [at |-> "updating", meant |-> analysis, found |-> found,
                   plan |-> IF asked # None THEN asked ELSE found.plan]]
          ELSE callers
     /\ UNCHANGED <<counter, given, made, restarts>>

\* The months were read: the differences are answered under a token of their own.
FinishUpdate(c) ==
  /\ callers[c].at = "updating"
  /\ Create(c, "spending_anomalies", callers[c].plan)

\* ynab_get_spending_change_explanation with a token looks the session up and
\* answers from it, or with an error, at once.
Refine(c, analysis) ==
  /\ callers[c] = Idle
  /\ Given(analysis)
  /\ sessions' = AfterLook(given[analysis].token)
  /\ UNCHANGED <<counter, callers, given, made, restarts>>

\* A read fails, and the call with it.
Fail(c) ==
  /\ callers[c].at \in {"analysing", "updating"}
  /\ callers' = [callers EXCEPT ![c] = Idle]
  /\ UNCHANGED <<counter, sessions, given, made, restarts>>

Tick ==
  /\ sessions' = [t \in Tokens |->
       IF Live(t) THEN [sessions[t] EXCEPT !.left = @ - 1] ELSE sessions[t]]
  /\ given' = [a \in Analyses |->
       IF Given(a) /\ given[a].age < Ttl THEN [given[a] EXCEPT !.age = @ + 1] ELSE given[a]]
  /\ UNCHANGED <<counter, callers, made, restarts>>

\* A new process has a new API object, and an empty store.
Restart ==
  /\ restarts < MaxRestarts
  /\ restarts' = restarts + 1
  /\ counter' = 0
  /\ sessions' = [t \in Tokens |-> None]
  /\ callers' = [c \in Callers |-> Idle]
  /\ UNCHANGED <<given, made>>

Next ==
  \/ \E c \in Callers :
       \/ \E kind \in Kinds, plan \in Plans : StartAnalysis(c, kind, plan)
       \/ FinishAnalysis(c)
       \/ \E a \in Analyses, asked \in Plans \cup {None} : StartUpdate(c, a, asked)
       \/ FinishUpdate(c)
       \/ \E a \in Analyses : Refine(c, a)
       \/ Fail(c)
  \/ Tick
  \/ Restart

Spec == Init /\ [][Next]_vars

-----------------------------------------------------------------------------
\* Every variable holds a value of its type.
TypeOK ==
  /\ counter \in 0 .. MaxAnalyses
  /\ sessions \in [Tokens -> Sessions \cup {None}]
  /\ callers \in [Callers -> CallerStates]
  /\ given \in [Analyses -> Answers \cup {None}]
  /\ made \in 0 .. MaxAnalyses
  /\ restarts \in 0 .. MaxRestarts

\* The analyses whose tokens the running server gave out.
Current == {a \in Analyses : Given(a) /\ given[a].restarts = restarts}

\* While the server runs a token names the analysis it was given for and no other,
\* even when that one has expired, was deleted and others came after it
\* (financialAnalysisState.ts 78-91).
TokensAreNotReused ==
  \A a \in Current :
    LET found == sessions[given[a].token] IN found # None => found.analysis = a

\* What a client was given can be gone on with for as long as it was promised,
\* whoever looks at it in between, unless the server restarts
\* (financialAnalysisState.ts 105-108).
KeptForItsTtl ==
  \A a \in Current :
    given[a].age < Ttl => Live(given[a].token)

\* No update starts from an analysis older than Ttl, also at the end of a chain of
\* updates (financialAnalysisState.spec.ts 33).
NothingStartsFromExpired ==
  [][\A c \in Callers :
       callers[c].at = "idle" /\ callers'[c].at = "updating"
         => given[callers'[c].found.analysis].age < Ttl]_vars

\* An update is the difference to the analysis its token was given for:
\* GetUpdatedAnomaliesTool.ts 48, "relative to a prior anomaly analysis token".
RelativeToItsToken ==
  \A c \in Callers :
    callers[c].at = "updating" => callers[c].found.analysis = callers[c].meant
=============================================================================
