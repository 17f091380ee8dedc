----------------------------- MODULE AuthCore ------------------------------
(***************************************************************************)
(* The OAuth server of src/auth2/core/authCore.ts over the file-backed     *)
(* store of AuthStore, behind the handlers of src/auth2/http/routes.ts.    *)
(*                                                                         *)
(* Node runs one handler at a time, up to its next await. An action is one *)
(* such turn: its guard is the handler's checks, and a request that fails  *)
(* one is answered with an error and changes nothing, which is a           *)
(* stuttering step here. A turn makes its store calls one after the other  *)
(* and each is persisted on its own, so a turn can end in three ways       *)
(* (operator Turn): all calls persisted; persist() throws at one of them,  *)
(* after the memory was already replaced; the process dies between two.    *)
(*                                                                         *)
(* Abstracted: PKCE and redirect_uri comparisons (a request that fails     *)
(* them is one more rejected request), subjects, props, the text of        *)
(* redirects and the optional tokenExchangeCallback, which the server does *)
(* not configure.                                                          *)
(***************************************************************************)
EXTENDS AuthStore, Sequences

CONSTANTS
  Requests,        \* slots for requests in flight at the same time
  ScopesOf,        \* ScopesOf[c]: the scopes the configuration allows client c
  Second,          \* clock units in one second: 1000 in the code
  StateTtl, AuthCodeTtl, AccessTokenTtl, RefreshTokenTtl,  \* in seconds
  UpstreamTtls,    \* the expires_in values the provider may give, in seconds
  MaxTime,         \* bound: the last instant of the clock
  MaxFaults,       \* bound: failed writes, crashes and lost answers in a behaviour
  MaxRotations     \* bound: refresh tokens the provider issues for one flow

ASSUME ScopesAssumption == ScopesOf \in [Clients -> SUBSET Scopes]

ASSUME ClockAssumption ==
  /\ {Second, StateTtl, AuthCodeTtl, AccessTokenTtl, RefreshTokenTtl} \subseteq Nat \ {0}
  /\ UpstreamTtls \subseteq Nat
  /\ {MaxTime, MaxFaults, MaxRotations} \subseteq Nat

VARIABLES
  now,        \* Date.now()
  mem,        \* the store's `state`
  disk,       \* the store file, read again when the process starts
  requests,   \* what each request in flight waits for
  provider,   \* external: the last refresh token version the provider issued
  delivered,  \* history: token pairs a client was answered with
  faults      \* history: faults so far

vars == <<now, mem, disk, requests, provider, delivered, faults>>

Idle == [at |-> "idle"]

AwaitingCallback == [at : {"callback"}, flow : Flows]

AwaitingIssue ==
  [at : {"issue"}, code : Codes, upstreamAccessExpiresAt : Nat,
   accessTtl : Nat, refreshTtl : Nat]

AwaitingProvider ==
  [at : {"provider"}, token : Tokens, grant : Grants, scopes : SUBSET Scopes,
   sent : Nat]

AwaitingRotation ==
  [at : {"rotation"}, token : Tokens, grant : Grants, scopes : SUBSET Scopes,
   upstream : UpstreamTokens, upstreamAccessExpiresAt : Nat,
   accessTtl : Nat, refreshTtl : Nat]

RequestStates ==
  {Idle} \cup AwaitingCallback \cup AwaitingIssue \cup AwaitingProvider
    \cup AwaitingRotation

Init ==
  /\ now = 0
  /\ mem = EmptyState
  /\ disk = EmptyState
  /\ requests = [r \in Requests |-> Idle]
  /\ provider = [f \in Flows |-> Never]
  /\ delivered = {}
  /\ faults = 0

-----------------------------------------------------------------------------
\* How a turn of request r that makes the store calls writes (writes[k] is
\* the store after the k-th) can end.

\* Faulty variant: the answer leaves before the last call is persisted.
AnswersBeforePersisting(r, writes, next) ==
  /\ mem' = writes[Len(writes)]
  /\ disk' = IF Len(writes) = 1 THEN disk ELSE writes[Len(writes) - 1]
  /\ requests' = [requests EXCEPT ![r] = next]
  /\ UNCHANGED faults

Completes(r, writes, next) ==
  /\ mem' = writes[Len(writes)]
  /\ disk' = writes[Len(writes)]
  /\ requests' = [requests EXCEPT ![r] = next]
  /\ UNCHANGED faults

\* persist() throws at one call: memory has it, the file does not, and the
\* handler answers with an error.
PersistThrows(r, writes) ==
  /\ faults < MaxFaults
  /\ faults' = faults + 1
  /\ \E k \in 1 .. Len(writes) :
       /\ mem' = writes[k]
       /\ disk' = IF k = 1 THEN disk ELSE writes[k - 1]
  /\ requests' = [requests EXCEPT ![r] = Idle]

\* The process dies after one call was persisted, and starts again.
DiesAfterWrite(writes) ==
  /\ faults < MaxFaults
  /\ faults' = faults + 1
  /\ \E k \in 1 .. Len(writes) : mem' = writes[k] /\ disk' = writes[k]
  /\ requests' = [q \in Requests |-> Idle]

Turn(r, writes, next, answered) ==
  \/ Completes(r, writes, next) /\ delivered' = delivered \cup answered
  \/ PersistThrows(r, writes) /\ UNCHANGED delivered
  \/ DiesAfterWrite(writes) /\ UNCHANGED delivered

-----------------------------------------------------------------------------
\* Dynamic client registration and the authorization endpoint.

RegisterClient(r, client) ==
  /\ requests[r] = Idle
  /\ client \notin KnownClients(mem)
  /\ Turn(r, <<SaveRegisteredClient(mem, client)>>, Idle, {})
  /\ UNCHANGED <<now, provider>>

\* No scope asked for means every scope allowed.
ResolveScopes(requested, allowed) ==
  IF requested = {} THEN allowed ELSE requested

PendingState == [expiresAt |-> now + StateTtl * Second, used |-> FALSE]

\* startAuthorization: the state is persisted before the transaction it names.
StartAuthorization(r, flow, client, requested) ==
  LET issued  == SavePendingState(mem, flow, PendingState)
      started == SaveTransaction(issued, flow,
                   [client |-> client,
                    scopes |-> ResolveScopes(requested, ScopesOf[client])])
  IN /\ requests[r] = Idle
     /\ mem.pendingStates[flow] = None
     /\ mem.transactions[flow] = None
     /\ client \in KnownClients(mem)
     /\ requested \subseteq ScopesOf[client]
     /\ Turn(r, <<issued, started>>, Idle, {})
     /\ UNCHANGED <<now, provider>>

-----------------------------------------------------------------------------
\* The callback of the provider.

\* Faulty variant: a used state is accepted again.
StateKnownAndFresh(flow) ==
  /\ mem.pendingStates[flow] # None
  /\ mem.pendingStates[flow].expiresAt > now

StateAccepted(flow) ==
  /\ mem.pendingStates[flow] # None
  /\ ~mem.pendingStates[flow].used
  /\ mem.pendingStates[flow].expiresAt > now

\* handleCallback to its await: the state is consumed whatever the outcome.
\* The request goes on to the provider when it carries a code and the
\* transaction is known; with an error, or no code, it is answered at once.
HandleCallback(r, flow, hasCode) ==
  /\ requests[r] = Idle
  /\ StateAccepted(flow)
  /\ Turn(r, <<MarkStateUsed(mem, flow)>>,
          IF hasCode /\ mem.transactions[flow] # None
          THEN [at |-> "callback", flow |-> flow] ELSE Idle,
          {})
  /\ UNCHANGED <<now, provider>>

\* The tokens a provider may answer a code with. One that gives a refresh token
\* has its expires_in ignored from then on, so the model leaves it out.
FirstUpstreamTokens ==
  {[refreshToken |-> 1, expiresIn |-> Never]}
    \cup {[refreshToken |-> Never, expiresIn |-> e] : e \in UpstreamTtls}

UpstreamAccessTokenTtl(upstream) ==
  IF upstream.refreshToken # Never THEN Never ELSE upstream.expiresIn

UpstreamAccessTokenExpiresAt(upstream) ==
  IF UpstreamAccessTokenTtl(upstream) = Never
  THEN Never
  ELSE now + UpstreamAccessTokenTtl(upstream) * Second

AuthorizationCode(flow, upstream) ==
  [client      |-> mem.transactions[flow].client,
   scopes      |-> mem.transactions[flow].scopes,
   flow        |-> flow,
   expiresAt   |-> now + AuthCodeTtl * Second,
   used        |-> FALSE,
   upstream    |-> upstream,
   upstreamEnd |-> UpstreamAccessTokenExpiresAt(upstream)]

\* The provider answers and handleCallback issues the authorization code.
IssueAuthorizationCode(r, code, upstream) ==
  LET flow == requests[r].flow IN
  /\ requests[r].at = "callback"
  /\ mem.authorizationCodes[code] = None
  /\ upstream.refreshToken <= MaxRotations
  /\ Turn(r, <<SaveAuthorizationCode(mem, code, AuthorizationCode(flow, upstream))>>,
          Idle, {})
  /\ provider' = [provider EXCEPT ![flow] = upstream.refreshToken]
  /\ UNCHANGED now

\* The provider refuses, or is not reached: the handler throws. Nothing is
\* written, and the state stays consumed.
ProviderRefuses(r) ==
  /\ requests[r].at \in {"callback", "provider"}
  /\ requests' = [requests EXCEPT ![r] = Idle]
  /\ UNCHANGED <<now, mem, disk, provider, delivered, faults>>

-----------------------------------------------------------------------------
\* The token endpoint: redeeming a code.

MinOf(a, b) == IF a < b THEN a ELSE b

\* Faulty variants of CappedTtl: the full upstream lifetime is granted again at
\* every refresh, or the two instants are subtracted the wrong way round.
CappedOnlyAtFirst(default, upstream, upstreamAccessExpiresAt) ==
  IF UpstreamAccessTokenTtl(upstream) # Never
  THEN MinOf(default, UpstreamAccessTokenTtl(upstream))
  ELSE default

CappedBackwards(default, upstream, upstreamAccessExpiresAt) ==
  IF upstreamAccessExpiresAt # Never
  THEN MinOf(default, (now - upstreamAccessExpiresAt) \div Second)
  ELSE default

\* resolveTokenExchangeOutcome: a local lifetime in seconds, never beyond what
\* is left of the upstream access token. What is left may round down to zero.
CappedTtl(default, upstream, upstreamAccessExpiresAt) ==
  IF upstreamAccessExpiresAt # Never
  THEN MinOf(default, (upstreamAccessExpiresAt - now) \div Second)
  ELSE IF UpstreamAccessTokenTtl(upstream) # Never
       THEN MinOf(default, UpstreamAccessTokenTtl(upstream))
       ELSE default

\* Faulty variant of CodeAccepted: a code may be redeemed at any time.
CodeAcceptedAnyTime(code, client) ==
  /\ mem.authorizationCodes[code] # None
  /\ mem.authorizationCodes[code].client = client
  /\ ~mem.authorizationCodes[code].used

CodeAccepted(code, client) ==
  /\ mem.authorizationCodes[code] # None
  /\ mem.authorizationCodes[code].client = client
  /\ ~mem.authorizationCodes[code].used
  /\ mem.authorizationCodes[code].expiresAt > now

\* exchangeAuthorizationCode to its await.
RedeemCode(r, code, client) ==
  LET upstream == mem.authorizationCodes[code].upstream
      end      == UpstreamAccessTokenExpiresAt(upstream)
  IN /\ requests[r] = Idle
     /\ client \in KnownClients(mem)
     /\ CodeAccepted(code, client)
     /\ Turn(r, <<MarkCodeUsed(mem, code)>>,
             [at |-> "issue", code |-> code, upstreamAccessExpiresAt |-> end,
              accessTtl  |-> CappedTtl(AccessTokenTtl, upstream, end),
              refreshTtl |-> CappedTtl(RefreshTokenTtl, upstream, end)],
             {})
     /\ UNCHANGED <<now, provider>>

\* exchangeAuthorizationCode after its await: the grant, then the access token,
\* then the refresh token. The ids are drawn before the await in the code, and
\* when they are first stored here.
IssueTokens(r, grant, token) ==
  LET req      == requests[r]
      code     == mem.authorizationCodes[req.code]
      granted  == SaveGrant(mem, grant,
                    [client |-> code.client, scopes |-> code.scopes,
                     flow |-> code.flow, upstream |-> code.upstream,
                     upstreamAccessExpiresAt |-> req.upstreamAccessExpiresAt,
                     upstreamEnd |-> code.upstreamEnd])
      accessed == SaveAccessToken(granted, token,
                    [grant |-> grant, client |-> code.client,
                     scopes |-> code.scopes,
                     expiresAt |-> now + req.accessTtl * Second])
      issued   == SaveRefreshToken(accessed, token,
                    [grant |-> grant, active |-> TRUE,
                     expiresAt |-> now + req.refreshTtl * Second,
                     parent |-> None])
  IN /\ req.at = "issue"
     /\ mem.grants[grant] = None
     /\ mem.accessTokens[token] = None
     /\ mem.refreshTokens[token] = None
     /\ Turn(r, <<granted, accessed, issued>>, Idle, {token})
     /\ UNCHANGED <<now, provider>>

-----------------------------------------------------------------------------
\* The token endpoint: refreshing.

\* Faulty variant: the scopes asked for are not compared with the grant's.
RefreshAcceptedForAnyScope(token, client, requested) ==
  LET refresh == mem.refreshTokens[token]
      grant   == mem.grants[refresh.grant]
  IN /\ refresh # None
     /\ refresh.active
     /\ refresh.expiresAt > now
     /\ grant # None
     /\ grant.client = client

RefreshAccepted(token, client, requested) ==
  LET refresh == mem.refreshTokens[token]
      grant   == mem.grants[refresh.grant]
  IN /\ refresh # None
     /\ refresh.active
     /\ refresh.expiresAt > now
     /\ grant # None
     /\ grant.client = client
     /\ requested \subseteq grant.scopes
     /\ \/ grant.upstream.refreshToken # Never
        \/ grant.upstreamAccessExpiresAt = Never
        \/ grant.upstreamAccessExpiresAt > now

Rotation(token, grant, scopes, upstream, end) ==
  [at |-> "rotation", token |-> token, grant |-> grant, scopes |-> scopes,
   upstream |-> upstream, upstreamAccessExpiresAt |-> end,
   accessTtl  |-> CappedTtl(AccessTokenTtl, upstream, end),
   refreshTtl |-> CappedTtl(RefreshTokenTtl, upstream, end)]

\* exchangeRefreshToken to its first await, which is the provider's when the
\* grant holds an upstream refresh token. Nothing is written.
StartRefresh(r, token, client, requested) ==
  LET id     == mem.refreshTokens[token].grant
      grant  == mem.grants[id]
      scopes == ResolveScopes(requested, grant.scopes)
  IN /\ requests[r] = Idle
     /\ client \in KnownClients(mem)
     /\ RefreshAccepted(token, client, requested)
     /\ requests' = [requests EXCEPT ![r] =
          IF grant.upstream.refreshToken # Never
          THEN [at |-> "provider", token |-> token, grant |-> id,
                scopes |-> scopes, sent |-> grant.upstream.refreshToken]
          ELSE Rotation(token, id, scopes, grant.upstream,
                        grant.upstreamAccessExpiresAt)]
     /\ UNCHANGED <<now, mem, disk, provider, delivered, faults>>

FlowOf(r) == mem.grants[requests[r].grant].flow

\* The provider answers with a new refresh token (rotates) or without one, and
\* then the token that was sent is kept.
ProviderRefreshes(r, rotates) ==
  LET req  == requests[r]
      next == IF rotates THEN provider[FlowOf(r)] + 1 ELSE req.sent
      kept == [refreshToken |-> next, expiresIn |-> Never]
  IN /\ req.at = "provider"
     /\ next <= MaxRotations
     /\ provider' = IF rotates THEN [provider EXCEPT ![FlowOf(r)] = next] ELSE provider
     /\ requests' = [requests EXCEPT ![r] =
          Rotation(req.token, req.grant, req.scopes, kept,
                   UpstreamAccessTokenExpiresAt(kept))]
     /\ UNCHANGED <<now, mem, disk, delivered, faults>>

\* The provider rotates and its answer is lost on the way.
ProviderAnswerLost(r) ==
  /\ requests[r].at = "provider"
  /\ faults < MaxFaults
  /\ faults' = faults + 1
  /\ provider[FlowOf(r)] < MaxRotations
  /\ provider' = [provider EXCEPT ![FlowOf(r)] = @ + 1]
  /\ requests' = [requests EXCEPT ![r] = Idle]
  /\ UNCHANGED <<now, mem, disk, delivered>>

\* exchangeRefreshToken after its last await. Neither the token nor the grant is
\* looked at again. Retiring nothing makes no store call.
RotateTokens(r, token) ==
  LET req         == requests[r]
      grant       == mem.grants[req.grant]
      updated     == UpdateGrant(mem, req.grant, req.scopes, req.upstream,
                                 req.upstreamAccessExpiresAt)
      accessed    == SaveAccessToken(updated, token,
                       [grant |-> req.grant, client |-> grant.client,
                        scopes |-> req.scopes,
                        expiresAt |-> now + req.accessTtl * Second])
      retired     == RetireOtherRefreshTokens(accessed, req.grant, req.token)
      reactivated == ReactivateRefreshToken(retired, req.token)
      issued      == SaveRefreshToken(reactivated, token,
                       [grant |-> req.grant, active |-> TRUE,
                        expiresAt |-> now + req.refreshTtl * Second,
                        parent |-> req.token])
  IN /\ req.at = "rotation"
     /\ mem.accessTokens[token] = None
     /\ mem.refreshTokens[token] = None
     /\ Turn(r, IF retired = accessed
                THEN <<updated, accessed, reactivated, issued>>
                ELSE <<updated, accessed, retired, reactivated, issued>>,
             Idle, {token})
     /\ UNCHANGED <<now, provider>>

-----------------------------------------------------------------------------
\* The process is killed and started again on the same file.
Restart ==
  /\ faults < MaxFaults
  /\ faults' = faults + 1
  /\ mem' = disk
  /\ requests' = [r \in Requests |-> Idle]
  /\ UNCHANGED <<now, disk, provider, delivered>>

\* A clock unit is much longer than the microtasks between the last await of a
\* handler and its writes, so time stands still there.
Tick ==
  /\ now < MaxTime
  /\ \A r \in Requests : requests[r].at \notin {"issue", "rotation"}
  /\ now' = now + 1
  /\ UNCHANGED <<mem, disk, requests, provider, delivered, faults>>

Next ==
  \/ \E r \in Requests :
       \/ \E client \in Clients : RegisterClient(r, client)
       \/ \E flow \in Flows, client \in Clients, requested \in SUBSET Scopes :
            StartAuthorization(r, flow, client, requested)
       \/ \E flow \in Flows, hasCode \in BOOLEAN : HandleCallback(r, flow, hasCode)
       \/ \E code \in Codes, upstream \in FirstUpstreamTokens :
            IssueAuthorizationCode(r, code, upstream)
       \/ ProviderRefuses(r)
       \/ \E code \in Codes, client \in Clients : RedeemCode(r, code, client)
       \/ \E grant \in Grants, token \in Tokens : IssueTokens(r, grant, token)
       \/ \E token \in Tokens, client \in Clients, requested \in SUBSET Scopes :
            StartRefresh(r, token, client, requested)
       \/ \E rotates \in BOOLEAN : ProviderRefreshes(r, rotates)
       \/ ProviderAnswerLost(r)
       \/ \E token \in Tokens : RotateTokens(r, token)
  \/ Restart
  \/ Tick

Spec == Init /\ [][Next]_vars

\* What clients promise in the sequential properties: a refresh of a grant waits
\* alone, as with a client that asks for one refresh at a time. Refreshes of other
\* grants, and every other request, may overlap with it.
RefreshesDoNotOverlap ==
  \A q, r \in Requests :
    /\ q # r
    /\ {requests[q].at, requests[r].at} \subseteq {"provider", "rotation"}
    => requests[q].grant # requests[r].grant

SequentialSpec == Init /\ [][Next /\ RefreshesDoNotOverlap']_vars

-----------------------------------------------------------------------------
\* Properties. Those about a store are stated of the memory and of the file.

\* Every variable holds a value of its type, in particular no record names an
\* absent time, client or grant (the record types of authStore.ts).
TypeOK ==
  /\ now \in Nat
  /\ mem \in Store
  /\ disk \in Store
  /\ requests \in [Requests -> RequestStates]
  /\ provider \in [Flows -> Nat]
  /\ delivered \subseteq Tokens
  /\ faults \in Nat

OneCodePerFlow(s) ==
  \A c, d \in Codes :
    /\ s.authorizationCodes[c] # None
    /\ s.authorizationCodes[d] # None
    /\ s.authorizationCodes[c].flow = s.authorizationCodes[d].flow
    => c = d

OneGrantPerFlow(s) ==
  \A g, h \in Grants :
    /\ s.grants[g] # None
    /\ s.grants[h] # None
    /\ s.grants[g].flow = s.grants[h].flow
    => g = h

\* An authorization yields at most one code and a code at most one grant,
\* whatever requests race, whichever writes fail and whenever the process is
\* restarted: the state and the code are marked used, and persisted, before
\* the await that follows (state.ts consumeState, authCore.ts 380-383).
SpentOnce ==
  \A s \in {mem, disk} : OneCodePerFlow(s) /\ OneGrantPerFlow(s)

CodesHaveTransactions(s) ==
  \A c \in Codes : s.authorizationCodes[c] # None =>
    LET code == s.authorizationCodes[c] IN
    /\ s.pendingStates[code.flow] # None
    /\ s.pendingStates[code.flow].used
    /\ s.transactions[code.flow] # None
    /\ s.transactions[code.flow].client = code.client
    /\ s.transactions[code.flow].scopes = code.scopes
    /\ code.client \in KnownClients(s)
    /\ code.scopes \subseteq ScopesOf[code.client]

GrantsHaveCodes(s) ==
  \A g \in Grants : s.grants[g] # None =>
    \E c \in Codes :
      /\ s.authorizationCodes[c] # None
      /\ s.authorizationCodes[c].used
      /\ s.authorizationCodes[c].flow = s.grants[g].flow
      /\ s.authorizationCodes[c].client = s.grants[g].client
      /\ s.grants[g].scopes \subseteq s.authorizationCodes[c].scopes

TokensHaveGrants(s) ==
  \A t \in Tokens :
    /\ s.accessTokens[t] # None =>
         LET access == s.accessTokens[t]
             grant  == s.grants[access.grant]
         IN /\ grant # None
            /\ access.client = grant.client
            /\ access.scopes \subseteq s.transactions[grant.flow].scopes
    /\ s.refreshTokens[t] # None =>
         /\ s.accessTokens[t] # None
         /\ s.accessTokens[t].grant = s.refreshTokens[t].grant

\* Every token leads back to a grant, every grant to a used code, every code to
\* a consumed state and a transaction, with one client all the way and no scope
\* the transaction was not started with. It holds of the file after every write, so
\* a process killed between two writes of a handler restarts without orphans.
Lineage ==
  \A s \in {mem, disk} :
    CodesHaveTransactions(s) /\ GrantsHaveCodes(s) /\ TokensHaveGrants(s)

\* A client that was answered with tokens finds them on the file: no answer
\* leaves before its last write is persisted (authCore.ts 405-434, 543-577).
DeliveredIsDurable ==
  \A t \in delivered :
    disk.accessTokens[t] # None /\ disk.refreshTokens[t] # None

\* A grant never has more than two active refresh tokens, the one presented and
\* the one issued for it, however many refreshes overlap (authCore.ts 567-577).
AtMostTwoActive ==
  \A s \in {mem, disk}, g \in Grants : Cardinality(ActiveTokens(s, g)) <= 2

\* When refreshes of a grant do not overlap, it keeps an active refresh token in
\* memory and on the file after every single write of a rotation, so a crash or a
\* failed write in its middle never locks the client out (authCore.ts 567-577).
NeverLockedOut ==
  \A s \in {mem, disk} :
    \A t \in StoredTokens(s) : ActiveTokens(s, s.refreshTokens[t].grant) # {}

\* When refreshes of a grant do not overlap, and a token issued for u has itself
\* been used, u is retired for good (authCore.ts 567-572): authCore.refresh.spec.ts
\* 126, "then retires the older token".
SuccessorRetires ==
  \A t, u, v \in StoredTokens(mem) :
    /\ mem.refreshTokens[t].parent = u
    /\ mem.refreshTokens[v].parent = t
    => ~mem.refreshTokens[u].active

\* A refresh of the flow has the provider's answer and has not stored it yet.
IsRotating(flow) == \E r \in Requests : requests[r].at = "rotation" /\ FlowOf(r) = flow

\* How many tokens of the provider may be missing: one for each fault, and one that is
\* about to be stored.
Slack(flow) == faults + (IF IsRotating(flow) THEN 1 ELSE 0)

\* When refreshes of a grant do not overlap, a failed write, a crash or a lost answer
\* costs a grant at most one refresh token of the provider, in memory and on the file,
\* at any time; with no fault the newest is on the file before the client is answered
\* (authCore.ts 517-527 with 543).
OneUpstreamTokenPerFault ==
  \A s \in {mem, disk}, g \in Grants :
    s.grants[g] # None =>
      LET flow == s.grants[g].flow IN
      provider[flow] - s.grants[g].upstream.refreshToken \in 0 .. Slack(flow)

\* When refreshes of a grant do not overlap, a grant narrowed by one is never widened
\* again (authCore.ts 485-493).
ScopesNeverWiden ==
  [][\A g \in Grants :
       /\ disk.grants[g] # None
       /\ disk'.grants[g] # None
       => disk'.grants[g].scopes \subseteq disk.grants[g].scopes]_vars

\* No local token outlives the end of the upstream access token as the grant
\* records it (resolveTokenExchangeOutcome, authCore.ts 158-176).
CappedByGrant ==
  \A s \in {mem, disk}, t \in Tokens :
    s.accessTokens[t] # None =>
      LET end == s.grants[s.accessTokens[t].grant].upstreamAccessExpiresAt IN
      end # Never =>
        /\ s.accessTokens[t].expiresAt <= end
        /\ s.refreshTokens[t] # None => s.refreshTokens[t].expiresAt <= end

\* The grant counts the upstream lifetime from the redemption of the code, so
\* local tokens may outlive the upstream access token itself, yet by less than
\* a code lives, at any length of a chain of refreshes (authCore.ts 360-388).
OverstaysLessThanACode ==
  \A s \in {mem, disk}, t \in Tokens :
    s.accessTokens[t] # None =>
      LET grant == s.grants[s.accessTokens[t].grant] IN
      grant.upstreamAccessExpiresAt # Never =>
        s.accessTokens[t].expiresAt < grant.upstreamEnd + AuthCodeTtl * Second

\* The life of a local token is capped, at the first exchange and at every refresh
\* of a chain: to the end that the grant records, and so to less than the life of a
\* code after the real end of the upstream token (authCore.ts 122-184).
LifetimeCapped == CappedByGrant /\ OverstaysLessThanACode

-----------------------------------------------------------------------------
\* The strengthening of SpentOnce that every step preserves.

CodesSpentStates(s) ==
  \A c \in Codes : s.authorizationCodes[c] # None =>
    /\ s.pendingStates[s.authorizationCodes[c].flow] # None
    /\ s.pendingStates[s.authorizationCodes[c].flow].used

GrantsSpentCodes(s) ==
  \A g \in Grants : s.grants[g] # None =>
    \E c \in Codes :
      /\ s.authorizationCodes[c] # None
      /\ s.authorizationCodes[c].used
      /\ s.authorizationCodes[c].flow = s.grants[g].flow

GoodStores ==
  {s \in Store :
     /\ OneCodePerFlow(s)
     /\ OneGrantPerFlow(s)
     /\ CodesSpentStates(s)
     /\ GrantsSpentCodes(s)}

\* What a request that waits relies on when it goes on without looking again.
Grounded(s, req) ==
  /\ req.at = "callback" =>
       /\ s.transactions[req.flow] # None
       /\ s.pendingStates[req.flow] # None
       /\ s.pendingStates[req.flow].used
       /\ \A c \in Codes : s.authorizationCodes[c] # None =>
            s.authorizationCodes[c].flow # req.flow
  /\ req.at = "issue" =>
       /\ s.authorizationCodes[req.code] # None
       /\ s.authorizationCodes[req.code].used
       /\ \A g \in Grants : s.grants[g] # None =>
            s.grants[g].flow # s.authorizationCodes[req.code].flow
  /\ req.at \in {"provider", "rotation"} =>
       /\ s.grants[req.grant] # None
       /\ s.refreshTokens[req.token] # None

\* Two requests never wait to issue on behalf of the same state or code.
Apart(p, q) ==
  /\ p.at = "callback" /\ q.at = "callback" => p.flow # q.flow
  /\ p.at = "issue" /\ q.at = "issue" => p.code # q.code

\* The inductive invariant.
Inv ==
  /\ TypeOK
  /\ mem \in GoodStores
  /\ disk \in GoodStores
  /\ \A r \in Requests : Grounded(mem, requests[r])
  /\ \A q, r \in Requests : q # r => Apart(requests[q], requests[r])
=============================================================================
