----------------------------- MODULE AuthStore -----------------------------
(***************************************************************************)
(* The OAuth store of src/auth2/store/authStore.ts: one record of tables,  *)
(* replaced as a whole by every operation and then handed to persist().    *)
(* This module has no variables. It gives the record types and one         *)
(* operator per store operation, each from the store before the call to    *)
(* the store after it; AuthCore says when memory and file take the result. *)
(*                                                                         *)
(* Identifiers are members of finite sets, which are also the bounds: a    *)
(* fresh identifier is one no table knows. A pending state and its         *)
(* transaction are minted together, one to one, and share a member of      *)
(* Flows; an access and a refresh token are minted together and share a    *)
(* member of Tokens.                                                       *)
(***************************************************************************)
EXTENDS Integers, FiniteSets

CONSTANTS
  Clients,        \* every client_id, configured or registered later
  StaticClients,  \* the clients of the configuration file
  Scopes,         \* every scope a client may be allowed
  Flows,          \* authorization flows: a state id and its transaction id
  Codes,          \* downstream authorization codes
  Grants,         \* grant ids
  Tokens,         \* pairs of an access token and a refresh token
  None            \* no record under this key

Never == 0        \* an absent upstreamAccessExpiresAt, refresh_token or expires_in

PendingRecord == [expiresAt : Nat, used : BOOLEAN]

TransactionRecord == [client : Clients, scopes : SUBSET Scopes]

\* What the provider returned: the version of its refresh_token (Never when it
\* gave none) and expires_in in seconds (Never when absent, not finite or <= 0).
UpstreamTokens == [refreshToken : Nat, expiresIn : Nat]

\* upstreamEnd is history, no field of the code: when the provider's own access
\* token ends, counted from the moment the provider answered.
CodeRecord ==
  [client : Clients, scopes : SUBSET Scopes, flow : Flows, expiresAt : Nat,
   used : BOOLEAN, upstream : UpstreamTokens, upstreamEnd : Nat]

GrantRecord ==
  [client : Clients, scopes : SUBSET Scopes, flow : Flows,
   upstream : UpstreamTokens, upstreamAccessExpiresAt : Nat, upstreamEnd : Nat]

AccessRecord ==
  [grant : Grants, client : Clients, scopes : SUBSET Scopes, expiresAt : Nat]

\* parent is history: the refresh token presented when this one was issued.
RefreshRecord ==
  [grant : Grants, active : BOOLEAN, expiresAt : Nat, parent : Tokens \cup {None}]

\* None is not a record, a time or an identifier.
ASSUME NoneAssumption ==
  /\ None \notin PendingRecord \cup TransactionRecord \cup CodeRecord
  /\ None \notin GrantRecord \cup AccessRecord \cup RefreshRecord
  /\ None \notin Codes \cup Grants \cup Tokens

ASSUME ClientsAssumption == StaticClients \subseteq Clients

Store ==
  [registeredClients  : SUBSET Clients,
   pendingStates      : [Flows -> PendingRecord \cup {None}],
   transactions       : [Flows -> TransactionRecord \cup {None}],
   authorizationCodes : [Codes -> CodeRecord \cup {None}],
   grants             : [Grants -> GrantRecord \cup {None}],
   accessTokens       : [Tokens -> AccessRecord \cup {None}],
   refreshTokens      : [Tokens -> RefreshRecord \cup {None}]]

EmptyState ==
  [registeredClients  |-> {},
   pendingStates      |-> [f \in Flows |-> None],
   transactions       |-> [f \in Flows |-> None],
   authorizationCodes |-> [c \in Codes |-> None],
   grants             |-> [g \in Grants |-> None],
   accessTokens       |-> [t \in Tokens |-> None],
   refreshTokens      |-> [t \in Tokens |-> None]]

-----------------------------------------------------------------------------
\* The operations. None of them ever deletes a record.

SaveRegisteredClient(s, client) ==
  [s EXCEPT !.registeredClients = @ \cup {client}]

SavePendingState(s, flow, record) ==
  [s EXCEPT !.pendingStates[flow] = record]

SaveTransaction(s, flow, record) ==
  [s EXCEPT !.transactions[flow] = record]

SaveAuthorizationCode(s, code, record) ==
  [s EXCEPT !.authorizationCodes[code] = record]

SaveGrant(s, grant, record) ==
  [s EXCEPT !.grants[grant] = record]

SaveAccessToken(s, token, record) ==
  [s EXCEPT !.accessTokens[token] = record]

SaveRefreshToken(s, token, record) ==
  [s EXCEPT !.refreshTokens[token] = record]

\* updatePendingState as consumeState calls it.
MarkStateUsed(s, flow) ==
  [s EXCEPT !.pendingStates[flow].used = TRUE]

\* Faulty variant of MarkCodeUsed: the update is lost.
LeaveCodeUnused(s, code) == s

\* updateAuthorizationCode as the code exchange calls it.
MarkCodeUsed(s, code) ==
  [s EXCEPT !.authorizationCodes[code].used = TRUE]

\* Faulty variant of UpdateGrant: the merged upstream tokens are not stored.
UpdateGrantScopesOnly(s, grant, scopes, upstream, upstreamAccessExpiresAt) ==
  [s EXCEPT !.grants[grant].scopes = scopes]

\* updateGrant as the refresh exchange calls it; an undefined
\* upstreamAccessExpiresAt leaves the field alone.
UpdateGrant(s, grant, scopes, upstream, upstreamAccessExpiresAt) ==
  LET old == s.grants[grant] IN
  [s EXCEPT !.grants[grant] =
     [old EXCEPT !.scopes = scopes,
                 !.upstream = upstream,
                 !.upstreamAccessExpiresAt =
                   IF upstreamAccessExpiresAt = Never THEN @ ELSE upstreamAccessExpiresAt]]

\* Faulty variants of RetireOtherRefreshTokens: it finds no token to retire, or
\* it does not spare the token that was presented.
RetireNothing(s, grant, keep) == s

RetireEveryToken(s, grant, keep) ==
  [s EXCEPT !.refreshTokens =
     [t \in Tokens |->
        IF s.refreshTokens[t] # None /\ s.refreshTokens[t].grant = grant
        THEN [s.refreshTokens[t] EXCEPT !.active = FALSE]
        ELSE s.refreshTokens[t]]]

\* Retire every active refresh token of the grant except keep.
RetireOtherRefreshTokens(s, grant, keep) ==
  [s EXCEPT !.refreshTokens =
     [t \in Tokens |->
        IF /\ s.refreshTokens[t] # None
           /\ s.refreshTokens[t].grant = grant
           /\ t # keep
        THEN [s.refreshTokens[t] EXCEPT !.active = FALSE]
        ELSE s.refreshTokens[t]]]

\* updateRefreshToken with active: true, as the refresh exchange calls it.
ReactivateRefreshToken(s, token) ==
  [s EXCEPT !.refreshTokens[token].active = TRUE]

\* getRegisteredClient falls back on the configured clients.
KnownClients(s) == StaticClients \cup s.registeredClients

StoredTokens(s) == {t \in Tokens : s.refreshTokens[t] # None}

ActiveTokens(s, grant) ==
  {t \in StoredTokens(s) : s.refreshTokens[t].grant = grant /\ s.refreshTokens[t].active}
=============================================================================
