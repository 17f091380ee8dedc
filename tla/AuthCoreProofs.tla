--------------------------- MODULE AuthCoreProofs ---------------------------
(***************************************************************************)
(* Theorems about AuthCore for every set of clients, flows, codes, grants, *)
(* tokens and requests, every lifetime and every number of faults, and     *)
(* however requests overlap. The theorems that need clients which refresh  *)
(* a grant once at a time are in AuthRefreshProofs.                        *)
(*                                                                         *)
(* Part 1: types, and that a state, a code and a flow are spent once.      *)
(* Part 2: the records. Where every token comes from, how long it lives,   *)
(*         how many of a grant are active, and that an answered one is on  *)
(*         the file.                                                       *)
(* Part 3: the file implements the ledger of AuthLedger.                   *)
(***************************************************************************)
EXTENDS AuthDurability, FiniteSetTheorems, TLAPS

(***************************************************************************)
(* PART 1. Types and single use.                                           *)
(***************************************************************************)

-----------------------------------------------------------------------------
\* Arithmetic of the clock.

\* A lifetime in seconds is a whole number of clock units.
LEMMA ProductInNat ==
  ASSUME NEW a \in Nat, NEW b \in Nat
  PROVE  a * b \in Nat
  OBVIOUS

\* What is left of a lifetime, in whole seconds, is not negative.
LEMMA QuotientInNat ==
  ASSUME NEW a \in Nat, NEW b \in Nat \ {0}
  PROVE  a \div b \in Nat
  OBVIOUS

-----------------------------------------------------------------------------
\* Types of the store operations.

\* Saving a record under a key keeps the type of the store.
LEMMA SavesKeepStore ==
  ASSUME NEW s \in Store
  PROVE  /\ \A c \in Clients : SaveRegisteredClient(s, c) \in Store
         /\ \A f \in Flows, rec \in PendingRecord : SavePendingState(s, f, rec) \in Store
         /\ \A f \in Flows, rec \in TransactionRecord : SaveTransaction(s, f, rec) \in Store
         /\ \A c \in Codes, rec \in CodeRecord : SaveAuthorizationCode(s, c, rec) \in Store
         /\ \A g \in Grants, rec \in GrantRecord : SaveGrant(s, g, rec) \in Store
         /\ \A t \in Tokens, rec \in AccessRecord : SaveAccessToken(s, t, rec) \in Store
         /\ \A t \in Tokens, rec \in RefreshRecord : SaveRefreshToken(s, t, rec) \in Store
  <1>1. \A c \in Clients : SaveRegisteredClient(s, c) \in Store
    BY DEF Store, SaveRegisteredClient
  <1>2. \A f \in Flows, rec \in PendingRecord : SavePendingState(s, f, rec) \in Store
    BY DEF Store, SavePendingState
  <1>3. \A f \in Flows, rec \in TransactionRecord : SaveTransaction(s, f, rec) \in Store
    BY DEF Store, SaveTransaction
  <1>4. \A c \in Codes, rec \in CodeRecord : SaveAuthorizationCode(s, c, rec) \in Store
    BY DEF Store, SaveAuthorizationCode
  <1>5. \A g \in Grants, rec \in GrantRecord : SaveGrant(s, g, rec) \in Store
    BY DEF Store, SaveGrant
  <1>6. \A t \in Tokens, rec \in AccessRecord : SaveAccessToken(s, t, rec) \in Store
    BY DEF Store, SaveAccessToken
  <1>7. \A t \in Tokens, rec \in RefreshRecord : SaveRefreshToken(s, t, rec) \in Store
    BY DEF Store, SaveRefreshToken
  <1>8. QED
    BY <1>1, <1>2, <1>3, <1>4, <1>5, <1>6, <1>7

\* Updating a record that is there keeps the type of the store.
LEMMA UpdatesKeepStore ==
  ASSUME NEW s \in Store
  PROVE  /\ \A f \in Flows : s.pendingStates[f] # None => MarkStateUsed(s, f) \in Store
         /\ \A c \in Codes : s.authorizationCodes[c] # None => MarkCodeUsed(s, c) \in Store
         /\ \A g \in Grants, scopes \in SUBSET Scopes, up \in UpstreamTokens, end \in Nat :
              s.grants[g] # None => UpdateGrant(s, g, scopes, up, end) \in Store
         /\ \A t \in Tokens :
              s.refreshTokens[t] # None => ReactivateRefreshToken(s, t) \in Store
         /\ \A g \in Grants, t \in Tokens : RetireOtherRefreshTokens(s, g, t) \in Store
  <1>1. ASSUME NEW f \in Flows, s.pendingStates[f] # None
        PROVE  MarkStateUsed(s, f) \in Store
    <2> DEFINE rec == [s.pendingStates[f] EXCEPT !.used = TRUE]
    <2>0. s.pendingStates[f] \in PendingRecord
      BY <1>1 DEF Store
    <2>1. rec \in PendingRecord
      BY <2>0 DEF PendingRecord
    <2>2. MarkStateUsed(s, f) = SavePendingState(s, f, rec)
      BY DEF Store, MarkStateUsed, SavePendingState
    <2>3. QED
      BY <2>1, <2>2, SavesKeepStore
  <1>2. ASSUME NEW c \in Codes, s.authorizationCodes[c] # None
        PROVE  MarkCodeUsed(s, c) \in Store
    <2> DEFINE rec == [s.authorizationCodes[c] EXCEPT !.used = TRUE]
    <2>1. rec \in CodeRecord
      BY <1>2, ZenonT(30) DEF Store, CodeRecord
    <2>2. MarkCodeUsed(s, c) = SaveAuthorizationCode(s, c, rec)
      BY DEF Store, MarkCodeUsed, SaveAuthorizationCode
    <2>3. QED
      BY <2>1, <2>2, SavesKeepStore
  <1>3. ASSUME NEW g \in Grants, NEW scopes \in SUBSET Scopes, NEW up \in UpstreamTokens,
               NEW end \in Nat, s.grants[g] # None
        PROVE  UpdateGrant(s, g, scopes, up, end) \in Store
    <2> DEFINE rec == [s.grants[g] EXCEPT
                         !.scopes = scopes, !.upstream = up,
                         !.upstreamAccessExpiresAt = IF end = Never THEN @ ELSE end]
    <2>1. s.grants[g] \in GrantRecord
      BY <1>3 DEF Store
    <2>2. rec \in GrantRecord
      BY <2>1 DEF GrantRecord
    <2>3. UpdateGrant(s, g, scopes, up, end) = SaveGrant(s, g, rec)
      BY DEF UpdateGrant, SaveGrant
    <2>4. QED
      BY <2>2, <2>3, SavesKeepStore
  <1>4. ASSUME NEW t \in Tokens, s.refreshTokens[t] # None
        PROVE  ReactivateRefreshToken(s, t) \in Store
    <2> DEFINE rec == [s.refreshTokens[t] EXCEPT !.active = TRUE]
    <2>1. rec \in RefreshRecord
      BY <1>4 DEF Store, RefreshRecord
    <2>2. ReactivateRefreshToken(s, t) = SaveRefreshToken(s, t, rec)
      BY DEF Store, ReactivateRefreshToken, SaveRefreshToken
    <2>3. QED
      BY <2>1, <2>2, SavesKeepStore
  <1>5. ASSUME NEW g \in Grants, NEW t \in Tokens
        PROVE  RetireOtherRefreshTokens(s, g, t) \in Store
    <2>1. \A u \in Tokens : s.refreshTokens[u] # None =>
            [s.refreshTokens[u] EXCEPT !.active = FALSE] \in RefreshRecord
      BY DEF Store, RefreshRecord
    <2> DEFINE table == [u \in Tokens |->
                 IF /\ s.refreshTokens[u] # None
                    /\ s.refreshTokens[u].grant = g
                    /\ u # t
                 THEN [s.refreshTokens[u] EXCEPT !.active = FALSE]
                 ELSE s.refreshTokens[u]]
    <2>2. table \in [Tokens -> RefreshRecord \cup {None}]
      BY <2>1 DEF Store
    <2>3. RetireOtherRefreshTokens(s, g, t) = [s EXCEPT !.refreshTokens = table]
      BY DEF RetireOtherRefreshTokens
    <2> HIDE DEF table
    <2>4. QED
      BY <2>2, <2>3 DEF Store
  <1>6. QED
    BY <1>1, <1>2, <1>3, <1>4, <1>5

-----------------------------------------------------------------------------
\* What each store operation preserves. Every lemma says that the result is a
\* good store again and that a waiting request stays grounded.

\* A write that takes store s to store t leaves what the invariant needs.
Harmless(s, t) ==
  /\ t \in GoodStores
  /\ \A req \in RequestStates : Grounded(s, req) => Grounded(t, req)

\* The kinds of waiting requests are told apart by their first field.
LEMMA RequestKinds ==
  ASSUME NEW req \in RequestStates
  PROVE  /\ req.at = "callback" => req \in AwaitingCallback
         /\ req.at = "issue" => req \in AwaitingIssue
         /\ req.at = "provider" => req \in AwaitingProvider
         /\ req.at = "rotation" => req \in AwaitingRotation
  BY DEF RequestStates, Idle, AwaitingCallback, AwaitingIssue, AwaitingProvider,
         AwaitingRotation

\* Two stores that agree on every table the invariant reads.
LEMMA SameTables ==
  ASSUME NEW s \in GoodStores, NEW t \in Store,
         t.pendingStates = s.pendingStates,
         t.transactions = s.transactions,
         t.authorizationCodes = s.authorizationCodes,
         t.grants = s.grants,
         \A k \in Tokens : s.refreshTokens[k] # None => t.refreshTokens[k] # None
  PROVE  Harmless(s, t)
  <1>1. t \in GoodStores
    BY DEF GoodStores, OneCodePerFlow, OneGrantPerFlow, CodesSpentStates, GrantsSpentCodes
  <1>2. \A req \in RequestStates : Grounded(s, req) => Grounded(t, req)
    BY RequestKinds DEF Grounded, AwaitingProvider, AwaitingRotation
  <1>3. QED
    BY <1>1, <1>2 DEF Harmless

\* Clients, access tokens and refresh tokens.
LEMMA TokenWrites ==
  ASSUME NEW s \in GoodStores
  PROVE  /\ \A c \in Clients :
              Harmless(s, SaveRegisteredClient(s, c))
         /\ \A k \in Tokens, rec \in AccessRecord :
              Harmless(s, SaveAccessToken(s, k, rec))
         /\ \A k \in Tokens, rec \in RefreshRecord :
              Harmless(s, SaveRefreshToken(s, k, rec))
         /\ \A k \in Tokens : s.refreshTokens[k] # None =>
              Harmless(s, ReactivateRefreshToken(s, k))
         /\ \A g \in Grants, k \in Tokens :
              Harmless(s, RetireOtherRefreshTokens(s, g, k))
  <1>0. s \in Store
    BY DEF GoodStores
  <1>1. ASSUME NEW c \in Clients
        PROVE  Harmless(s, SaveRegisteredClient(s, c))
    <2> DEFINE t == SaveRegisteredClient(s, c)
    <2>1. t \in Store
      BY <1>0, SavesKeepStore
    <2>2. /\ t.pendingStates = s.pendingStates
          /\ t.transactions = s.transactions
          /\ t.authorizationCodes = s.authorizationCodes
          /\ t.grants = s.grants
          /\ t.refreshTokens = s.refreshTokens
      BY <1>0 DEF SaveRegisteredClient, Store
    <2>3. QED
      BY <2>1, <2>2, SameTables
  <1>2. ASSUME NEW k \in Tokens, NEW rec \in AccessRecord
        PROVE  Harmless(s, SaveAccessToken(s, k, rec))
    <2> DEFINE t == SaveAccessToken(s, k, rec)
    <2>1. t \in Store
      BY <1>0, SavesKeepStore
    <2>2. /\ t.pendingStates = s.pendingStates
          /\ t.transactions = s.transactions
          /\ t.authorizationCodes = s.authorizationCodes
          /\ t.grants = s.grants
          /\ t.refreshTokens = s.refreshTokens
      BY <1>0 DEF SaveAccessToken, Store
    <2>3. QED
      BY <2>1, <2>2, SameTables
  <1>3. ASSUME NEW k \in Tokens, NEW rec \in RefreshRecord
        PROVE  Harmless(s, SaveRefreshToken(s, k, rec))
    <2> DEFINE t == SaveRefreshToken(s, k, rec)
    <2>1. t \in Store
      BY <1>0, SavesKeepStore
    <2>2. /\ t.pendingStates = s.pendingStates
          /\ t.transactions = s.transactions
          /\ t.authorizationCodes = s.authorizationCodes
          /\ t.grants = s.grants
          /\ t.refreshTokens = [s.refreshTokens EXCEPT ![k] = rec]
      BY <1>0 DEF SaveRefreshToken, Store
    <2>3. \A j \in Tokens : s.refreshTokens[j] # None => t.refreshTokens[j] # None
      BY <1>0, <2>2, NoneAssumption DEF Store
    <2>4. QED
      BY <2>1, <2>2, <2>3, SameTables
  <1>4. ASSUME NEW k \in Tokens, s.refreshTokens[k] # None
        PROVE  Harmless(s, ReactivateRefreshToken(s, k))
    <2> DEFINE t == ReactivateRefreshToken(s, k)
    <2>1. t \in Store
      BY <1>0, <1>4, UpdatesKeepStore
    <2> DEFINE rec == [s.refreshTokens[k] EXCEPT !.active = TRUE]
    <2>2. /\ t.pendingStates = s.pendingStates
          /\ t.transactions = s.transactions
          /\ t.authorizationCodes = s.authorizationCodes
          /\ t.grants = s.grants
          /\ t.refreshTokens = [s.refreshTokens EXCEPT ![k] = rec]
      BY <1>0 DEF ReactivateRefreshToken, Store
    <2>3. rec \in RefreshRecord
      BY <1>0, <1>4 DEF Store, RefreshRecord
    <2>4. \A j \in Tokens : s.refreshTokens[j] # None => t.refreshTokens[j] # None
      <3> HIDE DEF rec, t
      <3> QED
        BY <1>0, <2>2, <2>3, NoneAssumption DEF Store
    <2>5. QED
      BY <2>1, <2>2, <2>4, SameTables
  <1>5. ASSUME NEW g \in Grants, NEW k \in Tokens
        PROVE  Harmless(s, RetireOtherRefreshTokens(s, g, k))
    <2> DEFINE t == RetireOtherRefreshTokens(s, g, k)
    <2>1. t \in Store
      BY <1>0, UpdatesKeepStore
    <2>2. /\ t.pendingStates = s.pendingStates
          /\ t.transactions = s.transactions
          /\ t.authorizationCodes = s.authorizationCodes
          /\ t.grants = s.grants
      BY <1>0 DEF RetireOtherRefreshTokens, Store
    <2>3. ASSUME NEW j \in Tokens, s.refreshTokens[j] # None
          PROVE  t.refreshTokens[j] # None
      <3>1. s.refreshTokens[j] \in RefreshRecord
        BY <1>0, <2>3 DEF Store
      <3>2. [s.refreshTokens[j] EXCEPT !.active = FALSE] \in RefreshRecord
        BY <3>1 DEF RefreshRecord
      <3>3. t.refreshTokens[j] \in {s.refreshTokens[j],
                                    [s.refreshTokens[j] EXCEPT !.active = FALSE]}
        BY <1>0 DEF RetireOtherRefreshTokens, Store
      <3>4. QED
        BY <3>1, <3>2, <3>3, NoneAssumption
    <2>4. QED
      BY <2>1, <2>2, <2>3, SameTables
  <1>6. QED
    BY <1>1, <1>2, <1>3, <1>4, <1>5

\* A fresh pending state belongs to no code and to no waiting request.
LEMMA PendingStateWrite ==
  ASSUME NEW s \in GoodStores, NEW f \in Flows, NEW rec \in PendingRecord,
         s.pendingStates[f] = None
  PROVE  Harmless(s, SavePendingState(s, f, rec))
  <1> DEFINE t == SavePendingState(s, f, rec)
  <1>0. s \in Store
    BY DEF GoodStores
  <1>1. t \in Store
    BY <1>0, SavesKeepStore
  <1>2. /\ t.pendingStates = [s.pendingStates EXCEPT ![f] = rec]
        /\ t.transactions = s.transactions
        /\ t.authorizationCodes = s.authorizationCodes
        /\ t.grants = s.grants
        /\ t.refreshTokens = s.refreshTokens
    BY <1>0 DEF SavePendingState, Store
  <1> HIDE DEF t
  <1>3. \A e \in Flows : s.pendingStates[e] # None =>
          t.pendingStates[e] = s.pendingStates[e]
    BY <1>0, <1>2 DEF Store
  <1>4. \A c \in Codes : s.authorizationCodes[c] # None =>
          s.authorizationCodes[c].flow \in Flows
    BY <1>0 DEF Store, CodeRecord
  <1>5. t \in GoodStores
    <2>1. CodesSpentStates(s)
      BY DEF GoodStores
    <2>2. CodesSpentStates(t)
      BY <2>1, <1>2, <1>3, <1>4 DEF CodesSpentStates
    <2>3. QED
      BY <1>1, <1>2, <2>2 DEF GoodStores, OneCodePerFlow, OneGrantPerFlow, GrantsSpentCodes
  <1>6. ASSUME NEW req \in RequestStates, Grounded(s, req)
        PROVE  Grounded(t, req)
    BY <1>2, <1>3, <1>6, RequestKinds DEF Grounded, AwaitingCallback
  <1>7. QED
    BY <1>5, <1>6 DEF Harmless, t

\* A transaction is read only by requests that found it.
LEMMA TransactionWrite ==
  ASSUME NEW s \in GoodStores, NEW f \in Flows, NEW rec \in TransactionRecord
  PROVE  Harmless(s, SaveTransaction(s, f, rec))
  <1> DEFINE t == SaveTransaction(s, f, rec)
  <1>0. s \in Store
    BY DEF GoodStores
  <1>1. t \in Store
    BY <1>0, SavesKeepStore
  <1>2. /\ t.pendingStates = s.pendingStates
        /\ t.transactions = [s.transactions EXCEPT ![f] = rec]
        /\ t.authorizationCodes = s.authorizationCodes
        /\ t.grants = s.grants
        /\ t.refreshTokens = s.refreshTokens
    BY <1>0 DEF SaveTransaction, Store
  <1> HIDE DEF t
  <1>3. \A e \in Flows : s.transactions[e] # None => t.transactions[e] # None
    BY <1>0, <1>2, NoneAssumption DEF Store
  <1>4. t \in GoodStores
    BY <1>1, <1>2
    DEF GoodStores, OneCodePerFlow, OneGrantPerFlow, CodesSpentStates, GrantsSpentCodes
  <1>5. ASSUME NEW req \in RequestStates, Grounded(s, req)
        PROVE  Grounded(t, req)
    BY <1>2, <1>3, <1>5, RequestKinds DEF Grounded, AwaitingCallback
  <1>6. QED
    BY <1>4, <1>5 DEF Harmless, t

\* A state marked used stays known.
LEMMA StateUsedWrite ==
  ASSUME NEW s \in GoodStores, NEW f \in Flows, s.pendingStates[f] # None
  PROVE  /\ Harmless(s, MarkStateUsed(s, f))
         /\ MarkStateUsed(s, f).pendingStates[f] # None
         /\ MarkStateUsed(s, f).pendingStates[f].used
  <1> DEFINE t == MarkStateUsed(s, f)
             rec == [s.pendingStates[f] EXCEPT !.used = TRUE]
  <1>0. s \in Store
    BY DEF GoodStores
  <1>1. t \in Store
    BY <1>0, UpdatesKeepStore
  <1>2. /\ t.pendingStates = [s.pendingStates EXCEPT ![f] = rec]
        /\ t.transactions = s.transactions
        /\ t.authorizationCodes = s.authorizationCodes
        /\ t.grants = s.grants
        /\ t.refreshTokens = s.refreshTokens
    BY <1>0 DEF MarkStateUsed, Store
  <1>3. s.pendingStates[f] \in PendingRecord
    BY <1>0 DEF Store
  <1>4. rec \in PendingRecord /\ rec.used
    BY <1>3 DEF PendingRecord
  <1> HIDE DEF t, rec
  <1>5. /\ t.pendingStates[f] = rec
        /\ rec # None
        /\ \A e \in Flows \ {f} : t.pendingStates[e] = s.pendingStates[e]
    BY <1>0, <1>2, <1>4, NoneAssumption DEF Store
  <1>6. \A c \in Codes : s.authorizationCodes[c] # None =>
          s.authorizationCodes[c].flow \in Flows
    BY <1>0 DEF Store, CodeRecord
  <1>7. t \in GoodStores
    <2>1. CodesSpentStates(s)
      BY DEF GoodStores
    <2>2. CodesSpentStates(t)
      BY <2>1, <1>2, <1>4, <1>5, <1>6 DEF CodesSpentStates
    <2>3. QED
      BY <1>1, <1>2, <2>2 DEF GoodStores, OneCodePerFlow, OneGrantPerFlow, GrantsSpentCodes
  <1>8. ASSUME NEW req \in RequestStates, Grounded(s, req)
        PROVE  Grounded(t, req)
    BY <1>2, <1>4, <1>5, <1>8, RequestKinds DEF Grounded, AwaitingCallback
  <1>9. QED
    BY <1>4, <1>5, <1>7, <1>8 DEF Harmless, t

\* A code is new, and the first of its flow.
LEMMA CodeWrite ==
  ASSUME NEW s \in GoodStores, NEW c \in Codes, NEW rec \in CodeRecord,
         s.authorizationCodes[c] = None,
         s.pendingStates[rec.flow] # None,
         s.pendingStates[rec.flow].used,
         \A d \in Codes : s.authorizationCodes[d] # None =>
           s.authorizationCodes[d].flow # rec.flow
  PROVE  LET t == SaveAuthorizationCode(s, c, rec) IN
         /\ t \in GoodStores
         /\ \A req \in RequestStates :
              Grounded(s, req) /\ (req.at = "callback" => req.flow # rec.flow)
              => Grounded(t, req)
  <1> DEFINE t == SaveAuthorizationCode(s, c, rec)
  <1>0. s \in Store
    BY DEF GoodStores
  <1>1. t \in Store
    BY <1>0, SavesKeepStore
  <1>2. /\ t.pendingStates = s.pendingStates
        /\ t.transactions = s.transactions
        /\ t.authorizationCodes = [s.authorizationCodes EXCEPT ![c] = rec]
        /\ t.grants = s.grants
        /\ t.refreshTokens = s.refreshTokens
    BY <1>0 DEF SaveAuthorizationCode, Store
  <1> HIDE DEF t
  <1>3. /\ t.authorizationCodes[c] = rec
        /\ rec # None
        /\ \A d \in Codes \ {c} : t.authorizationCodes[d] = s.authorizationCodes[d]
    BY <1>0, <1>2, NoneAssumption DEF Store
  <1>4. t \in GoodStores
    <2>1. OneCodePerFlow(t)
      BY <1>3 DEF GoodStores, OneCodePerFlow
    <2>2. OneGrantPerFlow(t)
      BY <1>2 DEF GoodStores, OneGrantPerFlow
    <2>3. CodesSpentStates(t)
      BY <1>2, <1>3 DEF GoodStores, CodesSpentStates
    <2>4. GrantsSpentCodes(t)
      BY <1>2, <1>3 DEF GoodStores, GrantsSpentCodes
    <2>5. QED
      BY <1>1, <2>1, <2>2, <2>3, <2>4 DEF GoodStores
  <1>5. ASSUME NEW req \in RequestStates, Grounded(s, req),
               req.at = "callback" => req.flow # rec.flow
        PROVE  Grounded(t, req)
    BY <1>2, <1>3, <1>5, RequestKinds DEF Grounded, AwaitingIssue
  <1>6. QED
    BY <1>4, <1>5 DEF t

\* A code marked used keeps its flow; when it was unused no grant came of it.
LEMMA CodeUsedWrite ==
  ASSUME NEW s \in GoodStores, NEW c \in Codes, s.authorizationCodes[c] # None
  PROVE  /\ Harmless(s, MarkCodeUsed(s, c))
         /\ ~s.authorizationCodes[c].used =>
              /\ MarkCodeUsed(s, c).authorizationCodes[c] # None
              /\ MarkCodeUsed(s, c).authorizationCodes[c].used
              /\ \A g \in Grants : MarkCodeUsed(s, c).grants[g] # None =>
                   MarkCodeUsed(s, c).grants[g].flow
                     # MarkCodeUsed(s, c).authorizationCodes[c].flow
  <1> DEFINE t == MarkCodeUsed(s, c)
             rec == [s.authorizationCodes[c] EXCEPT !.used = TRUE]
  <1>0. s \in Store
    BY DEF GoodStores
  <1>1. t \in Store
    BY <1>0, UpdatesKeepStore
  <1>2. /\ t.pendingStates = s.pendingStates
        /\ t.transactions = s.transactions
        /\ t.authorizationCodes = [s.authorizationCodes EXCEPT ![c] = rec]
        /\ t.grants = s.grants
        /\ t.refreshTokens = s.refreshTokens
    BY <1>0 DEF MarkCodeUsed, Store
  <1>3. s.authorizationCodes[c] \in CodeRecord
    BY <1>0 DEF Store
  <1>4. rec \in CodeRecord /\ rec.used /\ rec.flow = s.authorizationCodes[c].flow
    BY <1>3 DEF CodeRecord
  <1> HIDE DEF t, rec
  <1>5. /\ t.authorizationCodes[c] = rec
        /\ rec # None
        /\ \A d \in Codes \ {c} : t.authorizationCodes[d] = s.authorizationCodes[d]
    BY <1>0, <1>2, <1>4, NoneAssumption DEF Store
  <1>6. \A d \in Codes :
          /\ t.authorizationCodes[d] # None <=> s.authorizationCodes[d] # None
          /\ t.authorizationCodes[d].flow = s.authorizationCodes[d].flow
          /\ s.authorizationCodes[d].used => t.authorizationCodes[d].used
    BY <1>4, <1>5
  <1>7. t \in GoodStores
    <2>1. OneCodePerFlow(t)
      BY <1>6 DEF GoodStores, OneCodePerFlow
    <2>2. OneGrantPerFlow(t)
      BY <1>2 DEF GoodStores, OneGrantPerFlow
    <2>3. CodesSpentStates(t)
      BY <1>2, <1>6 DEF GoodStores, CodesSpentStates
    <2>4. GrantsSpentCodes(t)
      BY <1>2, <1>6 DEF GoodStores, GrantsSpentCodes
    <2>5. QED
      BY <1>1, <2>1, <2>2, <2>3, <2>4 DEF GoodStores
  <1>8. ASSUME NEW req \in RequestStates, Grounded(s, req)
        PROVE  Grounded(t, req)
    BY <1>2, <1>6, <1>8, RequestKinds DEF Grounded, AwaitingIssue
  <1>9. ASSUME ~s.authorizationCodes[c].used, NEW g \in Grants, s.grants[g] # None
        PROVE  s.grants[g].flow # s.authorizationCodes[c].flow
    BY <1>9 DEF GoodStores, OneCodePerFlow, GrantsSpentCodes
  <1>10. QED
    BY <1>2, <1>4, <1>5, <1>7, <1>8, <1>9 DEF Harmless, t

\* A grant is new, and the first of the flow of its used code.
LEMMA GrantWrite ==
  ASSUME NEW s \in GoodStores, NEW g \in Grants, NEW rec \in GrantRecord, NEW c \in Codes,
         s.grants[g] = None,
         s.authorizationCodes[c] # None,
         s.authorizationCodes[c].used,
         rec.flow = s.authorizationCodes[c].flow,
         \A h \in Grants : s.grants[h] # None => s.grants[h].flow # rec.flow
  PROVE  LET t == SaveGrant(s, g, rec) IN
         /\ t \in GoodStores
         /\ \A req \in RequestStates :
              Grounded(s, req) /\ (req.at = "issue" => req.code # c)
              => Grounded(t, req)
  <1> DEFINE t == SaveGrant(s, g, rec)
  <1>0. s \in Store
    BY DEF GoodStores
  <1>1. t \in Store
    BY <1>0, SavesKeepStore
  <1>2. /\ t.pendingStates = s.pendingStates
        /\ t.transactions = s.transactions
        /\ t.authorizationCodes = s.authorizationCodes
        /\ t.grants = [s.grants EXCEPT ![g] = rec]
        /\ t.refreshTokens = s.refreshTokens
    BY <1>0 DEF SaveGrant, Store
  <1> HIDE DEF t
  <1>3. /\ t.grants[g] = rec
        /\ rec # None
        /\ \A h \in Grants \ {g} : t.grants[h] = s.grants[h]
    BY <1>0, <1>2, NoneAssumption DEF Store
  <1>4. t \in GoodStores
    <2>1. OneCodePerFlow(t)
      BY <1>2 DEF GoodStores, OneCodePerFlow
    <2>2. OneGrantPerFlow(t)
      BY <1>3 DEF GoodStores, OneGrantPerFlow
    <2>3. CodesSpentStates(t)
      BY <1>2 DEF GoodStores, CodesSpentStates
    <2>4. GrantsSpentCodes(t)
      BY <1>2, <1>3 DEF GoodStores, GrantsSpentCodes
    <2>5. QED
      BY <1>1, <2>1, <2>2, <2>3, <2>4 DEF GoodStores
  <1>5. ASSUME NEW req \in RequestStates, Grounded(s, req),
               req.at = "issue" => req.code # c
        PROVE  Grounded(t, req)
    <2>1. req.at = "issue" =>
            s.authorizationCodes[req.code].flow # s.authorizationCodes[c].flow
      BY <1>5, RequestKinds DEF Grounded, GoodStores, OneCodePerFlow, AwaitingIssue
    <2>2. QED
      BY <2>1, <1>2, <1>3, <1>5, RequestKinds
      DEF Grounded, AwaitingProvider, AwaitingRotation
  <1>6. QED
    BY <1>4, <1>5 DEF t

\* An updated grant keeps its flow.
LEMMA GrantUpdate ==
  ASSUME NEW s \in GoodStores, NEW g \in Grants, NEW scopes \in SUBSET Scopes,
         NEW up \in UpstreamTokens, NEW end \in Nat, s.grants[g] # None
  PROVE  Harmless(s, UpdateGrant(s, g, scopes, up, end))
  <1> DEFINE t == UpdateGrant(s, g, scopes, up, end)
             rec == [s.grants[g] EXCEPT
                       !.scopes = scopes, !.upstream = up,
                       !.upstreamAccessExpiresAt = IF end = Never THEN @ ELSE end]
  <1>0. s \in Store
    BY DEF GoodStores
  <1>1. t \in Store
    BY <1>0, UpdatesKeepStore
  <1>2. /\ t.pendingStates = s.pendingStates
        /\ t.transactions = s.transactions
        /\ t.authorizationCodes = s.authorizationCodes
        /\ t.grants = [s.grants EXCEPT ![g] = rec]
        /\ t.refreshTokens = s.refreshTokens
    BY <1>0 DEF UpdateGrant, Store
  <1>3. s.grants[g] \in GrantRecord
    BY <1>0 DEF Store
  <1>4. rec \in GrantRecord /\ rec.flow = s.grants[g].flow
    BY <1>3 DEF GrantRecord
  <1> HIDE DEF t, rec
  <1>5. \A h \in Grants :
          /\ t.grants[h] # None <=> s.grants[h] # None
          /\ t.grants[h].flow = s.grants[h].flow
    BY <1>0, <1>2, <1>4, NoneAssumption DEF Store
  <1>6. t \in GoodStores
    <2>1. OneCodePerFlow(t)
      BY <1>2 DEF GoodStores, OneCodePerFlow
    <2>2. OneGrantPerFlow(t)
      BY <1>5 DEF GoodStores, OneGrantPerFlow
    <2>3. CodesSpentStates(t)
      BY <1>2 DEF GoodStores, CodesSpentStates
    <2>4. GrantsSpentCodes(t)
      BY <1>2, <1>5 DEF GoodStores, GrantsSpentCodes
    <2>5. QED
      BY <1>1, <2>1, <2>2, <2>3, <2>4 DEF GoodStores
  <1>7. ASSUME NEW req \in RequestStates, Grounded(s, req)
        PROVE  Grounded(t, req)
    BY <1>2, <1>5, <1>7, RequestKinds DEF Grounded, AwaitingProvider, AwaitingRotation
  <1>8. QED
    BY <1>6, <1>7 DEF Harmless, t

-----------------------------------------------------------------------------
\* The ways a turn can end.

\* An idle request relies on nothing.
LEMMA IdleIsGrounded ==
  /\ Idle \in RequestStates
  /\ \A s : Grounded(s, Idle)
  /\ \A q : Apart(Idle, q) /\ Apart(q, Idle)
  BY DEF Idle, RequestStates, Grounded, Apart

\* Which of two requests is named first does not matter.
LEMMA ApartIsSymmetric ==
  \A p, q : Apart(p, q) => Apart(q, p)
  BY DEF Apart

\* A turn keeps the invariant when each of its writes leads to a good store in
\* which the other requests stay grounded, and the last one grounds what the
\* request waits for next.
LEMMA TurnKeepsInv ==
  ASSUME Inv, NEW r \in Requests, NEW writes \in Seq(GoodStores), Len(writes) > 0,
         NEW next \in RequestStates, NEW answered \in SUBSET Tokens,
         \A k \in 1 .. Len(writes), q \in Requests \ {r} :
           Grounded(writes[k], requests[q]),
         Grounded(writes[Len(writes)], next),
         \A q \in Requests \ {r} : Apart(next, requests[q]),
         Turn(r, writes, next, answered),
         now' \in Nat, provider' \in [Flows -> Nat]
  PROVE  Inv'
  <1>0. /\ \A k \in 1 .. Len(writes) : writes[k] \in GoodStores
        /\ Len(writes) \in 1 .. Len(writes)
        /\ \A s \in GoodStores : s \in Store
    BY DEF GoodStores
  <1>1. requests \in [Requests -> RequestStates] /\ delivered \subseteq Tokens
        /\ faults \in Nat /\ disk \in GoodStores
    BY DEF Inv, TypeOK
  <1>2. CASE Completes(r, writes, next) /\ delivered' = delivered \cup answered
    <2>1. TypeOK'
      BY <1>0, <1>1, <1>2 DEF TypeOK, Completes
    <2>2. mem' \in GoodStores /\ disk' \in GoodStores
      BY <1>0, <1>2 DEF Completes
    <2>3. \A q \in Requests : Grounded(mem', requests'[q])
      BY <1>0, <1>1, <1>2 DEF Completes
    <2>4. \A p, q \in Requests : p # q => Apart(requests'[p], requests'[q])
      BY <1>1, <1>2, ApartIsSymmetric DEF Completes, Inv
    <2>5. QED
      BY <2>1, <2>2, <2>3, <2>4 DEF Inv
  <1>3. CASE PersistThrows(r, writes) /\ UNCHANGED delivered
    <2>0. PICK k \in 1 .. Len(writes) :
            /\ mem' = writes[k]
            /\ disk' = IF k = 1 THEN disk ELSE writes[k - 1]
      BY <1>3 DEF PersistThrows
    <2>2. mem' \in GoodStores /\ disk' \in GoodStores
      BY <1>0, <1>1, <2>0
    <2>1. TypeOK'
      BY <1>0, <1>1, <1>3, <2>2, IdleIsGrounded DEF TypeOK, PersistThrows
    <2>3. \A q \in Requests : Grounded(mem', requests'[q])
      BY <1>1, <1>3, <2>0, IdleIsGrounded DEF PersistThrows
    <2>4. \A p, q \in Requests : p # q => Apart(requests'[p], requests'[q])
      BY <1>1, <1>3, IdleIsGrounded DEF PersistThrows, Inv
    <2>5. QED
      BY <2>1, <2>2, <2>3, <2>4 DEF Inv
  <1>4. CASE DiesAfterWrite(writes) /\ UNCHANGED delivered
    <2>0. PICK k \in 1 .. Len(writes) : mem' = writes[k] /\ disk' = writes[k]
      BY <1>4 DEF DiesAfterWrite
    <2>2. mem' \in GoodStores /\ disk' \in GoodStores
      BY <1>0, <2>0
    <2>1. TypeOK'
      BY <1>0, <1>1, <1>4, <2>2, IdleIsGrounded DEF TypeOK, DiesAfterWrite
    <2>3. \A q \in Requests : Grounded(mem', requests'[q])
      BY <1>4, IdleIsGrounded DEF DiesAfterWrite
    <2>4. \A p, q \in Requests : p # q => Apart(requests'[p], requests'[q])
      BY <1>4, IdleIsGrounded DEF DiesAfterWrite
    <2>5. QED
      BY <2>1, <2>2, <2>3, <2>4 DEF Inv
  <1>5. QED
    BY <1>2, <1>3, <1>4 DEF Turn

-----------------------------------------------------------------------------
\* Every action keeps the invariant.

\* Reading the invariant: the stores are typed and good, waiting requests typed.
LEMMA InvFacts ==
  ASSUME Inv
  PROVE  /\ mem \in GoodStores /\ mem \in Store /\ disk \in GoodStores
         /\ requests \in [Requests -> RequestStates]
         /\ \A r \in Requests : Grounded(mem, requests[r])
         /\ now \in Nat /\ provider \in [Flows -> Nat]
  BY DEF Inv, TypeOK

\* Lifetimes and instants are natural numbers.
LEMMA ClockFacts ==
  /\ Second \in Nat /\ Second > 0
  /\ StateTtl \in Nat /\ AuthCodeTtl \in Nat
  /\ AccessTokenTtl \in Nat /\ RefreshTokenTtl \in Nat
  /\ UpstreamTtls \subseteq Nat
  BY ClockAssumption

\* The invariant does not read the registered clients.
LEMMA RegisterClientKeepsInv ==
  ASSUME Inv, NEW r \in Requests, NEW c \in Clients, RegisterClient(r, c)
  PROVE  Inv'
  <1> DEFINE s1 == SaveRegisteredClient(mem, c)
             ws == <<s1>>
  <1>1. Harmless(mem, s1)
    BY InvFacts, TokenWrites
  <1>2. Turn(r, ws, Idle, {}) /\ UNCHANGED <<now, provider>>
    BY DEF RegisterClient
  <1> HIDE DEF s1
  <1>3. ws \in Seq(GoodStores) /\ Len(ws) = 1 /\ ws[1] = s1
    BY <1>1 DEF Harmless
  <1> HIDE DEF ws
  <1>4. \A k \in 1 .. Len(ws), q \in Requests \ {r} : Grounded(ws[k], requests[q])
    BY <1>1, <1>3, InvFacts DEF Harmless
  <1>5. Grounded(ws[Len(ws)], Idle) /\ \A q \in Requests \ {r} : Apart(Idle, requests[q])
    BY IdleIsGrounded
  <1>6. now' \in Nat /\ provider' \in [Flows -> Nat]
    BY <1>2, InvFacts
  <1>7. Len(ws) > 0 /\ Idle \in RequestStates /\ {} \in SUBSET Tokens
    BY <1>3, IdleIsGrounded
  <1>8. QED
    BY <1>2, <1>3, <1>4, <1>5, <1>6, <1>7, TurnKeepsInv, Zenon

\* The state and the transaction are new, so no code has their flow.
LEMMA StartAuthorizationKeepsInv ==
  ASSUME Inv, NEW r \in Requests, NEW f \in Flows, NEW c \in Clients,
         NEW requested \in SUBSET Scopes, StartAuthorization(r, f, c, requested)
  PROVE  Inv'
  <1> DEFINE rec == [client |-> c, scopes |-> ResolveScopes(requested, ScopesOf[c])]
             s1  == SavePendingState(mem, f, PendingState)
             s2  == SaveTransaction(s1, f, rec)
             ws  == <<s1, s2>>
  <1>1. PendingState \in PendingRecord
    BY InvFacts, ClockFacts, ProductInNat DEF PendingState, PendingRecord
  <1>2. rec \in TransactionRecord
    BY ScopesAssumption DEF ResolveScopes, TransactionRecord
  <1>3. Turn(r, ws, Idle, {}) /\ UNCHANGED <<now, provider>>
    BY DEF StartAuthorization
  <1>4. Harmless(mem, s1)
    BY <1>1, InvFacts, PendingStateWrite DEF StartAuthorization
  <1> HIDE DEF rec
  <1>5. Harmless(s1, s2)
    BY <1>2, <1>4, TransactionWrite DEF Harmless
  <1> HIDE DEF s1, s2
  <1>6. ws \in Seq(GoodStores) /\ Len(ws) = 2 /\ ws[1] = s1 /\ ws[2] = s2
    BY <1>4, <1>5 DEF Harmless
  <1> HIDE DEF ws
  <1>7. \A k \in 1 .. Len(ws), q \in Requests \ {r} : Grounded(ws[k], requests[q])
    <2>1. \A q \in Requests : Grounded(s1, requests[q]) /\ Grounded(s2, requests[q])
      BY <1>4, <1>5, InvFacts DEF Harmless
    <2>2. QED
      BY <1>6, <2>1
  <1>8. Grounded(ws[Len(ws)], Idle) /\ \A q \in Requests \ {r} : Apart(Idle, requests[q])
    BY IdleIsGrounded
  <1>9. now' \in Nat /\ provider' \in [Flows -> Nat]
    BY <1>3, InvFacts
  <1>10. Len(ws) > 0 /\ Idle \in RequestStates /\ {} \in SUBSET Tokens
    BY <1>6, IdleIsGrounded
  <1>11. QED
    BY <1>3, <1>6, <1>7, <1>8, <1>9, <1>10, TurnKeepsInv, Zenon

\* The state was unused, so no code has its flow and no other request waits for
\* one (the CodesSpentStates and Grounded parts of the invariant).
LEMMA HandleCallbackKeepsInv ==
  ASSUME Inv, NEW r \in Requests, NEW f \in Flows, NEW hasCode \in BOOLEAN,
         HandleCallback(r, f, hasCode)
  PROVE  Inv'
  <1> DEFINE s1   == MarkStateUsed(mem, f)
             next == IF hasCode /\ mem.transactions[f] # None
                     THEN [at |-> "callback", flow |-> f] ELSE Idle
             ws   == <<s1>>
  <1>0. mem.pendingStates[f] # None /\ ~mem.pendingStates[f].used
    BY DEF HandleCallback, StateAccepted
  <1>1. /\ Harmless(mem, s1)
        /\ s1.pendingStates[f] # None
        /\ s1.pendingStates[f].used
    BY <1>0, InvFacts, StateUsedWrite
  <1>2. s1.transactions = mem.transactions /\ s1.authorizationCodes = mem.authorizationCodes
    BY InvFacts DEF MarkStateUsed, Store
  <1>3. \A c \in Codes : mem.authorizationCodes[c] # None =>
          mem.authorizationCodes[c].flow # f
    BY <1>0, InvFacts DEF GoodStores, CodesSpentStates
  <1>4. Turn(r, ws, next, {}) /\ UNCHANGED <<now, provider>>
    BY DEF HandleCallback
  <1>5. next \in RequestStates
    BY DEF RequestStates, AwaitingCallback
  <1> HIDE DEF s1
  <1>6. Grounded(s1, next)
    BY <1>1, <1>2, <1>3, IdleIsGrounded DEF Grounded
  <1>7. \A q \in Requests : Apart(next, requests[q])
    BY <1>0, InvFacts, IdleIsGrounded DEF Apart, Grounded
  <1> HIDE DEF next
  <1>8. ws \in Seq(GoodStores) /\ Len(ws) = 1 /\ ws[1] = s1
    BY <1>1 DEF Harmless
  <1> HIDE DEF ws
  <1>9. \A k \in 1 .. Len(ws), q \in Requests \ {r} : Grounded(ws[k], requests[q])
    BY <1>1, <1>8, InvFacts DEF Harmless
  <1>10. Grounded(ws[Len(ws)], next)
    BY <1>6, <1>8
  <1>11. now' \in Nat /\ provider' \in [Flows -> Nat]
    BY <1>4, InvFacts
  <1>12. /\ Len(ws) > 0 /\ {} \in SUBSET Tokens
         /\ \A q \in Requests \ {r} : Apart(next, requests[q])
    BY <1>7, <1>8
  <1>13. QED
    BY <1>4, <1>5, <1>8, <1>9, <1>10, <1>11, <1>12, TurnKeepsInv, Zenon

\* Where the upstream access token ends, if it does, lies ahead.
LEMMA UpstreamEnd ==
  ASSUME Inv, NEW up \in UpstreamTokens
  PROVE  LET end == UpstreamAccessTokenExpiresAt(up) IN
         end \in Nat /\ (end = Never \/ end >= now)
  <1>1. UpstreamAccessTokenTtl(up) \in Nat
    BY DEF UpstreamTokens, UpstreamAccessTokenTtl, Never
  <1>2. UpstreamAccessTokenTtl(up) * Second \in Nat
    BY <1>1, ClockFacts, ProductInNat
  <1>3. QED
    BY <1>2, InvFacts DEF UpstreamAccessTokenExpiresAt, Never

\* A local lifetime is a natural number of seconds.
LEMMA CappedTtlInNat ==
  ASSUME Inv, NEW default \in Nat, NEW up \in UpstreamTokens, NEW end \in Nat,
         end = Never \/ end >= now
  PROVE  CappedTtl(default, up, end) \in Nat
  <1>1. UpstreamAccessTokenTtl(up) \in Nat
    BY DEF UpstreamTokens, UpstreamAccessTokenTtl, Never
  <1>2. end # Never => (end - now) \div Second \in Nat
    <2>1. end # Never => end - now \in Nat
      BY InvFacts
    <2>2. QED
      BY <2>1, ClockFacts, QuotientInNat
  <1>3. QED
    BY <1>1, <1>2 DEF CappedTtl, MinOf

\* The request alone waits for a code of its flow, which has none yet.
LEMMA IssueAuthorizationCodeKeepsInv ==
  ASSUME Inv, NEW r \in Requests, NEW c \in Codes, NEW up \in FirstUpstreamTokens,
         IssueAuthorizationCode(r, c, up)
  PROVE  Inv'
  <1> DEFINE f   == requests[r].flow
             rec == AuthorizationCode(f, up)
             s1  == SaveAuthorizationCode(mem, c, rec)
             ws  == <<s1>>
  <1>0. /\ requests[r].at = "callback"
        /\ mem.authorizationCodes[c] = None
        /\ Turn(r, ws, Idle, {})
        /\ provider' = [provider EXCEPT ![f] = up.refreshToken]
        /\ UNCHANGED now
    BY DEF IssueAuthorizationCode
  <1>1. up \in UpstreamTokens
    BY ClockFacts DEF FirstUpstreamTokens, UpstreamTokens, Never
  <1>2. f \in Flows
    BY <1>0, InvFacts, RequestKinds DEF AwaitingCallback
  <1>3. /\ mem.transactions[f] # None
        /\ mem.pendingStates[f] # None
        /\ mem.pendingStates[f].used
        /\ \A d \in Codes : mem.authorizationCodes[d] # None =>
             mem.authorizationCodes[d].flow # f
    BY <1>0, InvFacts DEF Grounded
  <1>4. rec \in CodeRecord /\ rec.flow = f
    <2>1. mem.transactions[f] \in TransactionRecord
      BY <1>2, <1>3, InvFacts DEF Store
    <2>2. now + AuthCodeTtl * Second \in Nat
      BY InvFacts, ClockFacts, ProductInNat
    <2>3. UpstreamAccessTokenExpiresAt(up) \in Nat
      BY <1>1, UpstreamEnd
    <2>4. QED
      BY <1>1, <1>2, <2>1, <2>2, <2>3
      DEF AuthorizationCode, CodeRecord, TransactionRecord
  <1> HIDE DEF rec
  <1>5. /\ s1 \in GoodStores
        /\ \A q \in Requests \ {r} : Grounded(s1, requests[q])
    <2>1. \A q \in Requests \ {r} : requests[q].at = "callback" => requests[q].flow # f
      BY <1>0 DEF Inv, Apart
    <2>2. QED
      BY <1>0, <1>3, <1>4, <2>1, InvFacts, CodeWrite
  <1> HIDE DEF s1
  <1>6. ws \in Seq(GoodStores) /\ Len(ws) = 1 /\ ws[1] = s1
    BY <1>5
  <1> HIDE DEF ws
  <1>7. \A k \in 1 .. Len(ws), q \in Requests \ {r} : Grounded(ws[k], requests[q])
    BY <1>5, <1>6
  <1>8. Grounded(ws[Len(ws)], Idle) /\ \A q \in Requests \ {r} : Apart(Idle, requests[q])
    BY IdleIsGrounded
  <1>9. now' \in Nat /\ provider' \in [Flows -> Nat]
    BY <1>0, <1>1, InvFacts DEF UpstreamTokens
  <1>10. Len(ws) > 0 /\ Idle \in RequestStates /\ {} \in SUBSET Tokens
    BY <1>6, IdleIsGrounded
  <1>11. QED
    BY <1>0, <1>6, <1>7, <1>8, <1>9, <1>10, TurnKeepsInv, Zenon

\* The code was unused, so no grant has its flow and no other request waits to
\* issue one.
LEMMA RedeemCodeKeepsInv ==
  ASSUME Inv, NEW r \in Requests, NEW c \in Codes, NEW client \in Clients,
         RedeemCode(r, c, client)
  PROVE  Inv'
  <1> DEFINE up   == mem.authorizationCodes[c].upstream
             end  == UpstreamAccessTokenExpiresAt(up)
             next == [at |-> "issue", code |-> c, upstreamAccessExpiresAt |-> end,
                      accessTtl  |-> CappedTtl(AccessTokenTtl, up, end),
                      refreshTtl |-> CappedTtl(RefreshTokenTtl, up, end)]
             s1   == MarkCodeUsed(mem, c)
             ws   == <<s1>>
  <1>0. mem.authorizationCodes[c] # None /\ ~mem.authorizationCodes[c].used
    BY DEF RedeemCode, CodeAccepted
  <1>1. Turn(r, ws, next, {}) /\ UNCHANGED <<now, provider>>
    BY DEF RedeemCode
  <1>2. up \in UpstreamTokens
    BY <1>0, InvFacts DEF Store, CodeRecord
  <1>3. next \in RequestStates
    <2>1. end \in Nat /\ (end = Never \/ end >= now)
      BY <1>2, UpstreamEnd
    <2> HIDE DEF up, end
    <2>2. /\ CappedTtl(AccessTokenTtl, up, end) \in Nat
          /\ CappedTtl(RefreshTokenTtl, up, end) \in Nat
      BY <1>2, <2>1, ClockFacts, CappedTtlInNat
    <2>3. QED
      BY <2>1, <2>2 DEF RequestStates, AwaitingIssue
  <1>4. next.at = "issue" /\ next.code = c
    OBVIOUS
  <1> HIDE DEF next
  <1>5. /\ Harmless(mem, s1)
        /\ s1.authorizationCodes[c] # None
        /\ s1.authorizationCodes[c].used
        /\ \A g \in Grants : s1.grants[g] # None =>
             s1.grants[g].flow # s1.authorizationCodes[c].flow
    BY <1>0, InvFacts, CodeUsedWrite
  <1> HIDE DEF s1
  <1>6. Grounded(s1, next)
    BY <1>4, <1>5 DEF Grounded
  <1>7. \A q \in Requests \ {r} : Apart(next, requests[q])
    BY <1>0, <1>4, InvFacts DEF Apart, Grounded
  <1>8. ws \in Seq(GoodStores) /\ Len(ws) = 1 /\ ws[1] = s1
    BY <1>5 DEF Harmless
  <1> HIDE DEF ws
  <1>9. \A k \in 1 .. Len(ws), q \in Requests \ {r} : Grounded(ws[k], requests[q])
    BY <1>5, <1>8, InvFacts DEF Harmless
  <1>10. Grounded(ws[Len(ws)], next)
    BY <1>6, <1>8
  <1>11. now' \in Nat /\ provider' \in [Flows -> Nat]
    BY <1>1, InvFacts
  <1>12. Len(ws) > 0 /\ {} \in SUBSET Tokens
    BY <1>8
  <1>13. QED
    BY <1>1, <1>3, <1>7, <1>8, <1>9, <1>10, <1>11, <1>12, TurnKeepsInv, Zenon

\* The code was spent for this request alone, so no grant has its flow yet, and
\* the grant, the access token and the refresh token are three harmless writes.
LEMMA IssueTokensKeepsInv ==
  ASSUME Inv, NEW r \in Requests, NEW g \in Grants, NEW k \in Tokens,
         IssueTokens(r, g, k)
  PROVE  Inv'
  <1> DEFINE req  == requests[r]
             code == mem.authorizationCodes[req.code]
             rec1 == [client |-> code.client, scopes |-> code.scopes,
                      flow |-> code.flow, upstream |-> code.upstream,
                      upstreamAccessExpiresAt |-> req.upstreamAccessExpiresAt,
                      upstreamEnd |-> code.upstreamEnd]
             rec2 == [grant |-> g, client |-> code.client, scopes |-> code.scopes,
                      expiresAt |-> now + req.accessTtl * Second]
             rec3 == [grant |-> g, active |-> TRUE,
                      expiresAt |-> now + req.refreshTtl * Second, parent |-> None]
             s1   == SaveGrant(mem, g, rec1)
             s2   == SaveAccessToken(s1, k, rec2)
             s3   == SaveRefreshToken(s2, k, rec3)
             ws   == <<s1, s2, s3>>
  <1>0. /\ req.at = "issue"
        /\ mem.grants[g] = None
        /\ Turn(r, ws, Idle, {k})
        /\ UNCHANGED <<now, provider>>
    BY DEF IssueTokens
  <1>1. req \in AwaitingIssue
    BY <1>0, InvFacts, RequestKinds
  <1>2. /\ req.code \in Codes
        /\ code # None
        /\ code.used
        /\ \A h \in Grants : mem.grants[h] # None => mem.grants[h].flow # code.flow
    BY <1>0, <1>1, InvFacts DEF Grounded, AwaitingIssue
  <1>3. rec1 \in GrantRecord /\ rec2 \in AccessRecord /\ rec3 \in RefreshRecord
    <2>1. code \in CodeRecord
      BY <1>2, InvFacts DEF Store
    <2>2. rec1 \in GrantRecord
      BY <1>1, <2>1 DEF CodeRecord, GrantRecord, AwaitingIssue
    <2>3. now + req.accessTtl * Second \in Nat /\ now + req.refreshTtl * Second \in Nat
      BY <1>1, InvFacts, ClockFacts, ProductInNat DEF AwaitingIssue
    <2>4. rec2 \in AccessRecord
      BY <2>1, <2>3 DEF CodeRecord, AccessRecord
    <2>5. rec3 \in RefreshRecord
      BY <2>3 DEF RefreshRecord
    <2>6. QED
      BY <2>2, <2>4, <2>5
  <1>4. rec1.flow = code.flow
    OBVIOUS
  <1> HIDE DEF rec1, rec2, rec3
  <1>5. /\ s1 \in GoodStores
        /\ \A q \in Requests \ {r} : Grounded(s1, requests[q])
    <2>1. \A q \in Requests \ {r} : requests[q].at = "issue" => requests[q].code # req.code
      BY <1>0 DEF Inv, Apart
    <2>2. QED
      BY <1>0, <1>2, <1>3, <1>4, <2>1, InvFacts, GrantWrite
  <1> HIDE DEF s1
  <1>6. Harmless(s1, s2)
    BY <1>3, <1>5, TokenWrites
  <1> HIDE DEF s2
  <1>7. Harmless(s2, s3)
    BY <1>3, <1>6, TokenWrites DEF Harmless
  <1> HIDE DEF s3
  <1>8. ws \in Seq(GoodStores) /\ Len(ws) = 3 /\ ws[1] = s1 /\ ws[2] = s2 /\ ws[3] = s3
    BY <1>5, <1>6, <1>7 DEF Harmless
  <1> HIDE DEF ws
  <1>9. \A i \in 1 .. Len(ws), q \in Requests \ {r} : Grounded(ws[i], requests[q])
    <2>1. \A q \in Requests \ {r} :
            Grounded(s1, requests[q]) /\ Grounded(s2, requests[q]) /\ Grounded(s3, requests[q])
      BY <1>5, <1>6, <1>7, InvFacts DEF Harmless
    <2>2. QED
      BY <1>8, <2>1
  <1>10. Grounded(ws[Len(ws)], Idle) /\ \A q \in Requests \ {r} : Apart(Idle, requests[q])
    BY IdleIsGrounded
  <1>11. now' \in Nat /\ provider' \in [Flows -> Nat]
    BY <1>0, InvFacts
  <1>12. Len(ws) > 0 /\ Idle \in RequestStates /\ {k} \in SUBSET Tokens
    BY <1>8, IdleIsGrounded
  <1>13. QED
    BY <1>0, <1>8, <1>9, <1>10, <1>11, <1>12, TurnKeepsInv, Zenon

\* The grant and the refresh tokens are written whatever became of them since
\* the request looked; no write of the rotation disturbs the invariant.
LEMMA RotateTokensKeepsInv ==
  ASSUME Inv, NEW r \in Requests, NEW k \in Tokens, RotateTokens(r, k)
  PROVE  Inv'
  <1> DEFINE req  == requests[r]
             rec2 == [grant |-> req.grant, client |-> mem.grants[req.grant].client,
                      scopes |-> req.scopes,
                      expiresAt |-> now + req.accessTtl * Second]
             rec5 == [grant |-> req.grant, active |-> TRUE,
                      expiresAt |-> now + req.refreshTtl * Second,
                      parent |-> req.token]
             s1   == UpdateGrant(mem, req.grant, req.scopes, req.upstream,
                                 req.upstreamAccessExpiresAt)
             s2   == SaveAccessToken(s1, k, rec2)
             s3   == RetireOtherRefreshTokens(s2, req.grant, req.token)
             s4   == ReactivateRefreshToken(s3, req.token)
             s5   == SaveRefreshToken(s4, k, rec5)
             ws   == IF s3 = s2 THEN <<s1, s2, s4, s5>> ELSE <<s1, s2, s3, s4, s5>>
  <1>0. /\ req.at = "rotation"
        /\ Turn(r, ws, Idle, {k})
        /\ UNCHANGED <<now, provider>>
    BY DEF RotateTokens
  <1>1. /\ req \in AwaitingRotation
        /\ req.grant \in Grants
        /\ req.token \in Tokens
    BY <1>0, InvFacts, RequestKinds DEF AwaitingRotation
  <1>2. mem.grants[req.grant] # None
    BY <1>0, InvFacts DEF Grounded
  <1>3. rec2 \in AccessRecord /\ rec5 \in RefreshRecord
    <2>1. mem.grants[req.grant] \in GrantRecord
      BY <1>1, <1>2, InvFacts DEF Store
    <2>2. now + req.accessTtl * Second \in Nat /\ now + req.refreshTtl * Second \in Nat
      BY <1>1, InvFacts, ClockFacts, ProductInNat DEF AwaitingRotation
    <2>3. rec2 \in AccessRecord
      BY <1>1, <2>1, <2>2 DEF GrantRecord, AccessRecord, AwaitingRotation
    <2>4. rec5 \in RefreshRecord
      BY <1>1, <2>2 DEF RefreshRecord
    <2>5. QED
      BY <2>3, <2>4
  <1> HIDE DEF rec2, rec5
  <1>4. Harmless(mem, s1)
    <2>1. /\ req.scopes \in SUBSET Scopes
          /\ req.upstream \in UpstreamTokens
          /\ req.upstreamAccessExpiresAt \in Nat
      BY <1>1 DEF AwaitingRotation
    <2>2. QED
      BY <1>1, <1>2, <2>1, InvFacts, GrantUpdate
  <1> HIDE DEF s1
  <1>5. Harmless(s1, s2)
    BY <1>3, <1>4, TokenWrites DEF Harmless
  <1> HIDE DEF s2
  <1>6. Harmless(s2, s3)
    BY <1>1, <1>5, TokenWrites DEF Harmless
  <1> HIDE DEF s3
  <1>7. Harmless(s3, s4)
    <2>1. Grounded(s3, req)
      BY <1>4, <1>5, <1>6, InvFacts DEF Harmless
    <2>2. s3.refreshTokens[req.token] # None
      BY <1>0, <2>1 DEF Grounded
    <2>3. QED
      BY <1>1, <1>6, <2>2, TokenWrites DEF Harmless
  <1> HIDE DEF s4
  <1>8. Harmless(s4, s5)
    BY <1>3, <1>7, TokenWrites DEF Harmless
  <1> HIDE DEF s5
  <1>9. {s1, s2, s3, s4, s5} \subseteq GoodStores
    BY <1>4, <1>5, <1>6, <1>7, <1>8 DEF Harmless
  <1>10. /\ ws \in Seq(GoodStores)
         /\ Len(ws) > 0
         /\ \A i \in 1 .. Len(ws) : ws[i] \in {s1, s2, s3, s4, s5}
    <2>1. CASE s3 = s2
      <3>1. ws = <<s1, s2, s4, s5>>
        BY <2>1
      <3> HIDE DEF ws
      <3>2. QED
        BY <3>1, <1>9
    <2>2. CASE s3 # s2
      <3>1. ws = <<s1, s2, s3, s4, s5>>
        BY <2>2
      <3> HIDE DEF ws
      <3>2. QED
        BY <3>1, <1>9
    <2>3. QED
      BY <2>1, <2>2
  <1> HIDE DEF ws
  <1>11. \A i \in 1 .. Len(ws), q \in Requests \ {r} : Grounded(ws[i], requests[q])
    <2>1. \A q \in Requests :
            /\ Grounded(s1, requests[q])
            /\ Grounded(s2, requests[q])
            /\ Grounded(s3, requests[q])
            /\ Grounded(s4, requests[q])
            /\ Grounded(s5, requests[q])
      BY <1>4, <1>5, <1>6, <1>7, <1>8, InvFacts DEF Harmless
    <2>2. QED
      BY <1>10, <2>1
  <1>12. Grounded(ws[Len(ws)], Idle) /\ \A q \in Requests \ {r} : Apart(Idle, requests[q])
    BY IdleIsGrounded
  <1>13. now' \in Nat /\ provider' \in [Flows -> Nat]
    BY <1>0, InvFacts
  <1>14. Idle \in RequestStates /\ {k} \in SUBSET Tokens
    BY IdleIsGrounded
  <1>15. QED
    BY <1>0, <1>10, <1>11, <1>12, <1>13, <1>14, TurnKeepsInv, Zenon

\* A request moves on without a write.
LEMMA WaitKeepsInv ==
  ASSUME Inv, NEW r \in Requests, NEW next \in RequestStates,
         Grounded(mem, next), \A q \in Requests \ {r} : Apart(next, requests[q]),
         requests' = [requests EXCEPT ![r] = next],
         UNCHANGED <<now, mem, disk, delivered>>,
         provider' \in [Flows -> Nat], faults' \in Nat
  PROVE  Inv'
  <1>1. TypeOK'
    BY InvFacts DEF Inv, TypeOK
  <1>2. mem' \in GoodStores /\ disk' \in GoodStores
    BY InvFacts
  <1>3. \A q \in Requests : Grounded(mem', requests'[q])
    BY InvFacts
  <1>4. \A p, q \in Requests : p # q => Apart(requests'[p], requests'[q])
    BY InvFacts, ApartIsSymmetric DEF Inv
  <1>5. QED
    BY <1>1, <1>2, <1>3, <1>4 DEF Inv

\* What a refresh waits for after its last await, when its parts are typed.
LEMMA RotationIsTyped ==
  ASSUME Inv, NEW k \in Tokens, NEW g \in Grants, NEW scopes \in SUBSET Scopes,
         NEW up \in UpstreamTokens, NEW end \in Nat, end = Never \/ end >= now,
         mem.grants[g] # None, mem.refreshTokens[k] # None
  PROVE  /\ Rotation(k, g, scopes, up, end) \in RequestStates
         /\ Grounded(mem, Rotation(k, g, scopes, up, end))
         /\ \A q : Apart(Rotation(k, g, scopes, up, end), q)
  <1>1. /\ CappedTtl(AccessTokenTtl, up, end) \in Nat
        /\ CappedTtl(RefreshTokenTtl, up, end) \in Nat
    BY ClockFacts, CappedTtlInNat
  <1>2. Rotation(k, g, scopes, up, end) \in AwaitingRotation
    BY <1>1 DEF Rotation, AwaitingRotation
  <1>3. QED
    BY <1>2 DEF RequestStates, Rotation, Grounded, Apart

\* A refresh is accepted for a token and a grant that are there.
LEMMA StartRefreshKeepsInv ==
  ASSUME Inv, NEW r \in Requests, NEW k \in Tokens, NEW c \in Clients,
         NEW requested \in SUBSET Scopes, StartRefresh(r, k, c, requested)
  PROVE  Inv'
  <1> DEFINE id     == mem.refreshTokens[k].grant
             grant  == mem.grants[id]
             scopes == ResolveScopes(requested, grant.scopes)
             asks   == [at |-> "provider", token |-> k, grant |-> id,
                        scopes |-> scopes, sent |-> grant.upstream.refreshToken]
             turns  == Rotation(k, id, scopes, grant.upstream,
                                grant.upstreamAccessExpiresAt)
             next   == IF grant.upstream.refreshToken # Never THEN asks ELSE turns
  <1>1. /\ mem.refreshTokens[k] # None
        /\ grant # None
        /\ requests' = [requests EXCEPT ![r] = next]
        /\ UNCHANGED <<now, mem, disk, provider, delivered, faults>>
    BY DEF StartRefresh, RefreshAccepted
  <1>2. /\ grant.upstream.refreshToken = Never =>
             \/ grant.upstreamAccessExpiresAt = Never
             \/ grant.upstreamAccessExpiresAt > now
    BY DEF StartRefresh, RefreshAccepted
  <1>3. id \in Grants /\ grant \in GrantRecord
    <2>1. mem.refreshTokens[k] \in RefreshRecord
      BY <1>1, InvFacts DEF Store
    <2>2. id \in Grants
      BY <2>1 DEF RefreshRecord
    <2>3. QED
      BY <1>1, <2>2, InvFacts DEF Store
  <1>4. /\ scopes \in SUBSET Scopes
        /\ grant.upstream \in UpstreamTokens
        /\ grant.upstream.refreshToken \in Nat
        /\ grant.upstreamAccessExpiresAt \in Nat
    BY <1>3 DEF GrantRecord, UpstreamTokens, ResolveScopes
  <1>5. /\ next \in RequestStates
        /\ Grounded(mem, next)
        /\ \A q \in Requests \ {r} : Apart(next, requests[q])
    <2>1. CASE grant.upstream.refreshToken # Never
      <3>1. asks \in AwaitingProvider
        BY <1>3, <1>4 DEF AwaitingProvider
      <3>2. QED
        BY <1>1, <2>1, <3>1 DEF RequestStates, Grounded, Apart
    <2>2. CASE grant.upstream.refreshToken = Never
      <3>1. next = turns
        BY <2>2
      <3>2. \/ grant.upstreamAccessExpiresAt = Never
            \/ grant.upstreamAccessExpiresAt >= now
        BY <1>2, <1>4, <2>2, InvFacts
      <3> HIDE DEF next, id, grant, scopes
      <3>3. QED
        BY <1>1, <1>3, <1>4, <3>1, <3>2, RotationIsTyped DEF id, grant
    <2>3. QED
      BY <2>1, <2>2
  <1> HIDE DEF next
  <1>6. provider' \in [Flows -> Nat] /\ faults' \in Nat
    BY <1>1, InvFacts DEF Inv, TypeOK
  <1>7. QED
    BY <1>1, <1>5, <1>6, WaitKeepsInv

\* A request that waits for the provider belongs to a flow.
LEMMA ProviderRequest ==
  ASSUME Inv, NEW r \in Requests, requests[r].at = "provider"
  PROVE  /\ requests[r] \in AwaitingProvider
         /\ mem.grants[requests[r].grant] # None
         /\ mem.refreshTokens[requests[r].token] # None
         /\ FlowOf(r) \in Flows
  <1>1. requests[r] \in AwaitingProvider
    BY InvFacts, RequestKinds
  <1>2. /\ mem.grants[requests[r].grant] # None
        /\ mem.refreshTokens[requests[r].token] # None
    BY InvFacts DEF Grounded
  <1>3. mem.grants[requests[r].grant] \in GrantRecord
    BY <1>1, <1>2, InvFacts DEF Store, AwaitingProvider
  <1>4. QED
    BY <1>1, <1>2, <1>3 DEF GrantRecord, FlowOf

\* The answer of the provider is typed, and the request goes on to its writes.
LEMMA ProviderRefreshesKeepsInv ==
  ASSUME Inv, NEW r \in Requests, NEW rotates \in BOOLEAN, ProviderRefreshes(r, rotates)
  PROVE  Inv'
  <1> DEFINE req   == requests[r]
             fresh == IF rotates THEN provider[FlowOf(r)] + 1 ELSE req.sent
             kept  == [refreshToken |-> fresh, expiresIn |-> Never]
             end   == UpstreamAccessTokenExpiresAt(kept)
             next  == Rotation(req.token, req.grant, req.scopes, kept, end)
  <1>1. /\ req.at = "provider"
        /\ provider' = IF rotates THEN [provider EXCEPT ![FlowOf(r)] = fresh] ELSE provider
        /\ requests' = [requests EXCEPT ![r] = next]
        /\ UNCHANGED <<now, mem, disk, delivered, faults>>
    BY DEF ProviderRefreshes
  <1>2. /\ req.token \in Tokens
        /\ req.grant \in Grants
        /\ req.scopes \in SUBSET Scopes
        /\ req.sent \in Nat
        /\ mem.grants[req.grant] # None
        /\ mem.refreshTokens[req.token] # None
    BY <1>1, ProviderRequest DEF AwaitingProvider
  <1>3. FlowOf(r) \in Flows
    BY <1>1, ProviderRequest
  <1>4. fresh \in Nat /\ provider' \in [Flows -> Nat]
    BY <1>1, <1>2, <1>3, InvFacts
  <1> HIDE DEF fresh
  <1>5. kept \in UpstreamTokens
    BY <1>4 DEF UpstreamTokens, Never
  <1> HIDE DEF kept
  <1>6. end \in Nat /\ (end = Never \/ end >= now)
    BY <1>5, UpstreamEnd
  <1> HIDE DEF end
  <1>7. /\ next \in RequestStates
        /\ Grounded(mem, next)
        /\ \A q \in Requests \ {r} : Apart(next, requests[q])
    BY <1>2, <1>5, <1>6, RotationIsTyped
  <1> HIDE DEF next
  <1>8. faults' \in Nat
    BY <1>1 DEF Inv, TypeOK
  <1>9. QED
    BY <1>1, <1>4, <1>7, <1>8, WaitKeepsInv

\* Nothing was written when the provider refuses.
LEMMA ProviderRefusesKeepsInv ==
  ASSUME Inv, NEW r \in Requests, ProviderRefuses(r)
  PROVE  Inv'
  <1>1. provider' \in [Flows -> Nat] /\ faults' \in Nat
    BY DEF ProviderRefuses, Inv, TypeOK
  <1>2. /\ requests' = [requests EXCEPT ![r] = Idle]
        /\ UNCHANGED <<now, mem, disk, delivered>>
    BY DEF ProviderRefuses
  <1>3. QED
    BY <1>1, <1>2, IdleIsGrounded, WaitKeepsInv

\* Nothing was written when the answer of the provider is lost.
LEMMA ProviderAnswerLostKeepsInv ==
  ASSUME Inv, NEW r \in Requests, ProviderAnswerLost(r)
  PROVE  Inv'
  <1>1. /\ requests' = [requests EXCEPT ![r] = Idle]
        /\ UNCHANGED <<now, mem, disk, delivered>>
        /\ faults' = faults + 1
        /\ provider' = [provider EXCEPT ![FlowOf(r)] = @ + 1]
        /\ FlowOf(r) \in Flows
    BY ProviderRequest DEF ProviderAnswerLost
  <1>2. provider' \in [Flows -> Nat] /\ faults' \in Nat
    BY <1>1 DEF Inv, TypeOK
  <1>3. QED
    BY <1>1, <1>2, IdleIsGrounded, WaitKeepsInv

\* The file is a good store too, and no request survives a restart.
LEMMA RestartKeepsInv ==
  ASSUME Inv, Restart
  PROVE  Inv'
  <1>1. /\ faults' = faults + 1
        /\ mem' = disk
        /\ requests' = [r \in Requests |-> Idle]
        /\ UNCHANGED <<now, disk, provider, delivered>>
    BY DEF Restart
  <1>2. TypeOK'
    BY <1>1, IdleIsGrounded DEF Inv, TypeOK
  <1>3. mem' \in GoodStores /\ disk' \in GoodStores
    BY <1>1, InvFacts
  <1>4. /\ \A r \in Requests : Grounded(mem', requests'[r])
        /\ \A q, r \in Requests : q # r => Apart(requests'[q], requests'[r])
    BY <1>1, IdleIsGrounded
  <1>5. QED
    BY <1>2, <1>3, <1>4 DEF Inv

\* A step that changes nothing but the clock.
LEMMA TickKeepsInv ==
  ASSUME Inv, now' \in Nat, UNCHANGED <<mem, disk, requests, provider, delivered, faults>>
  PROVE  Inv'
  <1>1. TypeOK'
    BY DEF Inv, TypeOK
  <1>2. QED
    BY <1>1 DEF Inv

-----------------------------------------------------------------------------
\* The theorems.

\* The empty store is good and no request waits.
LEMMA InitInv == Init => Inv
  <1> SUFFICES ASSUME Init PROVE Inv
    OBVIOUS
  <1>1. EmptyState \in Store
    BY DEF EmptyState, Store
  <1>2. EmptyState \in GoodStores
    BY <1>1 DEF GoodStores, EmptyState, OneCodePerFlow, OneGrantPerFlow,
                CodesSpentStates, GrantsSpentCodes
  <1>3. TypeOK
    BY <1>1, IdleIsGrounded DEF Init, TypeOK, Never
  <1>4. QED
    BY <1>2, <1>3, IdleIsGrounded DEF Init, Inv

\* Every step keeps the invariant, one lemma for each action.
LEMMA NextKeepsInv == Inv /\ [Next]_vars => Inv'
  <1> SUFFICES ASSUME Inv, [Next]_vars PROVE Inv'
    OBVIOUS
  <1>1. ASSUME NEW r \in Requests,
               \/ \E client \in Clients : RegisterClient(r, client)
               \/ \E flow \in Flows, client \in Clients, requested \in SUBSET Scopes :
                    StartAuthorization(r, flow, client, requested)
               \/ \E flow \in Flows, hasCode \in BOOLEAN : HandleCallback(r, flow, hasCode)
               \/ \E code \in Codes, upstream \in FirstUpstreamTokens :
                    IssueAuthorizationCode(r, code, upstream)
               \/ \E code \in Codes, client \in Clients : RedeemCode(r, code, client)
               \/ \E grant \in Grants, token \in Tokens : IssueTokens(r, grant, token)
        PROVE  Inv'
    BY <1>1, RegisterClientKeepsInv, StartAuthorizationKeepsInv, HandleCallbackKeepsInv,
       IssueAuthorizationCodeKeepsInv, RedeemCodeKeepsInv, IssueTokensKeepsInv, Zenon
  <1>2. ASSUME NEW r \in Requests,
               \/ ProviderRefuses(r)
               \/ \E token \in Tokens, client \in Clients, requested \in SUBSET Scopes :
                    StartRefresh(r, token, client, requested)
               \/ \E rotates \in BOOLEAN : ProviderRefreshes(r, rotates)
               \/ ProviderAnswerLost(r)
               \/ \E token \in Tokens : RotateTokens(r, token)
        PROVE  Inv'
    BY <1>2, ProviderRefusesKeepsInv, StartRefreshKeepsInv, ProviderRefreshesKeepsInv,
       ProviderAnswerLostKeepsInv, RotateTokensKeepsInv, Zenon
  <1>3. CASE Restart
    BY <1>3, RestartKeepsInv
  <1>4. CASE Tick
    <2>1. now' \in Nat
      BY <1>4, InvFacts DEF Tick
    <2>2. UNCHANGED <<mem, disk, requests, provider, delivered, faults>>
      BY <1>4 DEF Tick
    <2>3. QED
      BY <2>1, <2>2, TickKeepsInv
  <1>5. CASE UNCHANGED vars
    BY <1>5, InvFacts, TickKeepsInv DEF vars
  <1>6. QED
    BY <1>1, <1>2, <1>3, <1>4, <1>5, Zenon DEF Next

\* Every variable keeps its type: no handler stores or waits with a record that
\* names an absent time, client or grant (the record types of authStore.ts).
THEOREM TypeCorrect == Spec => []TypeOK
  <1>1. Inv => TypeOK
    BY DEF Inv
  <1>2. QED
    BY <1>1, InitInv, NextKeepsInv, PTL DEF Spec

\* One authorization gives at most one code and one code at most one grant, in
\* memory and on the file, whatever requests race, writes fail or crashes strike.
THEOREM SpentOnceHolds == Spec => []SpentOnce
  <1>1. Inv => SpentOnce
    BY DEF Inv, GoodStores, SpentOnce
  <1>2. QED
    BY <1>1, InitInv, NextKeepsInv, PTL DEF Spec

(***************************************************************************)
(* PART 2. The records. The argument is that stores only grow: no          *)
(* operation takes a record back or changes what another record relies on, *)
(* and the file is never ahead of the memory.                              *)
(***************************************************************************)

\* What later records rely on is the same in store t as in the earlier store s.
Grows(s, t) ==
  /\ s.registeredClients \subseteq t.registeredClients
  /\ \A f \in Flows : s.pendingStates[f] # None =>
       /\ t.pendingStates[f] # None
       /\ s.pendingStates[f].used => t.pendingStates[f].used
  /\ \A f \in Flows : s.transactions[f] # None => t.transactions[f] = s.transactions[f]
  /\ \A c \in Codes : s.authorizationCodes[c] # None =>
       /\ t.authorizationCodes[c] # None
       /\ t.authorizationCodes[c].flow = s.authorizationCodes[c].flow
       /\ t.authorizationCodes[c].client = s.authorizationCodes[c].client
       /\ t.authorizationCodes[c].scopes = s.authorizationCodes[c].scopes
       /\ t.authorizationCodes[c].upstream = s.authorizationCodes[c].upstream
       /\ t.authorizationCodes[c].upstreamEnd = s.authorizationCodes[c].upstreamEnd
       /\ s.authorizationCodes[c].used => t.authorizationCodes[c].used
  /\ \A g \in Grants : s.grants[g] # None =>
       /\ t.grants[g] # None
       /\ t.grants[g].flow = s.grants[g].flow
       /\ t.grants[g].client = s.grants[g].client
       /\ t.grants[g].upstreamAccessExpiresAt = s.grants[g].upstreamAccessExpiresAt
       /\ t.grants[g].upstreamEnd = s.grants[g].upstreamEnd
  /\ \A k \in Tokens : s.accessTokens[k] # None => t.accessTokens[k] = s.accessTokens[k]
  /\ \A k \in Tokens : s.refreshTokens[k] # None =>
       /\ t.refreshTokens[k] # None
       /\ t.refreshTokens[k].grant = s.refreshTokens[k].grant

\* The end of the life of a code, in clock units after it was issued.
CodeLife == AuthCodeTtl * Second

TransactionsAllowed(s) ==
  \A f \in Flows : s.transactions[f] # None =>
    /\ s.transactions[f].client \in KnownClients(s)
    /\ s.transactions[f].scopes \subseteq ScopesOf[s.transactions[f].client]

\* The end of the upstream access token of a code is counted from its issue.
CodesCounted(s) ==
  \A c \in Codes : s.authorizationCodes[c] # None =>
    LET code == s.authorizationCodes[c]
        ttl  == UpstreamAccessTokenTtl(code.upstream)
    IN ttl # Never => code.upstreamEnd + CodeLife = code.expiresAt + ttl * Second

\* A grant with an upstream refresh token has no end, and any other ends less than
\* the life of a code after its upstream access token.
GrantsCounted(s) ==
  \A g \in Grants : s.grants[g] # None =>
    /\ s.grants[g].upstream.refreshToken # Never =>
         s.grants[g].upstreamAccessExpiresAt = Never
    /\ s.grants[g].upstreamAccessExpiresAt # Never =>
         s.grants[g].upstreamAccessExpiresAt < s.grants[g].upstreamEnd + CodeLife

TokensCapped(s) ==
  \A k \in Tokens : s.accessTokens[k] # None =>
    LET end == s.grants[s.accessTokens[k].grant].upstreamAccessExpiresAt IN
    end # Never =>
      /\ s.accessTokens[k].expiresAt <= end
      /\ s.refreshTokens[k] # None => s.refreshTokens[k].expiresAt <= end

TwoActive(s) ==
  \A g \in Grants : \E a, b \in Tokens \cup {None} : ActiveTokens(s, g) \subseteq {a, b}

Sound(s) ==
  /\ TransactionsAllowed(s)
  /\ CodesHaveTransactions(s)
  /\ GrantsHaveCodes(s)
  /\ TokensHaveGrants(s)
  /\ CodesCounted(s)
  /\ GrantsCounted(s)
  /\ TokensCapped(s)
  /\ TwoActive(s)

\* The lifetimes a request was given, counted from the instant time, end in time.
EndsInTime(req, end, time) ==
  end # Never =>
    /\ time + req.accessTtl * Second <= end
    /\ time + req.refreshTtl * Second <= end

\* What a request that waits relies on beyond Grounded.
Supported(s, req, time) ==
  /\ req.at = "issue" =>
       LET code == s.authorizationCodes[req.code]
           end  == req.upstreamAccessExpiresAt
       IN /\ code.upstream.refreshToken # Never => end = Never
          /\ end # Never => end < code.upstreamEnd + CodeLife
          /\ EndsInTime(req, end, time)
  /\ req.at \in {"provider", "rotation"} =>
       /\ s.refreshTokens[req.token].grant = req.grant
       /\ req.scopes \subseteq s.transactions[s.grants[req.grant].flow].scopes
  /\ req.at = "provider" => s.grants[req.grant].upstreamAccessExpiresAt = Never
  /\ req.at = "rotation" =>
       LET end == req.upstreamAccessExpiresAt IN
       /\ s.grants[req.grant].upstreamAccessExpiresAt = end
       /\ req.upstream.refreshToken # Never => end = Never
       /\ EndsInTime(req, end, time)

\* The inductive invariant: on top of Inv, both stores are sound, the file is not
\* ahead of the memory, and what clients were told is on the file.
RecordsInv ==
  /\ Inv
  /\ Sound(mem)
  /\ Sound(disk)
  /\ Grows(disk, mem)
  /\ \A r \in Requests : Supported(mem, requests[r], now)
  /\ DeliveredIsDurable

-----------------------------------------------------------------------------
\* Growth of stores.

\* A store grows into itself.
LEMMA GrowsReflexive == \A s : Grows(s, s)
PROOF
  BY DEF Grows

\* What later records rely on stays the same over any number of writes.
LEMMA GrowsTransitive ==
  ASSUME NEW s, NEW t, NEW u, Grows(s, t), Grows(t, u)
  PROVE  Grows(s, u)
PROOF
  BY DEF Grows

\* Every grant has the transaction that it was authorized by.
LEMMA GrantsHaveTransactions ==
  ASSUME NEW s \in Store, CodesHaveTransactions(s), GrantsHaveCodes(s),
         NEW g \in Grants, s.grants[g] # None
  PROVE  /\ s.grants[g] \in GrantRecord
         /\ s.grants[g].flow \in Flows
         /\ s.transactions[s.grants[g].flow] # None
         /\ s.transactions[s.grants[g].flow] \in TransactionRecord
         /\ s.grants[g].scopes \subseteq s.transactions[s.grants[g].flow].scopes
PROOF
<1>1. s.grants[g] \in GrantRecord
  BY DEF Store
<1>2. s.grants[g].flow \in Flows
  BY <1>1 DEF GrantRecord
<1>3. PICK c \in Codes :
        /\ s.authorizationCodes[c] # None
        /\ s.authorizationCodes[c].flow = s.grants[g].flow
        /\ s.grants[g].scopes \subseteq s.authorizationCodes[c].scopes
  BY DEF GrantsHaveCodes
<1>4. /\ s.transactions[s.grants[g].flow] # None
      /\ s.transactions[s.grants[g].flow].scopes = s.authorizationCodes[c].scopes
  BY <1>3 DEF CodesHaveTransactions
<1>5. s.transactions[s.grants[g].flow] \in TransactionRecord
  BY <1>2, <1>4 DEF Store
<1> QED
  BY <1>1, <1>2, <1>3, <1>4, <1>5

\* A request that waits finds what it relies on in every later store.
LEMMA GrowthSupports ==
  ASSUME NEW s \in Store, NEW t \in Store, Sound(s), Grows(s, t),
         NEW req \in RequestStates, NEW time,
         Grounded(s, req), Supported(s, req, time)
  PROVE  Supported(t, req, time)
PROOF
<1>1. CASE req.at = "issue"
  <2>1. req \in AwaitingIssue
    BY <1>1, RequestKinds
  <2>2. req.code \in Codes /\ s.authorizationCodes[req.code] # None
    BY <1>1, <2>1 DEF Grounded, AwaitingIssue
  <2> QED
    BY <1>1, <2>2 DEF Grows, Supported
<1>2. CASE req.at \in {"provider", "rotation"}
  <2>1. req \in AwaitingProvider \cup AwaitingRotation
    BY <1>2, RequestKinds
  <2>2. /\ req.token \in Tokens /\ s.refreshTokens[req.token] # None
        /\ req.grant \in Grants /\ s.grants[req.grant] # None
    BY <1>2, <2>1 DEF Grounded, AwaitingProvider, AwaitingRotation
  <2>3. /\ s.grants[req.grant].flow \in Flows
        /\ s.transactions[s.grants[req.grant].flow] # None
    BY <2>2, GrantsHaveTransactions DEF Sound
  <2>4. /\ t.refreshTokens[req.token].grant = s.refreshTokens[req.token].grant
        /\ t.grants[req.grant].flow = s.grants[req.grant].flow
        /\ t.grants[req.grant].upstreamAccessExpiresAt
             = s.grants[req.grant].upstreamAccessExpiresAt
        /\ t.transactions[s.grants[req.grant].flow] = s.transactions[s.grants[req.grant].flow]
    BY <2>2, <2>3 DEF Grows
  <2> QED
    BY <1>2, <2>4 DEF Supported
<1>3. CASE req.at \notin {"issue", "provider", "rotation"}
  BY <1>3 DEF Supported
<1> QED
  BY <1>1, <1>2, <1>3

-----------------------------------------------------------------------------
\* What each store operation does to a sound store.

\* A sound step from s to t.
Extends(s, t) == t \in Store /\ Sound(t) /\ Grows(s, t)

\* A write that leaves the tokens alone, and the grants they belong to.
LEMMA SameTokens ==
  ASSUME NEW s, NEW t, Sound(s),
         t.accessTokens = s.accessTokens,
         t.refreshTokens = s.refreshTokens,
         \A k \in Tokens : s.accessTokens[k] # None =>
           LET h == s.accessTokens[k].grant IN
           /\ t.grants[h] # None
           /\ t.grants[h].flow = s.grants[h].flow
           /\ t.grants[h].client = s.grants[h].client
           /\ t.grants[h].upstreamAccessExpiresAt = s.grants[h].upstreamAccessExpiresAt
           /\ t.transactions[s.grants[h].flow] = s.transactions[s.grants[h].flow]
  PROVE  TokensHaveGrants(t) /\ TokensCapped(t) /\ TwoActive(t)
PROOF
<1>1. TokensHaveGrants(t)
  <2> SUFFICES ASSUME NEW k \in Tokens
               PROVE  /\ t.accessTokens[k] # None =>
                           LET access == t.accessTokens[k]
                               grant  == t.grants[access.grant]
                           IN /\ grant # None
                              /\ access.client = grant.client
                              /\ access.scopes \subseteq t.transactions[grant.flow].scopes
                      /\ t.refreshTokens[k] # None =>
                           /\ t.accessTokens[k] # None
                           /\ t.accessTokens[k].grant = t.refreshTokens[k].grant
    BY DEF TokensHaveGrants
  <2>1. s.accessTokens[k] # None =>
          LET access == s.accessTokens[k]
              grant  == s.grants[access.grant]
          IN /\ grant # None
             /\ access.client = grant.client
             /\ access.scopes \subseteq s.transactions[grant.flow].scopes
    BY DEF Sound, TokensHaveGrants
  <2>2. s.refreshTokens[k] # None =>
          /\ s.accessTokens[k] # None
          /\ s.accessTokens[k].grant = s.refreshTokens[k].grant
    BY DEF Sound, TokensHaveGrants
  <2> QED
    BY <2>1, <2>2
<1>2. TokensCapped(t)
  BY DEF Sound, TokensCapped
<1>3. \A g : ActiveTokens(t, g) = ActiveTokens(s, g)
  BY DEF ActiveTokens, StoredTokens
<1> QED
  BY <1>1, <1>2, <1>3 DEF Sound, TwoActive

\* A write that leaves clients, flows and codes alone.
LEMMA SameCodes ==
  ASSUME NEW s, NEW t, Sound(s),
         t.registeredClients = s.registeredClients,
         t.pendingStates = s.pendingStates,
         t.transactions = s.transactions,
         t.authorizationCodes = s.authorizationCodes
  PROVE  TransactionsAllowed(t) /\ CodesHaveTransactions(t)
PROOF
<1>1. KnownClients(t) = KnownClients(s)
  BY DEF KnownClients
<1>2. TransactionsAllowed(t)
  BY <1>1 DEF Sound, TransactionsAllowed
<1>3. CodesHaveTransactions(t)
  BY <1>1 DEF Sound, CodesHaveTransactions
<1> QED
  BY <1>2, <1>3

\* The grant of every token is there.
LEMMA TokensBelong ==
  ASSUME NEW s \in Store, TokensHaveGrants(s), NEW k \in Tokens, s.accessTokens[k] # None
  PROVE  /\ s.accessTokens[k] \in AccessRecord
         /\ s.accessTokens[k].grant \in Grants
         /\ s.grants[s.accessTokens[k].grant] # None
PROOF
  BY DEF TokensHaveGrants, Store, AccessRecord

\* A client that is registered is one more client that is known.
LEMMA ClientExtends ==
  ASSUME NEW s \in Store, Sound(s), NEW c \in Clients
  PROVE  Extends(s, SaveRegisteredClient(s, c))
PROOF
<1> DEFINE t == SaveRegisteredClient(s, c)
<1>1. t \in Store
  BY SavesKeepStore
<1>2. /\ t.registeredClients = s.registeredClients \cup {c}
      /\ t.pendingStates = s.pendingStates
      /\ t.transactions = s.transactions
      /\ t.authorizationCodes = s.authorizationCodes
      /\ t.grants = s.grants
      /\ t.accessTokens = s.accessTokens
      /\ t.refreshTokens = s.refreshTokens
  BY DEF SaveRegisteredClient, Store
<1> HIDE DEF t
<1>3. Grows(s, t)
  BY <1>2 DEF Grows
<1>4. TransactionsAllowed(t) /\ CodesHaveTransactions(t)
  <2>1. TransactionsAllowed(t)
    BY <1>2 DEF Sound, TransactionsAllowed, KnownClients
  <2>2. CodesHaveTransactions(t)
    BY <1>2 DEF Sound, CodesHaveTransactions, KnownClients
  <2> QED
    BY <2>1, <2>2
<1>5. GrantsHaveCodes(t) /\ CodesCounted(t) /\ GrantsCounted(t)
  BY <1>2 DEF Sound, GrantsHaveCodes, CodesCounted, GrantsCounted
<1>6. TokensHaveGrants(t) /\ TokensCapped(t) /\ TwoActive(t)
  BY <1>2, TokensBelong, SameTokens DEF Sound
<1> QED
  BY <1>1, <1>3, <1>4, <1>5, <1>6 DEF Sound, Extends, t

\* A state is stored or marked used.
LEMMA StateExtends ==
  ASSUME NEW s \in Store, Sound(s), NEW f \in Flows, NEW rec \in PendingRecord,
         s.pendingStates[f] # None => (s.pendingStates[f].used => rec.used)
  PROVE  Extends(s, SavePendingState(s, f, rec))
PROOF
<1> DEFINE t == SavePendingState(s, f, rec)
<1>1. t \in Store
  BY SavesKeepStore
<1>2. /\ t.registeredClients = s.registeredClients
      /\ \A e \in Flows : t.pendingStates[e] = IF e = f THEN rec ELSE s.pendingStates[e]
      /\ t.transactions = s.transactions
      /\ t.authorizationCodes = s.authorizationCodes
      /\ t.grants = s.grants
      /\ t.accessTokens = s.accessTokens
      /\ t.refreshTokens = s.refreshTokens
  BY DEF SavePendingState, Store
<1> HIDE DEF t
<1>3. rec # None
  BY NoneAssumption
<1>4. Grows(s, t)
  BY <1>2, <1>3 DEF Grows
<1>5. TransactionsAllowed(t)
  BY <1>2 DEF Sound, TransactionsAllowed, KnownClients
<1>6. CodesHaveTransactions(t)
  <2> SUFFICES ASSUME NEW c \in Codes, s.authorizationCodes[c] # None
               PROVE  /\ t.pendingStates[s.authorizationCodes[c].flow] # None
                      /\ t.pendingStates[s.authorizationCodes[c].flow].used
    BY <1>2 DEF Sound, CodesHaveTransactions, KnownClients
  <2>1. s.authorizationCodes[c].flow \in Flows
    BY DEF Store, CodeRecord
  <2> QED
    BY <2>1, <1>2, <1>3 DEF Sound, CodesHaveTransactions
<1>7. GrantsHaveCodes(t) /\ CodesCounted(t) /\ GrantsCounted(t)
  BY <1>2 DEF Sound, GrantsHaveCodes, CodesCounted, GrantsCounted
<1>8. TokensHaveGrants(t) /\ TokensCapped(t) /\ TwoActive(t)
  <2>1. \A k \in Tokens : s.accessTokens[k] # None => t.grants[s.accessTokens[k].grant] # None
    BY <1>2, TokensBelong DEF Sound
  <2> QED
    BY <2>1, <1>2, SameTokens
<1> QED
  BY <1>1, <1>4, <1>5, <1>6, <1>7, <1>8 DEF Sound, Extends, t

\* A transaction is stored once, for a known client and scopes that it is allowed.
LEMMA TransactionExtends ==
  ASSUME NEW s \in Store, Sound(s), NEW f \in Flows, NEW rec \in TransactionRecord,
         s.transactions[f] = None, rec.client \in KnownClients(s),
         rec.scopes \subseteq ScopesOf[rec.client]
  PROVE  Extends(s, SaveTransaction(s, f, rec))
PROOF
<1> DEFINE t == SaveTransaction(s, f, rec)
<1>1. t \in Store
  BY SavesKeepStore
<1>2. /\ t.registeredClients = s.registeredClients
      /\ t.pendingStates = s.pendingStates
      /\ \A e \in Flows : t.transactions[e] = IF e = f THEN rec ELSE s.transactions[e]
      /\ t.authorizationCodes = s.authorizationCodes
      /\ t.grants = s.grants
      /\ t.accessTokens = s.accessTokens
      /\ t.refreshTokens = s.refreshTokens
  BY DEF SaveTransaction, Store
<1> HIDE DEF t
<1>3. Grows(s, t)
  BY <1>2 DEF Grows
<1>4. TransactionsAllowed(t)
  BY <1>2 DEF Sound, TransactionsAllowed, KnownClients
<1>5. CodesHaveTransactions(t)
  <2> SUFFICES ASSUME NEW c \in Codes, s.authorizationCodes[c] # None
               PROVE  t.transactions[s.authorizationCodes[c].flow]
                        = s.transactions[s.authorizationCodes[c].flow]
    BY <1>2 DEF Sound, CodesHaveTransactions, KnownClients
  <2>1. s.authorizationCodes[c].flow \in Flows
    BY DEF Store, CodeRecord
  <2> QED
    BY <2>1, <1>2 DEF Sound, CodesHaveTransactions
<1>6. GrantsHaveCodes(t) /\ CodesCounted(t) /\ GrantsCounted(t)
  BY <1>2 DEF Sound, GrantsHaveCodes, CodesCounted, GrantsCounted
<1>7. TokensHaveGrants(t) /\ TokensCapped(t) /\ TwoActive(t)
  <2>1. \A k \in Tokens : s.accessTokens[k] # None =>
          LET e == s.grants[s.accessTokens[k].grant].flow IN
          e \in Flows /\ s.transactions[e] # None
    BY TokensBelong, GrantsHaveTransactions DEF Sound
  <2>2. \A k \in Tokens : s.accessTokens[k] # None =>
          LET h == s.accessTokens[k].grant IN
          /\ t.grants[h] # None
          /\ t.grants[h].flow = s.grants[h].flow
          /\ t.grants[h].client = s.grants[h].client
          /\ t.grants[h].upstreamAccessExpiresAt = s.grants[h].upstreamAccessExpiresAt
          /\ t.transactions[s.grants[h].flow] = s.transactions[s.grants[h].flow]
    BY <2>1, <1>2, TokensBelong DEF Sound
  <2> QED
    BY <1>2, <2>2, SameTokens
<1> QED
  BY <1>1, <1>3, <1>4, <1>5, <1>6, <1>7 DEF Sound, Extends, t

\* A code is stored or marked used; it comes from a used state and its transaction.
LEMMA CodeExtends ==
  ASSUME NEW s \in Store, Sound(s), NEW c \in Codes, NEW rec \in CodeRecord,
         s.authorizationCodes[c] # None =>
           /\ rec.flow = s.authorizationCodes[c].flow
           /\ rec.client = s.authorizationCodes[c].client
           /\ rec.scopes = s.authorizationCodes[c].scopes
           /\ rec.upstream = s.authorizationCodes[c].upstream
           /\ rec.upstreamEnd = s.authorizationCodes[c].upstreamEnd
           /\ s.authorizationCodes[c].used => rec.used,
         s.pendingStates[rec.flow] # None,
         s.pendingStates[rec.flow].used,
         s.transactions[rec.flow] # None,
         s.transactions[rec.flow].client = rec.client,
         s.transactions[rec.flow].scopes = rec.scopes,
         UpstreamAccessTokenTtl(rec.upstream) # Never =>
           rec.upstreamEnd + CodeLife
             = rec.expiresAt + UpstreamAccessTokenTtl(rec.upstream) * Second
  PROVE  Extends(s, SaveAuthorizationCode(s, c, rec))
PROOF
<1> DEFINE t == SaveAuthorizationCode(s, c, rec)
<1>1. t \in Store
  BY SavesKeepStore
<1>2. /\ t.registeredClients = s.registeredClients
      /\ t.pendingStates = s.pendingStates
      /\ t.transactions = s.transactions
      /\ \A d \in Codes :
           t.authorizationCodes[d] = IF d = c THEN rec ELSE s.authorizationCodes[d]
      /\ t.grants = s.grants
      /\ t.accessTokens = s.accessTokens
      /\ t.refreshTokens = s.refreshTokens
  BY DEF SaveAuthorizationCode, Store
<1> HIDE DEF t
<1>3. rec # None /\ rec.flow \in Flows
  BY NoneAssumption DEF CodeRecord
<1>4. Grows(s, t)
  BY <1>2, <1>3 DEF Grows
<1>5. TransactionsAllowed(t)
  BY <1>2 DEF Sound, TransactionsAllowed, KnownClients
<1>6. CodesHaveTransactions(t)
  BY <1>2, <1>3 DEF Sound, TransactionsAllowed, CodesHaveTransactions, KnownClients
<1>7. GrantsHaveCodes(t)
  BY <1>2, <1>3 DEF Sound, GrantsHaveCodes
<1>8. CodesCounted(t) /\ GrantsCounted(t)
  BY <1>2 DEF Sound, CodesCounted, GrantsCounted
<1>9. TokensHaveGrants(t) /\ TokensCapped(t) /\ TwoActive(t)
  <2>1. \A k \in Tokens : s.accessTokens[k] # None =>
          LET h == s.accessTokens[k].grant IN
          /\ t.grants[h] # None
          /\ t.grants[h].flow = s.grants[h].flow
          /\ t.grants[h].client = s.grants[h].client
          /\ t.grants[h].upstreamAccessExpiresAt = s.grants[h].upstreamAccessExpiresAt
          /\ t.transactions[s.grants[h].flow] = s.transactions[s.grants[h].flow]
    BY <1>2, TokensBelong DEF Sound
  <2> QED
    BY <1>2, <2>1, SameTokens
<1> QED
  BY <1>1, <1>4, <1>5, <1>6, <1>7, <1>8, <1>9 DEF Sound, Extends, t

\* A grant is stored or updated; it comes from a used code with its client and no
\* other scopes, and its end does not move.
LEMMA GrantExtends ==
  ASSUME NEW s \in Store, Sound(s), NEW g \in Grants, NEW rec \in GrantRecord, NEW c \in Codes,
         s.grants[g] # None =>
           /\ rec.flow = s.grants[g].flow
           /\ rec.client = s.grants[g].client
           /\ rec.upstreamAccessExpiresAt = s.grants[g].upstreamAccessExpiresAt
           /\ rec.upstreamEnd = s.grants[g].upstreamEnd,
         s.authorizationCodes[c] # None,
         s.authorizationCodes[c].used,
         s.authorizationCodes[c].flow = rec.flow,
         s.authorizationCodes[c].client = rec.client,
         rec.scopes \subseteq s.authorizationCodes[c].scopes,
         rec.upstream.refreshToken # Never => rec.upstreamAccessExpiresAt = Never,
         rec.upstreamAccessExpiresAt # Never =>
           rec.upstreamAccessExpiresAt < rec.upstreamEnd + CodeLife
  PROVE  Extends(s, SaveGrant(s, g, rec))
PROOF
<1> DEFINE t == SaveGrant(s, g, rec)
<1>1. t \in Store
  BY SavesKeepStore
<1>2. /\ t.registeredClients = s.registeredClients
      /\ t.pendingStates = s.pendingStates
      /\ t.transactions = s.transactions
      /\ t.authorizationCodes = s.authorizationCodes
      /\ \A h \in Grants : t.grants[h] = IF h = g THEN rec ELSE s.grants[h]
      /\ t.accessTokens = s.accessTokens
      /\ t.refreshTokens = s.refreshTokens
  BY DEF SaveGrant, Store
<1> HIDE DEF t
<1>3. rec # None
  BY NoneAssumption
<1>4. Grows(s, t)
  BY <1>2, <1>3 DEF Grows
<1>5. TransactionsAllowed(t) /\ CodesHaveTransactions(t)
  BY <1>2, SameCodes
<1>6. GrantsHaveCodes(t)
  BY <1>2 DEF Sound, GrantsHaveCodes
<1>7. CodesCounted(t) /\ GrantsCounted(t)
  BY <1>2 DEF Sound, CodesCounted, GrantsCounted
<1>8. \A h \in Grants : s.grants[h] # None =>
        /\ t.grants[h] # None
        /\ t.grants[h].flow = s.grants[h].flow
        /\ t.grants[h].client = s.grants[h].client
        /\ t.grants[h].upstreamAccessExpiresAt = s.grants[h].upstreamAccessExpiresAt
  BY <1>2, <1>3
<1>9. TokensHaveGrants(t) /\ TokensCapped(t) /\ TwoActive(t)
  <2>1. \A k \in Tokens : s.accessTokens[k] # None =>
          LET h == s.accessTokens[k].grant IN
          /\ t.grants[h] # None
          /\ t.grants[h].flow = s.grants[h].flow
          /\ t.grants[h].client = s.grants[h].client
          /\ t.grants[h].upstreamAccessExpiresAt = s.grants[h].upstreamAccessExpiresAt
          /\ t.transactions[s.grants[h].flow] = s.transactions[s.grants[h].flow]
    BY <1>2, <1>8, TokensBelong DEF Sound
  <2> QED
    BY <1>2, <2>1, SameTokens
<1> QED
  BY <1>1, <1>4, <1>5, <1>6, <1>7, <1>9 DEF Sound, Extends, t

\* An access token is stored for a grant that is there, with no scope the transaction
\* was not started with and no life beyond the end of the grant.
LEMMA AccessExtends ==
  ASSUME NEW s \in Store, Sound(s), NEW k \in Tokens, NEW rec \in AccessRecord,
         s.accessTokens[k] = None,
         s.refreshTokens[k] = None,
         s.grants[rec.grant] # None,
         rec.client = s.grants[rec.grant].client,
         rec.scopes \subseteq s.transactions[s.grants[rec.grant].flow].scopes,
         s.grants[rec.grant].upstreamAccessExpiresAt # Never =>
           rec.expiresAt <= s.grants[rec.grant].upstreamAccessExpiresAt
  PROVE  Extends(s, SaveAccessToken(s, k, rec))
PROOF
<1> DEFINE t == SaveAccessToken(s, k, rec)
<1>1. t \in Store
  BY SavesKeepStore
<1>2. /\ t.registeredClients = s.registeredClients
      /\ t.pendingStates = s.pendingStates
      /\ t.transactions = s.transactions
      /\ t.authorizationCodes = s.authorizationCodes
      /\ t.grants = s.grants
      /\ \A u \in Tokens : t.accessTokens[u] = IF u = k THEN rec ELSE s.accessTokens[u]
      /\ t.refreshTokens = s.refreshTokens
  BY DEF SaveAccessToken, Store
<1> HIDE DEF t
<1>3. rec # None
  BY NoneAssumption
<1>4. Grows(s, t)
  BY <1>2 DEF Grows
<1>5. TransactionsAllowed(t) /\ CodesHaveTransactions(t)
  BY <1>2, SameCodes
<1>6. GrantsHaveCodes(t) /\ CodesCounted(t) /\ GrantsCounted(t)
  BY <1>2 DEF Sound, GrantsHaveCodes, CodesCounted, GrantsCounted
<1>7. TokensHaveGrants(t)
  <2> SUFFICES ASSUME NEW u \in Tokens
               PROVE  /\ t.accessTokens[u] # None =>
                           LET access == t.accessTokens[u]
                               grant  == t.grants[access.grant]
                           IN /\ grant # None
                              /\ access.client = grant.client
                              /\ access.scopes \subseteq t.transactions[grant.flow].scopes
                      /\ t.refreshTokens[u] # None =>
                           /\ t.accessTokens[u] # None
                           /\ t.accessTokens[u].grant = t.refreshTokens[u].grant
    BY DEF TokensHaveGrants
  <2>1. CASE u = k
    BY <2>1, <1>2
  <2>2. CASE u # k
    BY <2>2, <1>2, ZenonT(30) DEF Sound, TokensHaveGrants
  <2> QED
    BY <2>1, <2>2
<1>8. TokensCapped(t)
  BY <1>2 DEF Sound, TokensCapped
<1>9. TwoActive(t)
  <2>1. \A g : ActiveTokens(t, g) = ActiveTokens(s, g)
    BY <1>2 DEF ActiveTokens, StoredTokens
  <2> QED
    BY <2>1 DEF Sound, TwoActive
<1> QED
  BY <1>1, <1>4, <1>5, <1>6, <1>7, <1>8, <1>9 DEF Sound, Extends, t

\* Writes to refresh tokens that keep grants, lives and the bound on active ones.
LEMMA RefreshTokensExtend ==
  ASSUME NEW s \in Store, Sound(s), NEW t \in Store,
         t.registeredClients = s.registeredClients,
         t.pendingStates = s.pendingStates,
         t.transactions = s.transactions,
         t.authorizationCodes = s.authorizationCodes,
         t.grants = s.grants,
         t.accessTokens = s.accessTokens,
         \A k \in Tokens : s.refreshTokens[k] # None =>
           /\ t.refreshTokens[k] # None
           /\ t.refreshTokens[k].grant = s.refreshTokens[k].grant,
         \A k \in Tokens : t.refreshTokens[k] # None =>
           /\ t.accessTokens[k] # None
           /\ t.accessTokens[k].grant = t.refreshTokens[k].grant
           /\ LET end == t.grants[t.refreshTokens[k].grant].upstreamAccessExpiresAt IN
              end # Never => t.refreshTokens[k].expiresAt <= end,
         TwoActive(t)
  PROVE  Extends(s, t)
PROOF
<1>1. Grows(s, t)
  BY DEF Grows
<1>2. TransactionsAllowed(t) /\ CodesHaveTransactions(t)
  BY SameCodes
<1>3. GrantsHaveCodes(t) /\ CodesCounted(t) /\ GrantsCounted(t)
  BY DEF Sound, GrantsHaveCodes, CodesCounted, GrantsCounted
<1>4. TokensHaveGrants(t)
  <2>1. \A k \in Tokens : t.accessTokens[k] # None =>
          LET access == t.accessTokens[k]
              grant  == t.grants[access.grant]
          IN /\ grant # None
             /\ access.client = grant.client
             /\ access.scopes \subseteq t.transactions[grant.flow].scopes
    BY DEF Sound, TokensHaveGrants
  <2> QED
    BY <2>1 DEF TokensHaveGrants
<1>5. TokensCapped(t)
  BY DEF Sound, TokensCapped
<1> QED
  BY <1>1, <1>2, <1>3, <1>4, <1>5 DEF Sound, Extends

\* What a sound store says of its refresh tokens.
LEMMA RefreshFacts ==
  ASSUME NEW s \in Store, Sound(s), NEW k \in Tokens, s.refreshTokens[k] # None
  PROVE  /\ s.refreshTokens[k] \in RefreshRecord
         /\ s.accessTokens[k] # None
         /\ s.accessTokens[k].grant = s.refreshTokens[k].grant
         /\ LET end == s.grants[s.refreshTokens[k].grant].upstreamAccessExpiresAt IN
            end # Never => s.refreshTokens[k].expiresAt <= end
PROOF
<1>1. s.refreshTokens[k] \in RefreshRecord
  BY DEF Store
<1>2. s.accessTokens[k] # None /\ s.accessTokens[k].grant = s.refreshTokens[k].grant
  BY DEF Sound, TokensHaveGrants
<1> QED
  BY <1>1, <1>2 DEF Sound, TokensCapped

\* A refresh token is stored or activated when its grant has at most one other active.
LEMMA RefreshExtends ==
  ASSUME NEW s \in Store, Sound(s), NEW k \in Tokens, NEW rec \in RefreshRecord,
         s.refreshTokens[k] # None => rec.grant = s.refreshTokens[k].grant,
         s.accessTokens[k] # None,
         s.accessTokens[k].grant = rec.grant,
         s.grants[rec.grant].upstreamAccessExpiresAt # Never =>
           rec.expiresAt <= s.grants[rec.grant].upstreamAccessExpiresAt,
         NEW a \in Tokens \cup {None}, ActiveTokens(s, rec.grant) \subseteq {a, k}
  PROVE  /\ Extends(s, SaveRefreshToken(s, k, rec))
         /\ ActiveTokens(SaveRefreshToken(s, k, rec), rec.grant) \subseteq {a, k}
PROOF
<1> DEFINE t == SaveRefreshToken(s, k, rec)
<1>1. t \in Store
  BY SavesKeepStore
<1>2. /\ t.registeredClients = s.registeredClients
      /\ t.pendingStates = s.pendingStates
      /\ t.transactions = s.transactions
      /\ t.authorizationCodes = s.authorizationCodes
      /\ t.grants = s.grants
      /\ t.accessTokens = s.accessTokens
      /\ \A u \in Tokens : t.refreshTokens[u] = IF u = k THEN rec ELSE s.refreshTokens[u]
  BY DEF SaveRefreshToken, Store
<1> HIDE DEF t
<1>3. rec # None
  BY NoneAssumption
<1>4. \A u \in Tokens : s.refreshTokens[u] # None =>
        /\ t.refreshTokens[u] # None
        /\ t.refreshTokens[u].grant = s.refreshTokens[u].grant
  BY <1>2, <1>3
<1>5. ASSUME NEW u \in Tokens, t.refreshTokens[u] # None
      PROVE  /\ t.accessTokens[u] # None
             /\ t.accessTokens[u].grant = t.refreshTokens[u].grant
             /\ LET end == t.grants[t.refreshTokens[u].grant].upstreamAccessExpiresAt IN
                end # Never => t.refreshTokens[u].expiresAt <= end
  <2>1. CASE u = k
    BY <2>1, <1>2
  <2>2. CASE u # k
    BY <2>2, <1>2, <1>5, RefreshFacts
  <2> QED
    BY <2>1, <2>2
<1>6. ActiveTokens(t, rec.grant) \subseteq {a, k}
  BY <1>2 DEF ActiveTokens, StoredTokens
<1>7. \A g : g # rec.grant => ActiveTokens(t, g) \subseteq ActiveTokens(s, g)
  BY <1>2 DEF ActiveTokens, StoredTokens
<1>8. TwoActive(t)
  <2> SUFFICES ASSUME NEW g \in Grants
               PROVE  \E b, c \in Tokens \cup {None} : ActiveTokens(t, g) \subseteq {b, c}
    BY DEF TwoActive
  <2>1. CASE g = rec.grant
    BY <2>1, <1>6
  <2>2. CASE g # rec.grant
    <3>1. PICK b \in Tokens \cup {None}, c \in Tokens \cup {None} :
            ActiveTokens(s, g) \subseteq {b, c}
      BY DEF Sound, TwoActive
    <3> QED
      BY <2>2, <3>1, <1>7
  <2> QED
    BY <2>1, <2>2
<1>9. Extends(s, t)
  BY <1>1, <1>2, <1>4, <1>5, <1>8, RefreshTokensExtend
<1> QED
  BY <1>6, <1>9 DEF t

\* Retiring leaves at most one active refresh token to the grant.
LEMMA RetireExtends ==
  ASSUME NEW s \in Store, Sound(s), NEW g \in Grants, NEW keep \in Tokens
  PROVE  /\ Extends(s, RetireOtherRefreshTokens(s, g, keep))
         /\ ActiveTokens(RetireOtherRefreshTokens(s, g, keep), g) \subseteq {keep}
PROOF
<1> DEFINE t == RetireOtherRefreshTokens(s, g, keep)
           Retired(u) == /\ s.refreshTokens[u] # None
                         /\ s.refreshTokens[u].grant = g
                         /\ u # keep
<1>1. t \in Store
  BY UpdatesKeepStore
<1>2. /\ t.registeredClients = s.registeredClients
      /\ t.pendingStates = s.pendingStates
      /\ t.transactions = s.transactions
      /\ t.authorizationCodes = s.authorizationCodes
      /\ t.grants = s.grants
      /\ t.accessTokens = s.accessTokens
      /\ \A u \in Tokens :
           t.refreshTokens[u] = IF Retired(u)
                                THEN [s.refreshTokens[u] EXCEPT !.active = FALSE]
                                ELSE s.refreshTokens[u]
  BY DEF RetireOtherRefreshTokens, Store
<1> HIDE DEF t
<1>3. \A u \in Tokens : s.refreshTokens[u] # None =>
        LET rec == [s.refreshTokens[u] EXCEPT !.active = FALSE] IN
        /\ rec # None
        /\ rec.grant = s.refreshTokens[u].grant
        /\ rec.expiresAt = s.refreshTokens[u].expiresAt
        /\ rec.active = FALSE
  <2> SUFFICES ASSUME NEW u \in Tokens, s.refreshTokens[u] # None
               PROVE  LET rec == [s.refreshTokens[u] EXCEPT !.active = FALSE] IN
                      /\ rec # None
                      /\ rec.grant = s.refreshTokens[u].grant
                      /\ rec.expiresAt = s.refreshTokens[u].expiresAt
                      /\ rec.active = FALSE
    OBVIOUS
  <2>1. s.refreshTokens[u] \in RefreshRecord
    BY DEF Store
  <2>2. [s.refreshTokens[u] EXCEPT !.active = FALSE] \in RefreshRecord
    BY <2>1 DEF RefreshRecord
  <2> QED
    BY <2>1, <2>2, NoneAssumption DEF RefreshRecord
<1>4. \A u \in Tokens : s.refreshTokens[u] # None =>
        /\ t.refreshTokens[u] # None
        /\ t.refreshTokens[u].grant = s.refreshTokens[u].grant
        /\ t.refreshTokens[u].expiresAt = s.refreshTokens[u].expiresAt
        /\ t.refreshTokens[u].active => s.refreshTokens[u].active /\ ~Retired(u)
  BY <1>2, <1>3
<1>5. \A u \in Tokens : t.refreshTokens[u] # None => s.refreshTokens[u] # None
  BY <1>2
<1>6. ASSUME NEW u \in Tokens, t.refreshTokens[u] # None
      PROVE  /\ t.accessTokens[u] # None
             /\ t.accessTokens[u].grant = t.refreshTokens[u].grant
             /\ LET end == t.grants[t.refreshTokens[u].grant].upstreamAccessExpiresAt IN
                end # Never => t.refreshTokens[u].expiresAt <= end
  BY <1>2, <1>4, <1>5, <1>6, RefreshFacts
<1>7. \A h : ActiveTokens(t, h) \subseteq ActiveTokens(s, h)
  BY <1>4, <1>5 DEF ActiveTokens, StoredTokens
<1>8. ActiveTokens(t, g) \subseteq {keep}
  BY <1>4, <1>5 DEF ActiveTokens, StoredTokens
<1>9. TwoActive(t)
  <2> SUFFICES ASSUME NEW h \in Grants
               PROVE  \E b, c \in Tokens \cup {None} : ActiveTokens(t, h) \subseteq {b, c}
    BY DEF TwoActive
  <2>1. PICK b \in Tokens \cup {None}, c \in Tokens \cup {None} :
          ActiveTokens(s, h) \subseteq {b, c}
    BY DEF Sound, TwoActive
  <2> QED
    BY <2>1, <1>7
<1>10. Extends(s, t)
  <2>1. \A u \in Tokens : s.refreshTokens[u] # None =>
          /\ t.refreshTokens[u] # None
          /\ t.refreshTokens[u].grant = s.refreshTokens[u].grant
    BY <1>4
  <2> QED
    BY <2>1, <1>1, <1>2, <1>6, <1>9, RefreshTokensExtend
<1> QED
  BY <1>8, <1>10 DEF t

-----------------------------------------------------------------------------
\* A turn of the server.

\* Growth and sound steps one after the other.
LEMMA ExtendsTransitive ==
  ASSUME NEW s, NEW t, NEW u, Extends(s, t), Extends(t, u)
  PROVE  Extends(s, u)
PROOF
  BY GrowsTransitive DEF Extends

\* A request at rest relies on nothing.
LEMMA IdleIsSupported == \A s, time : Supported(s, Idle, time)
PROOF
  BY DEF Idle, Supported

\* What was answered stays on a file that grows.
LEMMA DeliveredStays ==
  ASSUME RecordsInv, Grows(disk, disk')
  PROVE  \A k \in delivered : disk'.accessTokens[k] # None /\ disk'.refreshTokens[k] # None
PROOF
<1>1. delivered \subseteq Tokens
  BY DEF RecordsInv, Inv, TypeOK
<1> QED
  BY <1>1 DEF RecordsInv, DeliveredIsDurable, Grows

\* Requests rely on nothing that a growing memory takes away.
LEMMA OthersStaySupported ==
  ASSUME RecordsInv, NEW t \in Store, Grows(mem, t)
  PROVE  \A q \in Requests : Supported(t, requests[q], now)
PROOF
<1>1. /\ mem \in Store
      /\ \A q \in Requests : Grounded(mem, requests[q]) /\ requests[q] \in RequestStates
  BY DEF RecordsInv, Inv, TypeOK
<1> QED
  BY <1>1, GrowthSupports DEF RecordsInv

\* However a turn ends, when each of its writes is a sound step, the file grows and
\* is not ahead of the memory.
LEMMA TurnKeepsRecords ==
  ASSUME RecordsInv, Inv', NEW r \in Requests, NEW writes, Len(writes) \in Nat \ {0},
         \A i \in 1 .. Len(writes) : Extends(mem, writes[i]),
         \A i \in 2 .. Len(writes) : Extends(writes[i - 1], writes[i]),
         NEW next, Supported(writes[Len(writes)], next, now),
         NEW answered \in SUBSET Tokens,
         \A k \in answered :
           /\ writes[Len(writes)].accessTokens[k] # None
           /\ writes[Len(writes)].refreshTokens[k] # None,
         Turn(r, writes, next, answered),
         now' = now
  PROVE  RecordsInv' /\ Grows(disk, disk')
PROOF
<1>1. Len(writes) \in 1 .. Len(writes)
  OBVIOUS
<1>2. \A i \in 1 .. Len(writes) :
        Sound(writes[i]) /\ Grows(disk, writes[i]) /\ Grows(mem, writes[i]) /\ writes[i] \in Store
  BY GrowsTransitive DEF Extends, RecordsInv
<1>3. /\ requests \in [Requests -> RequestStates]
      /\ delivered \subseteq Tokens
      /\ Sound(disk)
      /\ Grows(disk, disk)
  BY GrowsReflexive DEF RecordsInv, Inv, TypeOK
<1>4. CASE Completes(r, writes, next) /\ delivered' = delivered \cup answered
  <2>1. mem' = writes[Len(writes)] /\ disk' = mem' /\ requests' = [requests EXCEPT ![r] = next]
    BY <1>4 DEF Completes
  <2>2. Sound(mem') /\ Sound(disk') /\ Grows(disk, disk') /\ Grows(disk', mem')
    BY <1>1, <1>2, <2>1, GrowsReflexive
  <2>3. \A q \in Requests : Supported(mem', requests'[q], now')
    <3>1. \A q \in Requests : Supported(mem', requests[q], now)
      BY <1>1, <1>2, <2>1, OthersStaySupported
    <3> QED
      BY <3>1, <2>1, <1>3
  <2>4. DeliveredIsDurable'
    BY <1>4, <2>1, <2>2, DeliveredStays DEF DeliveredIsDurable
  <2> QED
    BY <2>2, <2>3, <2>4 DEF RecordsInv
<1>5. CASE PersistThrows(r, writes) /\ UNCHANGED delivered
  <2>1. PICK k \in 1 .. Len(writes) :
          /\ mem' = writes[k]
          /\ disk' = IF k = 1 THEN disk ELSE writes[k - 1]
    BY <1>5 DEF PersistThrows
  <2>2. requests' = [requests EXCEPT ![r] = Idle]
    BY <1>5 DEF PersistThrows
  <2>3. Sound(mem') /\ Sound(disk') /\ Grows(disk, disk') /\ Grows(disk', mem')
    <3>1. CASE k = 1
      BY <3>1, <2>1, <1>2, <1>3
    <3>2. CASE k # 1
      <4>1. k \in 2 .. Len(writes) /\ k - 1 \in 1 .. Len(writes)
        BY <3>2
      <4> QED
        BY <3>2, <4>1, <2>1, <1>2 DEF Extends
    <3> QED
      BY <3>1, <3>2
  <2>4. \A q \in Requests : Supported(mem', requests'[q], now')
    <3>1. \A q \in Requests : Supported(mem', requests[q], now)
      BY <1>2, <2>1, OthersStaySupported
    <3> QED
      BY <3>1, <2>2, <1>3, IdleIsSupported
  <2>5. DeliveredIsDurable'
    BY <1>5, <2>3, DeliveredStays DEF DeliveredIsDurable
  <2> QED
    BY <2>3, <2>4, <2>5 DEF RecordsInv
<1>6. CASE DiesAfterWrite(writes) /\ UNCHANGED delivered
  <2>1. PICK k \in 1 .. Len(writes) : mem' = writes[k] /\ disk' = writes[k]
    BY <1>6 DEF DiesAfterWrite
  <2>2. requests' = [q \in Requests |-> Idle]
    BY <1>6 DEF DiesAfterWrite
  <2>3. Sound(mem') /\ Sound(disk') /\ Grows(disk, disk') /\ Grows(disk', mem')
    BY <2>1, <1>2, GrowsReflexive
  <2>4. \A q \in Requests : Supported(mem', requests'[q], now')
    BY <2>2, IdleIsSupported
  <2>5. DeliveredIsDurable'
    BY <1>6, <2>3, DeliveredStays DEF DeliveredIsDurable
  <2> QED
    BY <2>3, <2>4, <2>5 DEF RecordsInv
<1> QED
  BY <1>4, <1>5, <1>6 DEF Turn

\* A step that leaves the stores alone and lets one request wait for something new.
LEMMA WaitKeepsRecords ==
  ASSUME RecordsInv, Inv', NEW r \in Requests, NEW next, Supported(mem, next, now),
         requests' = [requests EXCEPT ![r] = next],
         UNCHANGED <<now, mem, disk, delivered>>
  PROVE  RecordsInv' /\ Grows(disk, disk')
PROOF
<1>1. requests \in [Requests -> RequestStates]
  BY DEF RecordsInv, Inv, TypeOK
<1>2. \A q \in Requests : Supported(mem', requests'[q], now')
  BY <1>1 DEF RecordsInv
<1> QED
  BY <1>2, GrowsReflexive DEF RecordsInv, DeliveredIsDurable

\* A turn of one write.
LEMMA OneWriteKeepsRecords ==
  ASSUME RecordsInv, Inv', NEW r \in Requests, NEW s, Extends(mem, s),
         NEW next, Supported(s, next, now), Turn(r, <<s>>, next, {}), now' = now
  PROVE  RecordsInv' /\ Grows(disk, disk')
PROOF
<1> DEFINE ws == <<s>>
<1>1. Len(ws) = 1 /\ ws[1] = s
  OBVIOUS
<1>2. Turn(r, ws, next, {})
  OBVIOUS
<1> HIDE DEF ws
<1>3. Len(ws) \in Nat \ {0}
  BY <1>1
<1>4. /\ \A i \in 1 .. Len(ws) : Extends(mem, ws[i])
      /\ \A i \in 2 .. Len(ws) : Extends(ws[i - 1], ws[i])
  BY <1>1
<1>5. /\ Supported(ws[Len(ws)], next, now)
      /\ {} \in SUBSET Tokens
      /\ \A k \in {} : /\ ws[Len(ws)].accessTokens[k] # None
                       /\ ws[Len(ws)].refreshTokens[k] # None
  BY <1>1
<1> QED
  BY <1>2, <1>3, <1>4, <1>5, TurnKeepsRecords

\* Reading the invariant: the memory is typed and sound.
LEMMA RecordsFacts ==
  ASSUME RecordsInv
  PROVE  /\ Inv
         /\ mem \in Store
         /\ Sound(mem)
         /\ now \in Nat
         /\ \A r \in Requests :
              /\ requests[r] \in RequestStates
              /\ Grounded(mem, requests[r])
              /\ Supported(mem, requests[r], now)
PROOF
  BY DEF RecordsInv, Inv, TypeOK

-----------------------------------------------------------------------------
\* Every action keeps the records.

\* Registering a client takes nothing back.
LEMMA RegisterClientKeepsRecords ==
  ASSUME RecordsInv, NEW r \in Requests, NEW c \in Clients, RegisterClient(r, c)
  PROVE  RecordsInv' /\ Grows(disk, disk')
PROOF
<1>1. Inv'
  BY RecordsFacts, RegisterClientKeepsInv
<1>2. Extends(mem, SaveRegisteredClient(mem, c))
  BY RecordsFacts, ClientExtends
<1>3. Turn(r, <<SaveRegisteredClient(mem, c)>>, Idle, {}) /\ now' = now
  BY DEF RegisterClient
<1> QED
  BY <1>1, <1>2, <1>3, IdleIsSupported, OneWriteKeepsRecords

\* A flow starts with a state and a transaction of a known client, whose scopes are
\* allowed to it.
LEMMA StartAuthorizationKeepsRecords ==
  ASSUME RecordsInv, NEW r \in Requests, NEW f \in Flows, NEW c \in Clients,
         NEW requested \in SUBSET Scopes, StartAuthorization(r, f, c, requested)
  PROVE  RecordsInv' /\ Grows(disk, disk')
PROOF
<1> DEFINE rec == [client |-> c, scopes |-> ResolveScopes(requested, ScopesOf[c])]
           s1  == SavePendingState(mem, f, PendingState)
           s2  == SaveTransaction(s1, f, rec)
           ws  == <<s1, s2>>
<1>1. Inv'
  BY RecordsFacts, StartAuthorizationKeepsInv
<1>2. Turn(r, ws, Idle, {}) /\ now' = now
  BY DEF StartAuthorization
<1>3. /\ mem.pendingStates[f] = None
      /\ mem.transactions[f] = None
      /\ c \in KnownClients(mem)
      /\ requested \subseteq ScopesOf[c]
  BY DEF StartAuthorization
<1>4. PendingState \in PendingRecord
  BY RecordsFacts, ClockFacts, ProductInNat DEF PendingState, PendingRecord
<1>5. /\ rec \in TransactionRecord
      /\ rec.client = c
      /\ rec.scopes \subseteq ScopesOf[c]
  BY <1>3, ScopesAssumption DEF ResolveScopes, TransactionRecord
<1>6. /\ s1.transactions = mem.transactions
      /\ s1.registeredClients = mem.registeredClients
  BY RecordsFacts DEF SavePendingState, Store
<1> HIDE DEF rec
<1>7. Extends(mem, s1)
  BY <1>3, <1>4, RecordsFacts, StateExtends
<1> HIDE DEF s1
<1>8. Extends(s1, s2)
  <2>1. s1.transactions[f] = None
    BY <1>3, <1>6
  <2>2. rec.client \in KnownClients(s1) /\ rec.scopes \subseteq ScopesOf[rec.client]
    BY <1>3, <1>5, <1>6 DEF KnownClients
  <2> QED
    BY <1>5, <1>7, <2>1, <2>2, TransactionExtends DEF Extends
<1> HIDE DEF s2
<1>9. Len(ws) = 2 /\ ws[1] = s1 /\ ws[2] = s2
  OBVIOUS
<1> HIDE DEF ws
<1>10. Len(ws) \in Nat \ {0}
  BY <1>9
<1>11. /\ \A i \in 1 .. Len(ws) : Extends(mem, ws[i])
       /\ \A i \in 2 .. Len(ws) : Extends(ws[i - 1], ws[i])
  BY <1>7, <1>8, <1>9, ExtendsTransitive
<1>12. /\ Supported(ws[Len(ws)], Idle, now)
       /\ {} \in SUBSET Tokens
       /\ \A k \in {} : /\ ws[Len(ws)].accessTokens[k] # None
                        /\ ws[Len(ws)].refreshTokens[k] # None
  BY IdleIsSupported
<1> QED
  BY <1>1, <1>2, <1>10, <1>11, <1>12, TurnKeepsRecords

\* The callback consumes the state of the flow.
LEMMA HandleCallbackKeepsRecords ==
  ASSUME RecordsInv, NEW r \in Requests, NEW f \in Flows, NEW hasCode \in BOOLEAN,
         HandleCallback(r, f, hasCode)
  PROVE  RecordsInv' /\ Grows(disk, disk')
PROOF
<1> DEFINE rec  == [mem.pendingStates[f] EXCEPT !.used = TRUE]
           s1   == MarkStateUsed(mem, f)
           next == IF hasCode /\ mem.transactions[f] # None
                   THEN [at |-> "callback", flow |-> f] ELSE Idle
<1>1. Inv'
  BY RecordsFacts, HandleCallbackKeepsInv
<1>2. Turn(r, <<s1>>, next, {}) /\ now' = now
  BY DEF HandleCallback
<1>3. mem.pendingStates[f] \in PendingRecord
  BY RecordsFacts DEF HandleCallback, StateAccepted, Store
<1>4. rec \in PendingRecord /\ rec.used
  BY <1>3 DEF PendingRecord
<1>5. s1 = SavePendingState(mem, f, rec)
  BY RecordsFacts DEF MarkStateUsed, SavePendingState, Store
<1> HIDE DEF rec
<1>6. Extends(mem, s1)
  BY <1>4, <1>5, RecordsFacts, StateExtends
<1> HIDE DEF s1
<1>7. Supported(s1, next, now)
  BY IdleIsSupported DEF Supported
<1> HIDE DEF next
<1> QED
  BY <1>1, <1>2, <1>6, <1>7, OneWriteKeepsRecords

\* The code carries the client and the scopes of its transaction, and lives as long
\* after its issue as the upstream token at its end is counted from it.
LEMMA IssueAuthorizationCodeKeepsRecords ==
  ASSUME RecordsInv, NEW r \in Requests, NEW c \in Codes, NEW up \in FirstUpstreamTokens,
         IssueAuthorizationCode(r, c, up)
  PROVE  RecordsInv' /\ Grows(disk, disk')
PROOF
<1> DEFINE f   == requests[r].flow
           rec == AuthorizationCode(f, up)
           s1  == SaveAuthorizationCode(mem, c, rec)
<1>1. Inv'
  BY RecordsFacts, IssueAuthorizationCodeKeepsInv
<1>2. /\ requests[r].at = "callback"
      /\ mem.authorizationCodes[c] = None
      /\ Turn(r, <<s1>>, Idle, {})
      /\ now' = now
  BY DEF IssueAuthorizationCode
<1>3. f \in Flows
  BY <1>2, RecordsFacts, RequestKinds DEF AwaitingCallback
<1>4. /\ mem.transactions[f] # None
      /\ mem.pendingStates[f] # None
      /\ mem.pendingStates[f].used
  BY <1>2, RecordsFacts DEF Grounded
<1>5. up \in UpstreamTokens
  BY ClockFacts DEF FirstUpstreamTokens, UpstreamTokens, Never
<1>6. UpstreamAccessTokenTtl(up) \in Nat
  BY <1>5 DEF UpstreamAccessTokenTtl, UpstreamTokens, Never
<1>7. AuthCodeTtl * Second \in Nat /\ UpstreamAccessTokenTtl(up) * Second \in Nat
  BY <1>6, ClockFacts, ProductInNat
<1>8. rec \in CodeRecord
  <2>1. mem.transactions[f] \in TransactionRecord
    BY <1>3, <1>4, RecordsFacts DEF Store
  <2>2. UpstreamAccessTokenExpiresAt(up) \in Nat
    BY <1>5, RecordsFacts, UpstreamEnd
  <2>3. now + AuthCodeTtl * Second \in Nat
    BY <1>7, RecordsFacts
  <2> QED
    BY <1>3, <1>5, <2>1, <2>2, <2>3 DEF AuthorizationCode, CodeRecord, TransactionRecord
<1>9. /\ rec.flow = f
      /\ rec.client = mem.transactions[f].client
      /\ rec.scopes = mem.transactions[f].scopes
      /\ rec.upstream = up
      /\ rec.expiresAt = now + AuthCodeTtl * Second
      /\ rec.upstreamEnd = UpstreamAccessTokenExpiresAt(up)
  BY DEF AuthorizationCode
<1> HIDE DEF rec
<1>10. UpstreamAccessTokenTtl(rec.upstream) # Never =>
         rec.upstreamEnd + CodeLife
           = rec.expiresAt + UpstreamAccessTokenTtl(rec.upstream) * Second
  <2> HAVE UpstreamAccessTokenTtl(rec.upstream) # Never
  <2>1. rec.upstreamEnd = now + UpstreamAccessTokenTtl(up) * Second
    BY <1>9 DEF UpstreamAccessTokenExpiresAt
  <2> DEFINE a == AuthCodeTtl * Second
             b == UpstreamAccessTokenTtl(up) * Second
  <2>2. a \in Nat /\ b \in Nat /\ now \in Nat
    BY <1>7, RecordsFacts
  <2>3. /\ rec.upstreamEnd = now + b
        /\ rec.expiresAt = now + a
        /\ CodeLife = a
        /\ UpstreamAccessTokenTtl(rec.upstream) * Second = b
    BY <1>9, <2>1 DEF CodeLife
  <2> HIDE DEF a, b
  <2> QED
    BY <2>2, <2>3
<1>11. Extends(mem, s1)
  BY <1>2, <1>4, <1>8, <1>9, <1>10, RecordsFacts, CodeExtends
<1> HIDE DEF s1
<1> QED
  BY <1>1, <1>2, <1>11, IdleIsSupported, OneWriteKeepsRecords

\* Whole units fit into what they are counted from.
LEMMA QuotientFits ==
  ASSUME NEW a \in Nat, NEW b \in Nat \ {0}, NEW n \in Nat, n <= a \div b
  PROVE  n * b <= a
PROOF
<1>1. a \div b \in Nat /\ (a \div b) * b <= a
  BY Z3
<1>2. n * b <= (a \div b) * b
  BY <1>1, Z3
<1>3. n * b \in Nat /\ (a \div b) * b \in Nat
  BY <1>1, ProductInNat
<1> QED
  BY <1>1, <1>2, <1>3

\* A local lifetime ends with the upstream access token at the latest.
LEMMA CappedTtlFits ==
  ASSUME Inv, NEW default \in Nat, NEW up, NEW end \in Nat, end # Never, end >= now
  PROVE  now + CappedTtl(default, up, end) * Second <= end
PROOF
<1> DEFINE left == end - now
           ttl  == CappedTtl(default, up, end)
<1>1. left \in Nat /\ now \in Nat
  BY InvFacts
<1>2. ttl = MinOf(default, left \div Second)
  BY DEF CappedTtl
<1>3. left \div Second \in Nat
  BY <1>1, ClockFacts, QuotientInNat
<1> HIDE DEF ttl
<1>4. ttl \in Nat /\ ttl <= left \div Second
  BY <1>2, <1>3 DEF MinOf
<1>5. ttl * Second <= left /\ ttl * Second \in Nat
  BY <1>1, <1>4, ClockFacts, ProductInNat, QuotientFits
<1> QED
  BY <1>1, <1>5 DEF ttl

\* Only an upstream token without a refresh token gives an end.
LEMMA EndsWithoutRefreshToken ==
  ASSUME NEW up, up.refreshToken # Never
  PROVE  UpstreamAccessTokenExpiresAt(up) = Never
PROOF
  BY DEF UpstreamAccessTokenExpiresAt, UpstreamAccessTokenTtl

\* The code is redeemed while it lives, so the end of the grant lies less than the
\* life of a code after that of the upstream token, and the lifetimes within it.
LEMMA RedeemCodeKeepsRecords ==
  ASSUME RecordsInv, NEW r \in Requests, NEW c \in Codes, NEW client \in Clients,
         RedeemCode(r, c, client)
  PROVE  RecordsInv' /\ Grows(disk, disk')
PROOF
<1> DEFINE code == mem.authorizationCodes[c]
           rec  == [code EXCEPT !.used = TRUE]
           up   == code.upstream
           end  == UpstreamAccessTokenExpiresAt(up)
           next == [at |-> "issue", code |-> c, upstreamAccessExpiresAt |-> end,
                    accessTtl  |-> CappedTtl(AccessTokenTtl, up, end),
                    refreshTtl |-> CappedTtl(RefreshTokenTtl, up, end)]
           s1   == MarkCodeUsed(mem, c)
<1>1. Inv'
  BY RecordsFacts, RedeemCodeKeepsInv
<1>2. Turn(r, <<s1>>, next, {}) /\ now' = now
  BY DEF RedeemCode
<1>3. code # None /\ code.expiresAt > now
  BY DEF RedeemCode, CodeAccepted
<1>4. code \in CodeRecord /\ up \in UpstreamTokens
  BY <1>3, RecordsFacts DEF Store, CodeRecord
<1>5. /\ rec \in CodeRecord
      /\ rec.used
      /\ rec.flow = code.flow
      /\ rec.client = code.client
      /\ rec.scopes = code.scopes
      /\ rec.upstream = up
      /\ rec.upstreamEnd = code.upstreamEnd
      /\ rec.expiresAt = code.expiresAt
  BY <1>4 DEF CodeRecord
<1>6. s1 = SaveAuthorizationCode(mem, c, rec)
  BY RecordsFacts DEF MarkCodeUsed, SaveAuthorizationCode, Store
<1>7. s1.authorizationCodes[c] = rec
  BY <1>6, RecordsFacts DEF SaveAuthorizationCode, Store
<1>8. /\ mem.pendingStates[code.flow] # None
      /\ mem.pendingStates[code.flow].used
      /\ mem.transactions[code.flow] # None
      /\ mem.transactions[code.flow].client = code.client
      /\ mem.transactions[code.flow].scopes = code.scopes
  BY <1>3, RecordsFacts DEF Sound, CodesHaveTransactions
<1>9. UpstreamAccessTokenTtl(up) # Never =>
        code.upstreamEnd + CodeLife = code.expiresAt + UpstreamAccessTokenTtl(up) * Second
  BY <1>3, RecordsFacts DEF Sound, CodesCounted
<1>10. end \in Nat /\ (end = Never \/ end >= now)
  BY <1>4, RecordsFacts, UpstreamEnd
<1>11. next.at = "issue" /\ next.code = c /\ next.upstreamAccessExpiresAt = end
  OBVIOUS
<1>12. EndsInTime(next, end, now)
  <2>1. end # Never =>
          /\ now + CappedTtl(AccessTokenTtl, up, end) * Second <= end
          /\ now + CappedTtl(RefreshTokenTtl, up, end) * Second <= end
    BY <1>10, RecordsFacts, ClockFacts, CappedTtlFits
  <2> QED
    BY <2>1 DEF EndsInTime
<1>13. end # Never => end < code.upstreamEnd + CodeLife
  <2> HAVE end # Never
  <2> DEFINE ttl == UpstreamAccessTokenTtl(up)
  <2>1. ttl # Never /\ end = now + ttl * Second
    BY DEF UpstreamAccessTokenExpiresAt
  <2>2. ttl \in Nat
    BY <1>4 DEF UpstreamAccessTokenTtl, UpstreamTokens, Never
  <2>3. ttl * Second \in Nat
    BY <2>2, ClockFacts, ProductInNat
  <2>4. /\ code.upstreamEnd + CodeLife = code.expiresAt + ttl * Second
        /\ code.expiresAt \in Nat /\ now \in Nat
    BY <1>4, <1>9, <2>1, RecordsFacts DEF CodeRecord
  <2> HIDE DEF ttl, end, code
  <2> QED
    BY <1>3, <2>1, <2>3, <2>4
<1>14. up.refreshToken # Never => end = Never
  BY EndsWithoutRefreshToken
<1> HIDE DEF next, rec, s1
<1>15. Extends(mem, s1)
  <2>1. UpstreamAccessTokenTtl(rec.upstream) # Never =>
          rec.upstreamEnd + CodeLife
            = rec.expiresAt + UpstreamAccessTokenTtl(rec.upstream) * Second
    BY <1>5, <1>9
  <2> QED
    BY <1>5, <1>6, <1>8, <2>1, RecordsFacts, CodeExtends
<1>16. Supported(s1, next, now)
  BY <1>5, <1>7, <1>11, <1>12, <1>13, <1>14 DEF Supported
<1> QED
  BY <1>1, <1>2, <1>15, <1>16, OneWriteKeepsRecords

\* What a sound store says of a grant that is not there: it has no refresh tokens.
LEMMA NoGrantNoTokens ==
  ASSUME NEW s \in Store, Sound(s), NEW g \in Grants, s.grants[g] = None
  PROVE  ActiveTokens(s, g) = {}
PROOF
<1> SUFFICES ASSUME NEW k \in Tokens, s.refreshTokens[k] # None, s.refreshTokens[k].grant = g
             PROVE  FALSE
  BY DEF ActiveTokens, StoredTokens
<1>1. s.accessTokens[k] # None /\ s.accessTokens[k].grant = g
  BY RefreshFacts
<1>2. TokensHaveGrants(s)
  BY DEF Sound
<1> QED
  BY <1>1, <1>2, TokensBelong

\* The grant takes client and scopes from its code and the end its request was
\* given, and the two tokens do not outlive that.
LEMMA IssueTokensKeepsRecords ==
  ASSUME RecordsInv, NEW r \in Requests, NEW g \in Grants, NEW k \in Tokens,
         IssueTokens(r, g, k)
  PROVE  RecordsInv' /\ Grows(disk, disk')
PROOF
<1> DEFINE req  == requests[r]
           code == mem.authorizationCodes[req.code]
           end  == req.upstreamAccessExpiresAt
           rec1 == [client |-> code.client, scopes |-> code.scopes,
                    flow |-> code.flow, upstream |-> code.upstream,
                    upstreamAccessExpiresAt |-> req.upstreamAccessExpiresAt,
                    upstreamEnd |-> code.upstreamEnd]
           rec2 == [grant |-> g, client |-> code.client, scopes |-> code.scopes,
                    expiresAt |-> now + req.accessTtl * Second]
           rec3 == [grant |-> g, active |-> TRUE,
                    expiresAt |-> now + req.refreshTtl * Second, parent |-> None]
           s1   == SaveGrant(mem, g, rec1)
           s2   == SaveAccessToken(s1, k, rec2)
           s3   == SaveRefreshToken(s2, k, rec3)
           ws   == <<s1, s2, s3>>
<1>1. Inv'
  BY RecordsFacts, IssueTokensKeepsInv
<1>2. /\ req.at = "issue"
      /\ mem.grants[g] = None
      /\ mem.accessTokens[k] = None
      /\ mem.refreshTokens[k] = None
      /\ Turn(r, ws, Idle, {k})
      /\ now' = now
  BY DEF IssueTokens
<1>3. req \in AwaitingIssue
  BY <1>2, RecordsFacts, RequestKinds
<1>4. /\ req.code \in Codes
      /\ code # None
      /\ code.used
  BY <1>2, <1>3, RecordsFacts DEF Grounded, AwaitingIssue
<1>5. code \in CodeRecord
  BY <1>4, RecordsFacts DEF Store
<1>6. /\ code.upstream.refreshToken # Never => end = Never
      /\ end # Never => end < code.upstreamEnd + CodeLife
      /\ EndsInTime(req, end, now)
  BY <1>2, RecordsFacts DEF Supported
<1>7. /\ mem.transactions[code.flow] # None
      /\ mem.transactions[code.flow].scopes = code.scopes
  BY <1>4, RecordsFacts DEF Sound, CodesHaveTransactions
<1>8. rec1 \in GrantRecord /\ rec2 \in AccessRecord /\ rec3 \in RefreshRecord
  <2>1. rec1 \in GrantRecord
    BY <1>3, <1>5 DEF CodeRecord, GrantRecord, AwaitingIssue
  <2>2. now + req.accessTtl * Second \in Nat /\ now + req.refreshTtl * Second \in Nat
    <3>1. req.accessTtl * Second \in Nat /\ req.refreshTtl * Second \in Nat
      BY <1>3, ClockFacts, ProductInNat DEF AwaitingIssue
    <3>2. now \in Nat
      BY RecordsFacts
    <3> HIDE DEF req
    <3> QED
      BY <3>1, <3>2
  <2>3. rec2 \in AccessRecord
    BY <1>5, <2>2 DEF CodeRecord, AccessRecord
  <2>4. rec3 \in RefreshRecord
    BY <2>2 DEF RefreshRecord
  <2> QED
    BY <2>1, <2>3, <2>4
<1>9. /\ rec1.client = code.client
      /\ rec1.scopes = code.scopes
      /\ rec1.flow = code.flow
      /\ rec1.upstream = code.upstream
      /\ rec1.upstreamAccessExpiresAt = end
      /\ rec1.upstreamEnd = code.upstreamEnd
      /\ rec2.grant = g
      /\ rec2.client = code.client
      /\ rec2.scopes = code.scopes
      /\ end # Never => rec2.expiresAt <= end
      /\ rec3.grant = g
      /\ end # Never => rec3.expiresAt <= end
  BY <1>6 DEF EndsInTime
<1> HIDE DEF rec1, rec2, rec3
<1>10. /\ s1.grants[g] = rec1
       /\ s1.transactions = mem.transactions
       /\ s1.accessTokens = mem.accessTokens
       /\ s1.refreshTokens = mem.refreshTokens
  BY RecordsFacts DEF SaveGrant, Store
<1>11. Extends(mem, s1)
  BY <1>2, <1>4, <1>6, <1>8, <1>9, RecordsFacts, GrantExtends
<1> HIDE DEF s1
<1>12. s1 \in Store /\ Sound(s1)
  BY <1>11 DEF Extends
<1>13. /\ s2.grants = s1.grants
       /\ s2.accessTokens[k] = rec2
       /\ s2.refreshTokens = s1.refreshTokens
  BY <1>12 DEF SaveAccessToken, Store
<1>14. Extends(s1, s2)
  <2>1. s1.grants[rec2.grant] = rec1 /\ rec1 # None
    BY <1>8, <1>9, <1>10, NoneAssumption
  <2> QED
    BY <1>2, <1>7, <1>8, <1>9, <1>10, <1>12, <2>1, AccessExtends
<1> HIDE DEF s2
<1>15. s2 \in Store /\ Sound(s2)
  BY <1>14 DEF Extends
<1>16. s3.accessTokens = s2.accessTokens /\ s3.refreshTokens[k] = rec3
  BY <1>15 DEF SaveRefreshToken, Store
<1>17. Extends(s2, s3)
  <2>1. ActiveTokens(s2, g) = ActiveTokens(mem, g)
    BY <1>10, <1>13 DEF ActiveTokens, StoredTokens
  <2>2. ActiveTokens(s2, rec3.grant) \subseteq {None, k}
    BY <1>2, <1>9, <2>1, RecordsFacts, NoGrantNoTokens
  <2>3. /\ s2.accessTokens[k] # None
        /\ s2.accessTokens[k].grant = rec3.grant
        /\ s2.grants[rec3.grant].upstreamAccessExpiresAt = end
        /\ s2.refreshTokens[k] = None
    BY <1>2, <1>8, <1>9, <1>10, <1>13, NoneAssumption
  <2> QED
    BY <1>8, <1>9, <1>15, <2>2, <2>3, RefreshExtends
<1> HIDE DEF s3
<1>18. Len(ws) = 3 /\ ws[1] = s1 /\ ws[2] = s2 /\ ws[3] = s3
  OBVIOUS
<1> HIDE DEF ws
<1>19. Len(ws) \in Nat \ {0}
  BY <1>18
<1>20. /\ \A i \in 1 .. Len(ws) : Extends(mem, ws[i])
       /\ \A i \in 2 .. Len(ws) : Extends(ws[i - 1], ws[i])
  <2>1. Extends(mem, s2) /\ Extends(mem, s3)
    BY <1>11, <1>14, <1>17, ExtendsTransitive
  <2> QED
    BY <1>11, <1>14, <1>17, <1>18, <2>1
<1>21. /\ Supported(ws[Len(ws)], Idle, now)
       /\ {k} \in SUBSET Tokens
       /\ \A u \in {k} : /\ ws[Len(ws)].accessTokens[u] # None
                         /\ ws[Len(ws)].refreshTokens[u] # None
  BY <1>8, <1>13, <1>16, <1>18, IdleIsSupported, NoneAssumption
<1> QED
  BY <1>1, <1>2, <1>19, <1>20, <1>21, TurnKeepsRecords

\* A rotation to come, whose lifetimes end with the upstream access token.
LEMMA RotationIsSupported ==
  ASSUME Inv, NEW k \in Tokens, NEW g \in Grants, NEW scopes, NEW up, NEW end \in Nat,
         mem.refreshTokens[k].grant = g,
         scopes \subseteq mem.transactions[mem.grants[g].flow].scopes,
         mem.grants[g].upstreamAccessExpiresAt = end,
         up.refreshToken # Never => end = Never,
         end = Never \/ end >= now
  PROVE  Supported(mem, Rotation(k, g, scopes, up, end), now)
PROOF
<1>1. end # Never =>
        /\ now + CappedTtl(AccessTokenTtl, up, end) * Second <= end
        /\ now + CappedTtl(RefreshTokenTtl, up, end) * Second <= end
  BY ClockFacts, CappedTtlFits
<1>2. EndsInTime(Rotation(k, g, scopes, up, end), end, now)
  BY <1>1 DEF EndsInTime, Rotation
<1>3. /\ Rotation(k, g, scopes, up, end).at = "rotation"
      /\ Rotation(k, g, scopes, up, end).token = k
      /\ Rotation(k, g, scopes, up, end).grant = g
      /\ Rotation(k, g, scopes, up, end).scopes = scopes
      /\ Rotation(k, g, scopes, up, end).upstream = up
      /\ Rotation(k, g, scopes, up, end).upstreamAccessExpiresAt = end
  BY DEF Rotation
<1> QED
  BY <1>2, <1>3 DEF Supported

\* A refresh starts on a token of its grant and asks for no new scope.
LEMMA StartRefreshKeepsRecords ==
  ASSUME RecordsInv, NEW r \in Requests, NEW k \in Tokens, NEW c \in Clients,
         NEW requested \in SUBSET Scopes, StartRefresh(r, k, c, requested)
  PROVE  RecordsInv' /\ Grows(disk, disk')
PROOF
<1> DEFINE id     == mem.refreshTokens[k].grant
           grant  == mem.grants[id]
           scopes == ResolveScopes(requested, grant.scopes)
           asks   == [at |-> "provider", token |-> k, grant |-> id,
                      scopes |-> scopes, sent |-> grant.upstream.refreshToken]
           turns  == Rotation(k, id, scopes, grant.upstream,
                              grant.upstreamAccessExpiresAt)
           next   == IF grant.upstream.refreshToken # Never THEN asks ELSE turns
<1>1. Inv'
  BY RecordsFacts, StartRefreshKeepsInv
<1>2. /\ mem.refreshTokens[k] # None
      /\ grant # None
      /\ requested \subseteq grant.scopes
      /\ \/ grant.upstream.refreshToken # Never
         \/ grant.upstreamAccessExpiresAt = Never
         \/ grant.upstreamAccessExpiresAt > now
      /\ requests' = [requests EXCEPT ![r] = next]
      /\ UNCHANGED <<now, mem, disk, delivered>>
  BY DEF StartRefresh, RefreshAccepted
<1>3. id \in Grants /\ grant \in GrantRecord /\ grant.upstreamAccessExpiresAt \in Nat
  <2>1. mem.refreshTokens[k] \in RefreshRecord
    BY <1>2, RecordsFacts DEF Store
  <2>2. id \in Grants
    BY <2>1 DEF RefreshRecord
  <2> QED
    BY <1>2, <2>2, RecordsFacts DEF Store, GrantRecord
<1>4. scopes \subseteq mem.transactions[grant.flow].scopes
  <2>1. grant.scopes \subseteq mem.transactions[grant.flow].scopes
    BY <1>2, <1>3, RecordsFacts, GrantsHaveTransactions DEF Sound
  <2> QED
    BY <1>2, <2>1 DEF ResolveScopes
<1>5. grant.upstream.refreshToken # Never => grant.upstreamAccessExpiresAt = Never
  BY <1>2, <1>3, RecordsFacts DEF Sound, GrantsCounted
<1>6. Supported(mem, next, now)
  <2>1. CASE grant.upstream.refreshToken # Never
    <3>1. next = asks
      BY <2>1
    <3>2. asks.at = "provider" /\ asks.token = k /\ asks.grant = id /\ asks.scopes = scopes
      OBVIOUS
    <3> HIDE DEF asks, next
    <3> QED
      BY <1>4, <1>5, <2>1, <3>1, <3>2 DEF Supported
  <2>2. CASE grant.upstream.refreshToken = Never
    <3>1. next = turns
      BY <2>2
    <3>2. \/ grant.upstreamAccessExpiresAt = Never
          \/ grant.upstreamAccessExpiresAt >= now
      <4>1. now \in Nat
        BY RecordsFacts
      <4> QED
        BY <1>2, <1>3, <2>2, <4>1
    <3> QED
      BY <1>3, <1>4, <2>2, <3>1, <3>2, RecordsFacts, RotationIsSupported
  <2> QED
    BY <2>1, <2>2
<1> HIDE DEF next
<1> QED
  BY <1>1, <1>2, <1>6, WaitKeepsRecords

\* The provider's answer brings a refresh token, so the grant stays without an end.
LEMMA ProviderRefreshesKeepsRecords ==
  ASSUME RecordsInv, NEW r \in Requests, NEW rotates \in BOOLEAN, ProviderRefreshes(r, rotates)
  PROVE  RecordsInv' /\ Grows(disk, disk')
PROOF
<1> DEFINE req   == requests[r]
           fresh == IF rotates THEN provider[FlowOf(r)] + 1 ELSE req.sent
           kept  == [refreshToken |-> fresh, expiresIn |-> Never]
           end   == UpstreamAccessTokenExpiresAt(kept)
           next  == Rotation(req.token, req.grant, req.scopes, kept, end)
<1>1. Inv'
  BY RecordsFacts, ProviderRefreshesKeepsInv
<1>2. /\ req.at = "provider"
      /\ requests' = [requests EXCEPT ![r] = next]
      /\ UNCHANGED <<now, mem, disk, delivered>>
  BY DEF ProviderRefreshes
<1>3. req.token \in Tokens /\ req.grant \in Grants
  BY <1>2, RecordsFacts, ProviderRequest DEF AwaitingProvider
<1>4. /\ mem.refreshTokens[req.token].grant = req.grant
      /\ req.scopes \subseteq mem.transactions[mem.grants[req.grant].flow].scopes
      /\ mem.grants[req.grant].upstreamAccessExpiresAt = Never
  BY <1>2, RecordsFacts DEF Supported
<1>5. end = Never
  BY DEF UpstreamAccessTokenExpiresAt, UpstreamAccessTokenTtl
<1> HIDE DEF kept, end
<1>6. Supported(mem, next, now)
  BY <1>3, <1>4, <1>5, RecordsFacts, RotationIsSupported DEF Never
<1> HIDE DEF next
<1> QED
  BY <1>1, <1>2, <1>6, WaitKeepsRecords

\* A request that the provider does not answer ends.
LEMMA ProviderFailuresKeepRecords ==
  ASSUME RecordsInv, NEW r \in Requests, ProviderRefuses(r) \/ ProviderAnswerLost(r)
  PROVE  RecordsInv' /\ Grows(disk, disk')
PROOF
<1>1. Inv'
  BY RecordsFacts, ProviderRefusesKeepsInv, ProviderAnswerLostKeepsInv
<1>2. /\ requests' = [requests EXCEPT ![r] = Idle]
      /\ UNCHANGED <<now, mem, disk, delivered>>
  BY DEF ProviderRefuses, ProviderAnswerLost
<1> QED
  BY <1>1, <1>2, IdleIsSupported, WaitKeepsRecords

\* The grant keeps its end and its flow; at each write of the rotation it has at most
\* two active refresh tokens, the one presented and the one issued for it.
LEMMA RotateTokensKeepsRecords ==
  ASSUME RecordsInv, NEW r \in Requests, NEW k \in Tokens, RotateTokens(r, k)
  PROVE  RecordsInv' /\ Grows(disk, disk')
PROOF
<1> DEFINE req  == requests[r]
           old  == mem.grants[req.grant]
           end  == req.upstreamAccessExpiresAt
           rec1 == [old EXCEPT !.scopes = req.scopes, !.upstream = req.upstream,
                               !.upstreamAccessExpiresAt = IF end = Never THEN @ ELSE end]
           rec2 == [grant |-> req.grant, client |-> mem.grants[req.grant].client,
                    scopes |-> req.scopes,
                    expiresAt |-> now + req.accessTtl * Second]
           rec5 == [grant |-> req.grant, active |-> TRUE,
                    expiresAt |-> now + req.refreshTtl * Second,
                    parent |-> req.token]
           s1   == UpdateGrant(mem, req.grant, req.scopes, req.upstream,
                               req.upstreamAccessExpiresAt)
           s2   == SaveAccessToken(s1, k, rec2)
           s3   == RetireOtherRefreshTokens(s2, req.grant, req.token)
           rec4 == [s3.refreshTokens[req.token] EXCEPT !.active = TRUE]
           s4   == ReactivateRefreshToken(s3, req.token)
           s5   == SaveRefreshToken(s4, k, rec5)
           ws   == IF s3 = s2 THEN <<s1, s2, s4, s5>> ELSE <<s1, s2, s3, s4, s5>>
<1>1. Inv'
  BY RecordsFacts, RotateTokensKeepsInv
<1>2. /\ req.at = "rotation"
      /\ mem.accessTokens[k] = None
      /\ mem.refreshTokens[k] = None
      /\ Turn(r, ws, Idle, {k})
      /\ now' = now
  BY DEF RotateTokens
<1>3. req \in AwaitingRotation /\ req.grant \in Grants /\ req.token \in Tokens
  BY <1>2, RecordsFacts, RequestKinds DEF AwaitingRotation
<1>4. old # None /\ mem.refreshTokens[req.token] # None
  BY <1>2, RecordsFacts DEF Grounded
<1>5. /\ mem.refreshTokens[req.token].grant = req.grant
      /\ req.scopes \subseteq mem.transactions[old.flow].scopes
      /\ old.upstreamAccessExpiresAt = end
      /\ req.upstream.refreshToken # Never => end = Never
      /\ EndsInTime(req, end, now)
  BY <1>2, RecordsFacts DEF Supported
<1>6. old \in GrantRecord
  BY <1>3, <1>4, RecordsFacts DEF Store
<1>7. /\ rec1 \in GrantRecord
      /\ rec1.flow = old.flow
      /\ rec1.client = old.client
      /\ rec1.scopes = req.scopes
      /\ rec1.upstream = req.upstream
      /\ rec1.upstreamAccessExpiresAt = end
      /\ rec1.upstreamEnd = old.upstreamEnd
  BY <1>3, <1>5, <1>6 DEF GrantRecord, AwaitingRotation
<1>8. rec2 \in AccessRecord /\ rec5 \in RefreshRecord
  <2>1. now + req.accessTtl * Second \in Nat /\ now + req.refreshTtl * Second \in Nat
    <3>1. req.accessTtl * Second \in Nat /\ req.refreshTtl * Second \in Nat
      BY <1>3, ClockFacts, ProductInNat DEF AwaitingRotation
    <3>2. now \in Nat
      BY RecordsFacts
    <3> HIDE DEF req
    <3> QED
      BY <3>1, <3>2
  <2>2. rec2 \in AccessRecord
    BY <1>3, <1>6, <2>1 DEF GrantRecord, AccessRecord, AwaitingRotation
  <2>3. rec5 \in RefreshRecord
    BY <1>3, <2>1 DEF RefreshRecord
  <2> QED
    BY <2>2, <2>3
<1>9. /\ rec2.grant = req.grant
      /\ rec2.client = old.client
      /\ rec2.scopes = req.scopes
      /\ end # Never => rec2.expiresAt <= end
      /\ rec5.grant = req.grant
      /\ end # Never => rec5.expiresAt <= end
  BY <1>5 DEF EndsInTime
<1>10. s1 = SaveGrant(mem, req.grant, rec1)
  BY DEF UpdateGrant, SaveGrant
<1> HIDE DEF rec1, rec2, rec5
<1>11. /\ s1.grants[req.grant] = rec1
       /\ s1.transactions = mem.transactions
       /\ s1.accessTokens = mem.accessTokens
       /\ s1.refreshTokens = mem.refreshTokens
  BY <1>3, <1>10, RecordsFacts DEF SaveGrant, Store
<1> HIDE DEF s1
<1>12. Extends(mem, s1)
  <2>1. /\ CodesHaveTransactions(mem)
        /\ GrantsHaveCodes(mem)
        /\ GrantsCounted(mem)
    BY RecordsFacts DEF Sound
  <2>2. PICK c \in Codes : /\ mem.authorizationCodes[c] # None
                           /\ mem.authorizationCodes[c].used
                           /\ mem.authorizationCodes[c].flow = old.flow
                           /\ mem.authorizationCodes[c].client = old.client
    BY <1>3, <1>4, <2>1 DEF GrantsHaveCodes
  <2>3. mem.transactions[old.flow].scopes = mem.authorizationCodes[c].scopes
    BY <2>1, <2>2 DEF CodesHaveTransactions
  <2>4. end # Never => end < old.upstreamEnd + CodeLife
    BY <1>3, <1>4, <1>5, <2>1 DEF GrantsCounted
  <2>5. rec1.scopes \subseteq mem.authorizationCodes[c].scopes
    BY <1>5, <1>7, <2>3
  <2> QED
    BY <1>3, <1>5, <1>7, <1>10, <2>2, <2>4, <2>5, RecordsFacts, GrantExtends
<1>13. s1 \in Store /\ Sound(s1)
  BY <1>12 DEF Extends
<1>14. /\ s2.grants = s1.grants
       /\ s2.accessTokens[k] = rec2
       /\ s2.refreshTokens = s1.refreshTokens
  BY <1>13 DEF SaveAccessToken, Store
<1> HIDE DEF s2
<1>15. Extends(s1, s2)
  <2>1. s1.grants[rec2.grant] = rec1 /\ rec1 # None
    BY <1>7, <1>9, <1>11, NoneAssumption
  <2>2. rec2.scopes \subseteq s1.transactions[rec1.flow].scopes
    BY <1>5, <1>7, <1>9, <1>11
  <2>3. s1.accessTokens[k] = None /\ s1.refreshTokens[k] = None
    BY <1>2, <1>11
  <2> QED
    BY <1>7, <1>8, <1>9, <1>13, <2>1, <2>2, <2>3, AccessExtends DEF s2
<1>16. s2 \in Store /\ Sound(s2)
  BY <1>15 DEF Extends
<1>17. /\ Extends(s2, s3)
       /\ ActiveTokens(s3, req.grant) \subseteq {req.token}
  BY <1>3, <1>16, RetireExtends
<1>18. s3.refreshTokens[k] = None
  BY <1>2, <1>11, <1>14, <1>16 DEF RetireOtherRefreshTokens, Store
<1>19. s3.accessTokens = s2.accessTokens /\ s3.grants = s2.grants
  BY <1>16 DEF RetireOtherRefreshTokens, Store
<1>20. s3.refreshTokens[req.token] # None /\ s3.refreshTokens[req.token].grant = req.grant
  <2>1. /\ s2.refreshTokens[req.token] # None
        /\ s2.refreshTokens[req.token].grant = req.grant
    BY <1>4, <1>5, <1>11, <1>14
  <2>2. Grows(s2, s3)
    BY <1>17 DEF Extends
  <2> QED
    BY <1>3, <2>1, <2>2 DEF Grows
<1> HIDE DEF s3
<1>21. s3 \in Store /\ Sound(s3)
  BY <1>17 DEF Extends
<1>22. /\ rec4 \in RefreshRecord
       /\ rec4.grant = req.grant
       /\ rec4.expiresAt = s3.refreshTokens[req.token].expiresAt
  <2>1. s3.refreshTokens[req.token] \in RefreshRecord
    BY <1>3, <1>20, <1>21 DEF Store
  <2> QED
    BY <1>20, <2>1 DEF RefreshRecord
<1>23. s4 = SaveRefreshToken(s3, req.token, rec4)
  BY <1>21 DEF ReactivateRefreshToken, SaveRefreshToken, Store
<1> HIDE DEF rec4, s4
<1>24. /\ Extends(s3, s4)
       /\ ActiveTokens(s4, req.grant) \subseteq {None, req.token}
  <2>1. /\ s3.accessTokens[req.token] # None
        /\ s3.accessTokens[req.token].grant = rec4.grant
        /\ s3.grants[rec4.grant].upstreamAccessExpiresAt # Never =>
             rec4.expiresAt <= s3.grants[rec4.grant].upstreamAccessExpiresAt
    BY <1>3, <1>20, <1>21, <1>22, RefreshFacts
  <2>2. ActiveTokens(s3, rec4.grant) \subseteq {None, req.token}
    BY <1>17, <1>22
  <2>3. s3.refreshTokens[req.token] # None =>
          rec4.grant = s3.refreshTokens[req.token].grant
    BY <1>20, <1>22
  <2>4. /\ Extends(s3, SaveRefreshToken(s3, req.token, rec4))
        /\ ActiveTokens(SaveRefreshToken(s3, req.token, rec4), rec4.grant)
             \subseteq {None, req.token}
    BY <1>3, <1>21, <1>22, <2>1, <2>2, <2>3, RefreshExtends
  <2> QED
    BY <1>22, <1>23, <2>4
<1>25. s4 \in Store /\ Sound(s4)
  BY <1>24 DEF Extends
<1>26. /\ s4.accessTokens[k] = rec2
       /\ s4.refreshTokens[k] = None
       /\ s4.grants[req.grant] = rec1
  <2>1. k # req.token
    BY <1>2, <1>4
  <2>2. /\ s4.accessTokens = s3.accessTokens
        /\ s4.grants = s3.grants
        /\ s4.refreshTokens[k] = s3.refreshTokens[k]
    BY <1>21, <1>23, <2>1 DEF SaveRefreshToken, Store
  <2> QED
    BY <2>2, <1>11, <1>14, <1>18, <1>19
<1>27. s5.accessTokens = s4.accessTokens /\ s5.refreshTokens[k] = rec5
  BY <1>25 DEF SaveRefreshToken, Store
<1>28. Extends(s4, s5)
  <2>1. ActiveTokens(s4, rec5.grant) \subseteq {req.token, k}
    BY <1>9, <1>24, NoneAssumption DEF ActiveTokens, StoredTokens
  <2>2. /\ s4.accessTokens[k] # None
        /\ s4.accessTokens[k].grant = rec5.grant
        /\ s4.grants[rec5.grant].upstreamAccessExpiresAt = end
    BY <1>7, <1>8, <1>9, <1>26, NoneAssumption
  <2> QED
    BY <1>3, <1>8, <1>9, <1>25, <1>26, <2>1, <2>2, RefreshExtends
<1> HIDE DEF s5
<1>29. /\ Extends(mem, s2) /\ Extends(mem, s3) /\ Extends(mem, s4) /\ Extends(mem, s5)
       /\ s3 = s2 => Extends(s2, s4)
  BY <1>12, <1>15, <1>17, <1>24, <1>28, ExtendsTransitive
<1>30. /\ Len(ws) \in Nat \ {0}
       /\ \A i \in 1 .. Len(ws) : Extends(mem, ws[i])
       /\ \A i \in 2 .. Len(ws) : Extends(ws[i - 1], ws[i])
       /\ ws[Len(ws)] = s5
  <2>1. CASE s3 = s2
    <3>1. ws = <<s1, s2, s4, s5>>
      BY <2>1
    <3> HIDE DEF ws
    <3>2. Len(ws) = 4 /\ ws[1] = s1 /\ ws[2] = s2 /\ ws[3] = s4 /\ ws[4] = s5
      BY <3>1
    <3> QED
      BY <1>12, <1>15, <1>28, <1>29, <2>1, <3>2
  <2>2. CASE s3 # s2
    <3>1. ws = <<s1, s2, s3, s4, s5>>
      BY <2>2
    <3> HIDE DEF ws
    <3>2. Len(ws) = 5 /\ ws[1] = s1 /\ ws[2] = s2 /\ ws[3] = s3 /\ ws[4] = s4 /\ ws[5] = s5
      BY <3>1
    <3> QED
      BY <1>12, <1>15, <1>17, <1>24, <1>28, <1>29, <3>2
  <2> QED
    BY <2>1, <2>2
<1> HIDE DEF ws
<1>31. /\ Supported(ws[Len(ws)], Idle, now)
       /\ {k} \in SUBSET Tokens
       /\ \A u \in {k} : /\ ws[Len(ws)].accessTokens[u] # None
                         /\ ws[Len(ws)].refreshTokens[u] # None
  BY <1>8, <1>26, <1>27, <1>30, IdleIsSupported, NoneAssumption
<1> QED
  BY <1>1, <1>2, <1>30, <1>31, TurnKeepsRecords

\* The file that the process starts from again is sound.
LEMMA RestartKeepsRecords ==
  ASSUME RecordsInv, Restart
  PROVE  RecordsInv' /\ Grows(disk, disk')
PROOF
<1>1. Inv'
  BY RecordsFacts, RestartKeepsInv
<1>2. /\ mem' = disk
      /\ requests' = [r \in Requests |-> Idle]
      /\ UNCHANGED <<now, disk, delivered>>
  BY DEF Restart
<1>3. Sound(mem') /\ Sound(disk') /\ Grows(disk', mem') /\ Grows(disk, disk')
  BY <1>2, GrowsReflexive DEF RecordsInv
<1>4. \A r \in Requests : Supported(mem', requests'[r], now')
  BY <1>2, IdleIsSupported
<1>5. DeliveredIsDurable'
  BY <1>2 DEF RecordsInv, DeliveredIsDurable
<1> QED
  BY <1>1, <1>3, <1>4, <1>5 DEF RecordsInv

\* The clock stands still while lifetimes are counted from it.
LEMMA TickKeepsRecords ==
  ASSUME RecordsInv, Tick
  PROVE  RecordsInv' /\ Grows(disk, disk')
PROOF
<1>1. /\ now' = now + 1
      /\ UNCHANGED <<mem, disk, requests, provider, delivered, faults>>
      /\ \A r \in Requests : requests[r].at \notin {"issue", "rotation"}
  BY DEF Tick
<1>2. now' \in Nat
  BY <1>1, RecordsFacts
<1>3. Inv'
  BY <1>1, <1>2, RecordsFacts, TickKeepsInv
<1>4. \A r \in Requests : Supported(mem', requests'[r], now')
  BY <1>1 DEF RecordsInv, Supported
<1> QED
  BY <1>1, <1>3, <1>4, GrowsReflexive DEF RecordsInv, DeliveredIsDurable

-----------------------------------------------------------------------------
\* The theorems.

\* The empty store has nothing that could be wrong.
LEMMA InitRecords == Init => RecordsInv
PROOF
<1> SUFFICES ASSUME Init PROVE RecordsInv
  OBVIOUS
<1>1. Inv
  BY InitInv
<1>2. Sound(EmptyState)
  <2>1. TransactionsAllowed(EmptyState) /\ CodesHaveTransactions(EmptyState)
    BY DEF EmptyState, TransactionsAllowed, CodesHaveTransactions
  <2>2. GrantsHaveCodes(EmptyState) /\ CodesCounted(EmptyState) /\ GrantsCounted(EmptyState)
    BY DEF EmptyState, GrantsHaveCodes, CodesCounted, GrantsCounted
  <2>3. TokensHaveGrants(EmptyState) /\ TokensCapped(EmptyState)
    BY DEF EmptyState, TokensHaveGrants, TokensCapped
  <2>4. \A g : ActiveTokens(EmptyState, g) = {}
    BY DEF EmptyState, ActiveTokens, StoredTokens
  <2>5. TwoActive(EmptyState)
    BY <2>4 DEF TwoActive
  <2> QED
    BY <2>1, <2>2, <2>3, <2>5 DEF Sound
<1>3. \A r \in Requests : Supported(mem, requests[r], now)
  BY IdleIsSupported DEF Init
<1>4. DeliveredIsDurable
  BY DEF Init, DeliveredIsDurable
<1> QED
  BY <1>1, <1>2, <1>3, <1>4, GrowsReflexive DEF Init, RecordsInv

\* Every step keeps the records, and the file only grows.
LEMMA StepKeepsRecords == RecordsInv /\ [Next]_vars => RecordsInv' /\ Grows(disk, disk')
PROOF
<1> SUFFICES ASSUME RecordsInv, [Next]_vars
             PROVE  RecordsInv' /\ Grows(disk, disk')
  OBVIOUS
<1>1. ASSUME NEW r \in Requests,
             \/ \E client \in Clients : RegisterClient(r, client)
             \/ \E flow \in Flows, client \in Clients, requested \in SUBSET Scopes :
                  StartAuthorization(r, flow, client, requested)
             \/ \E flow \in Flows, hasCode \in BOOLEAN : HandleCallback(r, flow, hasCode)
             \/ \E code \in Codes, upstream \in FirstUpstreamTokens :
                  IssueAuthorizationCode(r, code, upstream)
             \/ \E code \in Codes, client \in Clients : RedeemCode(r, code, client)
             \/ \E grant \in Grants, token \in Tokens : IssueTokens(r, grant, token)
      PROVE  RecordsInv' /\ Grows(disk, disk')
  BY <1>1, RegisterClientKeepsRecords, StartAuthorizationKeepsRecords,
     HandleCallbackKeepsRecords, IssueAuthorizationCodeKeepsRecords,
     RedeemCodeKeepsRecords, IssueTokensKeepsRecords, Zenon
<1>2. ASSUME NEW r \in Requests,
             \/ ProviderRefuses(r)
             \/ \E token \in Tokens, client \in Clients, requested \in SUBSET Scopes :
                  StartRefresh(r, token, client, requested)
             \/ \E rotates \in BOOLEAN : ProviderRefreshes(r, rotates)
             \/ ProviderAnswerLost(r)
             \/ \E token \in Tokens : RotateTokens(r, token)
      PROVE  RecordsInv' /\ Grows(disk, disk')
  BY <1>2, ProviderFailuresKeepRecords, StartRefreshKeepsRecords,
     ProviderRefreshesKeepsRecords, RotateTokensKeepsRecords, Zenon
<1>3. CASE Restart
  BY <1>3, RestartKeepsRecords
<1>4. CASE Tick
  BY <1>4, TickKeepsRecords
<1>5. CASE UNCHANGED vars
  <2>1. Inv'
    BY <1>5, RecordsFacts, NextKeepsInv
  <2> QED
    BY <1>5, <2>1, GrowsReflexive DEF vars, RecordsInv, DeliveredIsDurable
<1> QED
  BY <1>1, <1>2, <1>3, <1>4, <1>5, Zenon DEF Next

\* Every token leads back to a grant, a used code, a consumed state and a transaction
\* with one client and no added scope, in memory and on the file after every write.
THEOREM LineageHolds == Spec => []Lineage
PROOF
<1>1. RecordsInv => Lineage
  BY DEF RecordsInv, Sound, Lineage
<1> QED
  BY <1>1, InitRecords, StepKeepsRecords, PTL DEF Spec

\* A local token ends with the upstream access token as its grant records it, and
\* less than the life of a code after its real end, at any length of a chain.
THEOREM LifetimeIsCapped == Spec => []LifetimeCapped
PROOF
<1>1. RecordsInv => LifetimeCapped
  <2> SUFFICES ASSUME RecordsInv, NEW s \in {mem, disk}, NEW k \in Tokens,
                      s.accessTokens[k] # None,
                      s.grants[s.accessTokens[k].grant].upstreamAccessExpiresAt # Never
               PROVE  LET grant == s.grants[s.accessTokens[k].grant]
                          end   == grant.upstreamAccessExpiresAt
                      IN /\ s.accessTokens[k].expiresAt <= end
                         /\ s.refreshTokens[k] # None => s.refreshTokens[k].expiresAt <= end
                         /\ s.accessTokens[k].expiresAt
                              < grant.upstreamEnd + AuthCodeTtl * Second
    BY DEF LifetimeCapped, CappedByGrant, OverstaysLessThanACode
  <2> DEFINE grant == s.grants[s.accessTokens[k].grant]
             end   == grant.upstreamAccessExpiresAt
  <2>1. s \in Store /\ Sound(s)
    BY DEF RecordsInv, Inv, TypeOK
  <2>2. /\ s.accessTokens[k] \in AccessRecord
        /\ s.accessTokens[k].grant \in Grants
        /\ grant # None
    BY <2>1, TokensBelong DEF Sound
  <2>3. grant \in GrantRecord
    BY <2>1, <2>2 DEF Store
  <2>4. /\ s.accessTokens[k].expiresAt <= end
        /\ s.refreshTokens[k] # None => s.refreshTokens[k].expiresAt <= end
    BY <2>1 DEF Sound, TokensCapped
  <2>5. end < grant.upstreamEnd + AuthCodeTtl * Second
    BY <2>1, <2>2 DEF Sound, GrantsCounted, CodeLife
  <2>6. /\ s.accessTokens[k].expiresAt \in Nat
        /\ end \in Nat
        /\ grant.upstreamEnd + AuthCodeTtl * Second \in Nat
    BY <2>2, <2>3, ClockFacts, ProductInNat DEF AccessRecord, GrantRecord
  <2> HIDE DEF end, grant
  <2>7. s.accessTokens[k].expiresAt < grant.upstreamEnd + AuthCodeTtl * Second
    BY <2>4, <2>5, <2>6
  <2> QED
    BY <2>4, <2>7 DEF end, grant
<1> QED
  BY <1>1, InitRecords, StepKeepsRecords, PTL DEF Spec

\* However many refreshes overlap, a grant never has more than two active refresh
\* tokens, the one presented and the one issued for it.
THEOREM AtMostTwoAreActive == Spec => []AtMostTwoActive
PROOF
<1>1. RecordsInv => AtMostTwoActive
  <2> SUFFICES ASSUME RecordsInv, NEW s \in {mem, disk}, NEW g \in Grants
               PROVE  Cardinality(ActiveTokens(s, g)) <= 2
    BY DEF AtMostTwoActive
  <2>1. PICK a \in Tokens \cup {None}, b \in Tokens \cup {None} :
          ActiveTokens(s, g) \subseteq {a, b}
    BY DEF RecordsInv, Sound, TwoActive
  <2>2. IsFiniteSet({a, b}) /\ Cardinality({a, b}) <= 2
    <3>1. IsFiniteSet({a}) /\ Cardinality({a}) = 1
      BY FS_Singleton
    <3>2. IsFiniteSet({a} \cup {b}) /\ Cardinality({a} \cup {b}) \in {1, 2}
      BY <3>1, FS_AddElement
    <3>3. {a} \cup {b} = {a, b}
      OBVIOUS
    <3> QED
      BY <3>2, <3>3
  <2>3. /\ Cardinality(ActiveTokens(s, g)) <= Cardinality({a, b})
        /\ IsFiniteSet(ActiveTokens(s, g))
    BY <2>1, <2>2, FS_Subset
  <2>4. Cardinality(ActiveTokens(s, g)) \in Nat /\ Cardinality({a, b}) \in Nat
    BY <2>2, <2>3, FS_CardinalityType
  <2> QED
    BY <2>2, <2>3, <2>4
<1> QED
  BY <1>1, InitRecords, StepKeepsRecords, PTL DEF Spec

\* A client that was answered with tokens finds them on the file for good.
THEOREM DeliveredStaysDurable == Spec => []DeliveredIsDurable
PROOF
<1>1. RecordsInv => DeliveredIsDurable
  BY DEF RecordsInv
<1> QED
  BY <1>1, InitRecords, StepKeepsRecords, PTL DEF Spec

(***************************************************************************)
(* PART 3. The ledger. The empty file is the empty ledger, and each step   *)
(* adds to the ledger or leaves it alone, because both files are sound     *)
(* (Sound) and the file only grows (Grows), the two things                 *)
(* StepKeepsRecords establishes.                                           *)
(***************************************************************************)

\* The ledger that a store holds.
Consumed(s) == {f \in Flows : s.pendingStates[f] # None /\ s.pendingStates[f].used}

CodeOf(s) == [f \in Flows |-> KeyFor(f, s.authorizationCodes)]

Spent(s) ==
  {f \in Flows : \E c \in Codes :
     /\ s.authorizationCodes[c] # None
     /\ s.authorizationCodes[c].flow = f
     /\ s.authorizationCodes[c].used}

GrantOf(s) == [f \in Flows |-> KeyFor(f, s.grants)]

OwnerOf(s) ==
  [t \in Tokens |-> IF s.accessTokens[t] = None THEN None ELSE s.accessTokens[t].grant]

\* A store whose records can be entered in a ledger.
Enterable(s) == s \in GoodStores /\ s \in Store /\ Sound(s)

-----------------------------------------------------------------------------
\* Keys of flows.

\* The key of a flow is that of the record that belongs to it.
LEMMA KeyForIsEntry ==
  ASSUME NEW table, NEW f, KeyFor(f, table) # None
  PROVE  /\ KeyFor(f, table) \in DOMAIN table
         /\ table[KeyFor(f, table)] # None
         /\ table[KeyFor(f, table)].flow = f
PROOF
<1> DEFINE keys == {k \in DOMAIN table : table[k] # None /\ table[k].flow = f}
<1>1. keys # {}
  BY DEF KeyFor
<1>2. KeyFor(f, table) = CHOOSE k \in keys : TRUE
  BY <1>1 DEF KeyFor
<1>3. KeyFor(f, table) \in keys
  BY <1>1, <1>2
<1> QED
  BY <1>3

\* A record that alone belongs to its flow is the one that is found.
LEMMA KeyForFinds ==
  ASSUME NEW table, NEW k \in DOMAIN table, table[k] # None,
         \A j \in DOMAIN table : table[j] # None /\ table[j].flow = table[k].flow => j = k
  PROVE  KeyFor(table[k].flow, table) = k
PROOF
<1> DEFINE f    == table[k].flow
           keys == {j \in DOMAIN table : table[j] # None /\ table[j].flow = f}
<1>1. keys = {k}
  OBVIOUS
<1>2. KeyFor(f, table) = CHOOSE j \in {k} : TRUE
  BY <1>1 DEF KeyFor
<1> QED
  BY <1>2

\* A good store gives each flow with a code or a grant that code and that grant.
LEMMA EntriesOfStore ==
  ASSUME NEW s, Enterable(s)
  PROVE  /\ \A c \in Codes : s.authorizationCodes[c] # None =>
              /\ s.authorizationCodes[c].flow \in Flows
              /\ CodeOf(s)[s.authorizationCodes[c].flow] = c
         /\ \A g \in Grants : s.grants[g] # None =>
              /\ s.grants[g].flow \in Flows
              /\ GrantOf(s)[s.grants[g].flow] = g
         /\ \A f \in Flows : CodeOf(s)[f] # None =>
              /\ CodeOf(s)[f] \in Codes
              /\ s.authorizationCodes[CodeOf(s)[f]] # None
              /\ s.authorizationCodes[CodeOf(s)[f]].flow = f
         /\ \A f \in Flows : GrantOf(s)[f] # None =>
              /\ GrantOf(s)[f] \in Grants
              /\ s.grants[GrantOf(s)[f]] # None
              /\ s.grants[GrantOf(s)[f]].flow = f
PROOF
<1>1. /\ DOMAIN s.authorizationCodes = Codes
      /\ DOMAIN s.grants = Grants
      /\ OneCodePerFlow(s)
      /\ OneGrantPerFlow(s)
  BY DEF Enterable, GoodStores, Store
<1>2. ASSUME NEW c \in Codes, s.authorizationCodes[c] # None
      PROVE  /\ s.authorizationCodes[c].flow \in Flows
             /\ CodeOf(s)[s.authorizationCodes[c].flow] = c
  <2>1. s.authorizationCodes[c].flow \in Flows
    BY <1>2 DEF Enterable, Store, CodeRecord
  <2>2. KeyFor(s.authorizationCodes[c].flow, s.authorizationCodes) = c
    BY <1>1, <1>2, KeyForFinds DEF OneCodePerFlow
  <2> QED
    BY <2>1, <2>2 DEF CodeOf
<1>3. ASSUME NEW g \in Grants, s.grants[g] # None
      PROVE  /\ s.grants[g].flow \in Flows
             /\ GrantOf(s)[s.grants[g].flow] = g
  <2>1. s.grants[g].flow \in Flows
    BY <1>3 DEF Enterable, Store, GrantRecord
  <2>2. KeyFor(s.grants[g].flow, s.grants) = g
    BY <1>1, <1>3, KeyForFinds DEF OneGrantPerFlow
  <2> QED
    BY <2>1, <2>2 DEF GrantOf
<1>4. ASSUME NEW f \in Flows, CodeOf(s)[f] # None
      PROVE  /\ CodeOf(s)[f] \in Codes
             /\ s.authorizationCodes[CodeOf(s)[f]] # None
             /\ s.authorizationCodes[CodeOf(s)[f]].flow = f
  BY <1>1, <1>4, KeyForIsEntry DEF CodeOf
<1>5. ASSUME NEW f \in Flows, GrantOf(s)[f] # None
      PROVE  /\ GrantOf(s)[f] \in Grants
             /\ s.grants[GrantOf(s)[f]] # None
             /\ s.grants[GrantOf(s)[f]].flow = f
  BY <1>1, <1>5, KeyForIsEntry DEF GrantOf
<1> QED
  BY <1>2, <1>3, <1>4, <1>5

-----------------------------------------------------------------------------
\* The ledger of a store.

\* The ledger of a sound store is typed.
LEMMA LedgerTyped ==
  ASSUME NEW s, Enterable(s)
  PROVE  /\ Consumed(s) \in SUBSET Flows
         /\ CodeOf(s) \in [Flows -> Codes \cup {None}]
         /\ Spent(s) \in SUBSET Flows
         /\ GrantOf(s) \in [Flows -> Grants \cup {None}]
         /\ OwnerOf(s) \in [Tokens -> Grants \cup {None}]
PROOF
<1>1. Consumed(s) \in SUBSET Flows /\ Spent(s) \in SUBSET Flows
  BY DEF Consumed, Spent
<1>2. CodeOf(s) \in [Flows -> Codes \cup {None}]
  <2>1. \A f \in Flows : CodeOf(s)[f] \in Codes \cup {None}
    BY EntriesOfStore
  <2> QED
    BY <2>1 DEF CodeOf
<1>3. GrantOf(s) \in [Flows -> Grants \cup {None}]
  <2>1. \A f \in Flows : GrantOf(s)[f] \in Grants \cup {None}
    BY EntriesOfStore
  <2> QED
    BY <2>1 DEF GrantOf
<1>4. OwnerOf(s) \in [Tokens -> Grants \cup {None}]
  BY DEF OwnerOf, Enterable, Store, AccessRecord
<1> QED
  BY <1>1, <1>2, <1>3, <1>4

\* In a sound store a code rests on a consumed state, a grant on a spent code, a
\* token on a grant, and no two flows share a code or a grant.
LEMMA LedgerCoherent ==
  ASSUME NEW s, Enterable(s)
  PROVE  /\ \A f \in Flows : CodeOf(s)[f] # None => f \in Consumed(s)
         /\ \A f \in Spent(s) : CodeOf(s)[f] # None
         /\ \A f \in Flows : GrantOf(s)[f] # None => f \in Spent(s)
         /\ \A t \in Tokens : OwnerOf(s)[t] # None =>
              \E f \in Flows : GrantOf(s)[f] = OwnerOf(s)[t]
         /\ \A e, f \in Flows : CodeOf(s)[e] = CodeOf(s)[f] => e = f \/ CodeOf(s)[e] = None
         /\ \A e, f \in Flows : GrantOf(s)[e] = GrantOf(s)[f] => e = f \/ GrantOf(s)[e] = None
PROOF
<1>1. /\ CodesHaveTransactions(s)
      /\ GrantsHaveCodes(s)
      /\ TokensHaveGrants(s)
      /\ s \in Store
  BY DEF Enterable, Sound
<1>2. \A f \in Flows : CodeOf(s)[f] # None => f \in Consumed(s)
  BY <1>1, EntriesOfStore DEF CodesHaveTransactions, Consumed
<1>3. \A f \in Spent(s) : CodeOf(s)[f] # None
  BY EntriesOfStore, NoneAssumption DEF Spent
<1>4. \A f \in Flows : GrantOf(s)[f] # None => f \in Spent(s)
  BY <1>1, EntriesOfStore DEF GrantsHaveCodes, Spent
<1>5. ASSUME NEW t \in Tokens, OwnerOf(s)[t] # None
      PROVE  \E f \in Flows : GrantOf(s)[f] = OwnerOf(s)[t]
  <2>1. s.accessTokens[t] # None /\ OwnerOf(s)[t] = s.accessTokens[t].grant
    BY <1>5 DEF OwnerOf
  <2>2. OwnerOf(s)[t] \in Grants /\ s.grants[OwnerOf(s)[t]] # None
    BY <1>1, <2>1, TokensBelong
  <2> QED
    BY <2>2, EntriesOfStore
<1>6. \A e, f \in Flows : CodeOf(s)[e] = CodeOf(s)[f] => e = f \/ CodeOf(s)[e] = None
  BY EntriesOfStore
<1>7. \A e, f \in Flows : GrantOf(s)[e] = GrantOf(s)[f] => e = f \/ GrantOf(s)[e] = None
  BY EntriesOfStore
<1> QED
  BY <1>2, <1>3, <1>4, <1>5, <1>6, <1>7

\* A store that grows adds to its ledger and takes nothing back.
LEMMA LedgerKept ==
  ASSUME NEW s, NEW t, Enterable(s), Enterable(t), Grows(s, t)
  PROVE  /\ Consumed(s) \subseteq Consumed(t)
         /\ Spent(s) \subseteq Spent(t)
         /\ \A f \in Flows : CodeOf(s)[f] # None => CodeOf(t)[f] = CodeOf(s)[f]
         /\ \A f \in Flows : GrantOf(s)[f] # None => GrantOf(t)[f] = GrantOf(s)[f]
         /\ \A k \in Tokens : OwnerOf(s)[k] # None => OwnerOf(t)[k] = OwnerOf(s)[k]
PROOF
<1>1. Consumed(s) \subseteq Consumed(t)
  BY DEF Consumed, Grows
<1>2. Spent(s) \subseteq Spent(t)
  BY DEF Spent, Grows
<1>3. ASSUME NEW f \in Flows, CodeOf(s)[f] # None
      PROVE  CodeOf(t)[f] = CodeOf(s)[f]
  <2>1. /\ CodeOf(s)[f] \in Codes
        /\ s.authorizationCodes[CodeOf(s)[f]] # None
        /\ s.authorizationCodes[CodeOf(s)[f]].flow = f
    BY <1>3, EntriesOfStore
  <2>2. /\ t.authorizationCodes[CodeOf(s)[f]] # None
        /\ t.authorizationCodes[CodeOf(s)[f]].flow = f
    BY <2>1 DEF Grows
  <2> QED
    BY <2>1, <2>2, EntriesOfStore
<1>4. ASSUME NEW f \in Flows, GrantOf(s)[f] # None
      PROVE  GrantOf(t)[f] = GrantOf(s)[f]
  <2>1. /\ GrantOf(s)[f] \in Grants
        /\ s.grants[GrantOf(s)[f]] # None
        /\ s.grants[GrantOf(s)[f]].flow = f
    BY <1>4, EntriesOfStore
  <2>2. /\ t.grants[GrantOf(s)[f]] # None
        /\ t.grants[GrantOf(s)[f]].flow = f
    BY <2>1 DEF Grows
  <2> QED
    BY <2>1, <2>2, EntriesOfStore
<1>5. \A k \in Tokens : OwnerOf(s)[k] # None => OwnerOf(t)[k] = OwnerOf(s)[k]
  BY DEF OwnerOf, Grows
<1> QED
  BY <1>1, <1>2, <1>3, <1>4, <1>5

-----------------------------------------------------------------------------
\* The refinement.

\* The empty file is the empty ledger.
LEMMA InitIsLedgerInit == Init => Ledger!Init
PROOF
<1> SUFFICES ASSUME Init PROVE Ledger!Init
  OBVIOUS
<1>1. disk = EmptyState
  BY DEF Init
<1>2. ConsumedFlows = {} /\ SpentFlows = {}
  BY <1>1 DEF ConsumedFlows, SpentFlows, EmptyState
<1>3. /\ \A f \in Flows : KeyFor(f, disk.authorizationCodes) = None
      /\ \A f \in Flows : KeyFor(f, disk.grants) = None
  BY <1>1, KeyForIsEntry DEF EmptyState
<1>4. Owner = [t \in Tokens |-> None]
  BY <1>1 DEF Owner, EmptyState
<1> QED
  BY <1>2, <1>3, <1>4 DEF Ledger!Init

\* A step that keeps the file sound and growing is one addition to the ledger.
LEMMA GrowthIsAddition ==
  ASSUME RecordsInv, RecordsInv', Grows(disk, disk')
  PROVE  Ledger!Add
PROOF
<1>1. Enterable(disk) /\ Enterable(disk')
  BY DEF RecordsInv, Inv, TypeOK, Enterable
<1>2. /\ ConsumedFlows = Consumed(disk)
      /\ [f \in Flows |-> KeyFor(f, disk.authorizationCodes)] = CodeOf(disk)
      /\ SpentFlows = Spent(disk)
      /\ [f \in Flows |-> KeyFor(f, disk.grants)] = GrantOf(disk)
      /\ Owner = OwnerOf(disk)
      /\ ConsumedFlows' = Consumed(disk')
      /\ [f \in Flows |-> KeyFor(f, disk'.authorizationCodes)] = CodeOf(disk')
      /\ SpentFlows' = Spent(disk')
      /\ [f \in Flows |-> KeyFor(f, disk'.grants)] = GrantOf(disk')
      /\ Owner' = OwnerOf(disk')
  BY DEF ConsumedFlows, Consumed, CodeOf, SpentFlows, Spent, GrantOf, Owner, OwnerOf
<1>3. /\ DOMAIN CodeOf(disk) = Flows /\ DOMAIN CodeOf(disk') = Flows
      /\ DOMAIN GrantOf(disk) = Flows /\ DOMAIN GrantOf(disk') = Flows
      /\ DOMAIN OwnerOf(disk) = Tokens /\ DOMAIN OwnerOf(disk') = Tokens
  BY DEF CodeOf, GrantOf, OwnerOf
<1>4. Ledger!Coherent'
  <2>1. /\ Ledger!Entered(CodeOf(disk')) = {f \in Flows : CodeOf(disk')[f] # None}
        /\ Ledger!Entered(GrantOf(disk')) = {f \in Flows : GrantOf(disk')[f] # None}
        /\ Ledger!Entered(OwnerOf(disk')) = {t \in Tokens : OwnerOf(disk')[t] # None}
    BY <1>3 DEF Ledger!Entered
  <2>2. /\ Ledger!Entered(CodeOf(disk')) \subseteq Consumed(disk')
        /\ Ledger!Entered(GrantOf(disk')) \subseteq Spent(disk')
    BY <1>1, <2>1, LedgerCoherent
  <2>3. Spent(disk') \subseteq Ledger!Entered(CodeOf(disk'))
    <3>1. Spent(disk') \subseteq Flows
      BY <1>1, LedgerTyped
    <3> QED
      BY <1>1, <2>1, <3>1, LedgerCoherent
  <2>4. \A t \in Ledger!Entered(OwnerOf(disk')) :
          \E f \in Flows : GrantOf(disk')[f] = OwnerOf(disk')[t]
    BY <1>1, <2>1, LedgerCoherent
  <2>5. /\ \A e, f \in Flows : CodeOf(disk')[e] = CodeOf(disk')[f]
                            => e = f \/ CodeOf(disk')[e] = None
        /\ \A e, f \in Flows : GrantOf(disk')[e] = GrantOf(disk')[f]
                            => e = f \/ GrantOf(disk')[e] = None
    BY <1>1, LedgerCoherent
  <2> QED
    BY <1>2, <2>2, <2>3, <2>4, <2>5 DEF Ledger!Coherent
<1>5. /\ Ledger!Keeps(CodeOf(disk), CodeOf(disk'))
      /\ Ledger!Keeps(GrantOf(disk), GrantOf(disk'))
      /\ Ledger!Keeps(OwnerOf(disk), OwnerOf(disk'))
  BY <1>1, <1>3, LedgerKept DEF Ledger!Keeps
<1>6. Consumed(disk) \subseteq Consumed(disk') /\ Spent(disk) \subseteq Spent(disk')
  BY <1>1, LedgerKept
<1>7. /\ Consumed(disk') \in SUBSET Flows
      /\ CodeOf(disk') \in [Flows -> Codes \cup {None}]
      /\ Spent(disk') \in SUBSET Flows
      /\ GrantOf(disk') \in [Flows -> Grants \cup {None}]
      /\ OwnerOf(disk') \in [Tokens -> Grants \cup {None}]
  BY <1>1, LedgerTyped
<1> QED
  BY <1>2, <1>4, <1>5, <1>6, <1>7 DEF Ledger!Add

\* The file of the store is an append-only ledger of consumed states, spent codes
\* and granted tokens, whatever requests overlap, writes fail or crashes strike.
THEOREM FileImplementsLedger == Spec => FileIsLedger
PROOF
<1>1. RecordsInv /\ [Next]_vars => RecordsInv'
  BY StepKeepsRecords
<1>2. RecordsInv /\ RecordsInv' /\ [Next]_vars => [Ledger!Add]_Ledger!ledger
  BY StepKeepsRecords, GrowthIsAddition
<1> QED
  BY <1>1, <1>2, InitRecords, InitIsLedgerInit, PTL DEF Spec, FileIsLedger, Ledger!Spec
=============================================================================
