------------------------- MODULE AuthRefreshProofs --------------------------
(***************************************************************************)
(* Theorems about AuthCore for every value of the constants, of clients    *)
(* that do not refresh a grant while another refresh of it waits for the   *)
(* provider or for its turn (SequentialSpec). Without that each of them is *)
(* false: a slow refresh writes scopes and an upstream token that a fast   *)
(* one has replaced, and retires the token that the fast one was answered. *)
(*                                                                         *)
(* The argument extends the records of AuthCoreProofs by the order of the  *)
(* refresh tokens of a grant: a token that has a grandchild is retired, a  *)
(* refresh waits with an active token, and scopes in memory are no wider   *)
(* than on the file. Of the tokens that the provider issued for a flow, a  *)
(* store misses one for each fault at most, and one that a refresh has and *)
(* is about to store; a crash that ends several refreshes takes one from   *)
(* each flow.                                                              *)
(***************************************************************************)
EXTENDS AuthCoreProofs

\* Scopes of grants only narrow from store s to store t, and no grant is lost.
Narrows(s, t) ==
  \A g \in Grants : s.grants[g] # None =>
    t.grants[g] # None /\ t.grants[g].scopes \subseteq s.grants[g].scopes

\* The parent of a token is another token of the same grant.
ParentsStored(s) ==
  \A t \in StoredTokens(s) :
    LET p == s.refreshTokens[t].parent IN
    p # None =>
      /\ p \in StoredTokens(s)
      /\ p # t
      /\ s.refreshTokens[p].grant = s.refreshTokens[t].grant

\* SuccessorRetires and NeverLockedOut of one store.
GrandparentsRetired(s) ==
  \A t, u, v \in StoredTokens(s) :
    /\ s.refreshTokens[t].parent = u
    /\ s.refreshTokens[v].parent = t
    => ~s.refreshTokens[u].active

GrantsUsable(s) ==
  \A t \in StoredTokens(s) : ActiveTokens(s, s.refreshTokens[t].grant) # {}

Orderly(s) == ParentsStored(s) /\ GrandparentsRetired(s) /\ GrantsUsable(s)

IsRefresh(req) == req.at \in {"provider", "rotation"}

\* A refresh waits with an active token and with no more scopes than its grant has.
Current(s, req) ==
  IsRefresh(req) =>
    /\ s.refreshTokens[req.token].active
    /\ req.scopes \subseteq s.grants[req.grant].scopes

\* A flow is in use in a store that has a code or a grant for it.
HasGrant(s, flow) == \E g \in Grants : s.grants[g] # None /\ s.grants[g].flow = flow

Uses(s, flow) ==
  \/ HasGrant(s, flow)
  \/ \E c \in Codes : s.authorizationCodes[c] # None /\ s.authorizationCodes[c].flow = flow

\* Of the tokens issued for a flow, what store s holds misses no more than slack
\* allows: a grant, or a code that has no grant yet.
KeepsUp(s, issued, slack) ==
  /\ \A g \in Grants : s.grants[g] # None =>
       LET flow == s.grants[g].flow IN
       issued[flow] - s.grants[g].upstream.refreshToken \in 0 .. slack[flow]
  /\ \A c \in Codes :
       LET flow == s.authorizationCodes[c].flow IN
       s.authorizationCodes[c] # None /\ ~HasGrant(s, flow) =>
         issued[flow] - s.authorizationCodes[c].upstream.refreshToken \in 0 .. slack[flow]

\* A refresh sends what its grant in store s holds, and is about to store a token that
\* misses no more than was lost.
Carries(s, issued, lost, req) ==
  /\ req.at = "provider" => req.sent = s.grants[req.grant].upstream.refreshToken
  /\ req.at = "rotation" =>
       issued[s.grants[req.grant].flow] - req.upstream.refreshToken \in 0 .. lost

Slacks == [f \in Flows |-> Slack(f)]

\* What the slack is when request r is over.
SlacksWithout(r) ==
  [f \in Flows |->
     faults + (IF \E q \in Requests \ {r} : requests[q].at = "rotation" /\ FlowOf(q) = f
               THEN 1 ELSE 0)]

UpstreamInv ==
  /\ KeepsUp(mem, provider, Slacks)
  /\ KeepsUp(disk, provider, Slacks)
  /\ \A r \in Requests : Carries(mem, provider, faults, requests[r])

\* On top of the records: both stores are orderly, the memory has narrowed no less
\* than the file, and refreshes wait with what their grants still have.
OrderInv ==
  /\ Orderly(mem)
  /\ Orderly(disk)
  /\ Narrows(disk, mem)
  /\ \A r \in Requests : Current(mem, requests[r])

\* The inductive invariant of SequentialSpec.
SequentialInv ==
  /\ RecordsInv
  /\ RefreshesDoNotOverlap
  /\ OrderInv
  /\ UpstreamInv

-----------------------------------------------------------------------------
\* What the store operations do to the order of refresh tokens.

\* The order is a matter of the refresh tokens alone.
LEMMA SameTokensOrderly ==
  ASSUME NEW s, NEW t, t.refreshTokens = s.refreshTokens, Orderly(s)
  PROVE  Orderly(t)
PROOF
<1>1. StoredTokens(t) = StoredTokens(s) /\ \A g : ActiveTokens(t, g) = ActiveTokens(s, g)
  BY DEF StoredTokens, ActiveTokens
<1>2. ParentsStored(t)
  BY <1>1 DEF Orderly, ParentsStored
<1>3. GrandparentsRetired(t)
  BY <1>1 DEF Orderly, GrandparentsRetired
<1>4. GrantsUsable(t)
  BY <1>1 DEF Orderly, GrantsUsable
<1> QED
  BY <1>2, <1>3, <1>4 DEF Orderly

\* A new active token is in order when the parent of its parent is retired.
LEMMA NewTokenOrderly ==
  ASSUME NEW s \in Store, Orderly(s), NEW k \in Tokens, NEW rec \in RefreshRecord,
         s.refreshTokens[k] = None, rec.active,
         rec.parent # None =>
           /\ rec.parent \in StoredTokens(s)
           /\ s.refreshTokens[rec.parent].grant = rec.grant
           /\ LET u == s.refreshTokens[rec.parent].parent IN
              u # None => ~s.refreshTokens[u].active
  PROVE  Orderly(SaveRefreshToken(s, k, rec))
PROOF
<1> DEFINE t == SaveRefreshToken(s, k, rec)
<1>1. \A u \in Tokens : t.refreshTokens[u] = IF u = k THEN rec ELSE s.refreshTokens[u]
  BY DEF SaveRefreshToken, Store
<1>2. rec # None /\ k # None /\ k \notin StoredTokens(s)
  BY NoneAssumption DEF StoredTokens
<1> HIDE DEF t
<1>3. StoredTokens(t) = StoredTokens(s) \cup {k}
  BY <1>1, <1>2 DEF StoredTokens
<1>4. \A u \in StoredTokens(s) : t.refreshTokens[u] = s.refreshTokens[u]
  BY <1>1, <1>2 DEF StoredTokens
<1>5. t.refreshTokens[k] = rec
  BY <1>1
<1>6. ParentsStored(t)
  <2> SUFFICES ASSUME NEW u \in StoredTokens(t), t.refreshTokens[u].parent # None
               PROVE  LET p == t.refreshTokens[u].parent IN
                      /\ p \in StoredTokens(t)
                      /\ p # u
                      /\ t.refreshTokens[p].grant = t.refreshTokens[u].grant
    BY DEF ParentsStored
  <2>1. CASE u = k
    BY <2>1, <1>2, <1>3, <1>4, <1>5
  <2>2. CASE u \in StoredTokens(s)
    BY <2>2, <1>3, <1>4 DEF Orderly, ParentsStored
  <2> QED
    BY <2>1, <2>2, <1>3
<1>7. GrandparentsRetired(t)
  <2> SUFFICES ASSUME NEW a \in StoredTokens(t), NEW b \in StoredTokens(t),
                      NEW c \in StoredTokens(t),
                      t.refreshTokens[b].parent = a, t.refreshTokens[c].parent = b
               PROVE  ~t.refreshTokens[a].active
    BY DEF GrandparentsRetired
  <2>1. a # None /\ b # None
    BY NoneAssumption DEF StoredTokens
  <2>2. b \in StoredTokens(s)
    <3>1. CASE c = k
      BY <3>1, <2>1, <1>5
    <3>2. CASE c \in StoredTokens(s)
      BY <3>2, <2>1, <1>4 DEF Orderly, ParentsStored
    <3> QED
      BY <3>1, <3>2, <1>3
  <2>3. a \in StoredTokens(s)
    BY <2>1, <2>2, <1>4 DEF Orderly, ParentsStored
  <2>4. CASE c = k
    BY <2>1, <2>2, <2>3, <2>4, <1>4, <1>5
  <2>5. CASE c \in StoredTokens(s)
    BY <2>2, <2>3, <2>5, <1>4 DEF Orderly, GrandparentsRetired
  <2> QED
    BY <2>4, <2>5, <1>3
<1>8. GrantsUsable(t)
  <2> SUFFICES ASSUME NEW u \in StoredTokens(t)
               PROVE  \E v \in StoredTokens(t) :
                        /\ t.refreshTokens[v].grant = t.refreshTokens[u].grant
                        /\ t.refreshTokens[v].active
    BY DEF GrantsUsable, ActiveTokens
  <2>1. CASE u = k
    BY <2>1, <1>3, <1>5
  <2>2. CASE u \in StoredTokens(s)
    <3>1. PICK v \in StoredTokens(s) : /\ s.refreshTokens[v].grant = s.refreshTokens[u].grant
                                       /\ s.refreshTokens[v].active
      BY <2>2 DEF Orderly, GrantsUsable, ActiveTokens
    <3> QED
      BY <3>1, <2>2, <1>3, <1>4
  <2> QED
    BY <2>1, <2>2, <1>3
<1> QED
  BY <1>6, <1>7, <1>8 DEF Orderly, t

\* The token that is kept stays as it is, the others of the grant are retired, and
\* those of other grants are left alone.
LEMMA RetireOrderly ==
  ASSUME NEW s \in Store, Orderly(s), NEW g, NEW k \in StoredTokens(s),
         s.refreshTokens[k].grant = g, s.refreshTokens[k].active
  PROVE  LET t == RetireOtherRefreshTokens(s, g, k) IN
         /\ Orderly(t)
         /\ t.grants = s.grants
         /\ StoredTokens(t) = StoredTokens(s)
         /\ t.refreshTokens[k] = s.refreshTokens[k]
         /\ \A u \in StoredTokens(s) :
              /\ t.refreshTokens[u].grant = s.refreshTokens[u].grant
              /\ t.refreshTokens[u].parent = s.refreshTokens[u].parent
              /\ t.refreshTokens[u].active =>
                   s.refreshTokens[u].active /\ (u = k \/ s.refreshTokens[u].grant # g)
              /\ s.refreshTokens[u].grant # g => t.refreshTokens[u] = s.refreshTokens[u]
PROOF
<1> DEFINE t == RetireOtherRefreshTokens(s, g, k)
<1>1. t.grants = s.grants
  BY DEF RetireOtherRefreshTokens, Store
<1>2. \A u \in Tokens : t.refreshTokens[u] =
        IF s.refreshTokens[u] # None /\ s.refreshTokens[u].grant = g /\ u # k
        THEN [s.refreshTokens[u] EXCEPT !.active = FALSE] ELSE s.refreshTokens[u]
  BY DEF RetireOtherRefreshTokens, Store
<1> HIDE DEF t
<1>3. \A u \in StoredTokens(s) : u \in Tokens /\ s.refreshTokens[u] \in RefreshRecord
  BY DEF StoredTokens, Store
<1>4. ASSUME NEW u \in StoredTokens(s)
      PROVE  /\ t.refreshTokens[u] \in RefreshRecord
             /\ t.refreshTokens[u].grant = s.refreshTokens[u].grant
             /\ t.refreshTokens[u].parent = s.refreshTokens[u].parent
             /\ t.refreshTokens[u].active =>
                  s.refreshTokens[u].active /\ (u = k \/ s.refreshTokens[u].grant # g)
             /\ s.refreshTokens[u].grant # g => t.refreshTokens[u] = s.refreshTokens[u]
  <2>1. u \in Tokens /\ s.refreshTokens[u] \in RefreshRecord /\ s.refreshTokens[u] # None
    BY <1>3 DEF StoredTokens
  <2>2. CASE s.refreshTokens[u].grant = g /\ u # k
    <3>1. t.refreshTokens[u] = [s.refreshTokens[u] EXCEPT !.active = FALSE]
      BY <2>1, <2>2, <1>2
    <3> QED
      BY <2>1, <2>2, <3>1 DEF RefreshRecord
  <2>3. CASE ~(s.refreshTokens[u].grant = g /\ u # k)
    <3>1. t.refreshTokens[u] = s.refreshTokens[u]
      BY <2>1, <2>3, <1>2
    <3> QED
      BY <2>1, <2>3, <3>1
  <2> QED
    BY <2>2, <2>3
<1>5. StoredTokens(t) = StoredTokens(s)
  <2>1. \A u \in Tokens : s.refreshTokens[u] = None => t.refreshTokens[u] = None
    BY <1>2
  <2>2. \A u \in StoredTokens(s) : t.refreshTokens[u] # None
    BY <1>4, NoneAssumption
  <2> QED
    BY <2>1, <2>2 DEF StoredTokens
<1>6. t.refreshTokens[k] = s.refreshTokens[k]
  BY <1>2, <1>3
<1>7. ParentsStored(t)
  <2>1. ParentsStored(s)
    BY DEF Orderly
  <2> QED
    BY <2>1, <1>4, <1>5 DEF ParentsStored
<1>8. GrandparentsRetired(t)
  <2>1. GrandparentsRetired(s)
    BY DEF Orderly
  <2> QED
    BY <2>1, <1>4, <1>5 DEF GrandparentsRetired
<1>9. GrantsUsable(t)
  <2> SUFFICES ASSUME NEW u \in StoredTokens(s)
               PROVE  \E v \in StoredTokens(s) :
                        /\ t.refreshTokens[v].grant = t.refreshTokens[u].grant
                        /\ t.refreshTokens[v].active
    BY <1>5 DEF GrantsUsable, ActiveTokens
  <2>1. CASE s.refreshTokens[u].grant = g
    BY <2>1, <1>4, <1>6
  <2>2. CASE s.refreshTokens[u].grant # g
    <3>1. PICK v \in StoredTokens(s) : /\ s.refreshTokens[v].grant = s.refreshTokens[u].grant
                                       /\ s.refreshTokens[v].active
      BY DEF Orderly, GrantsUsable, ActiveTokens
    <3> QED
      BY <2>2, <3>1, <1>4
  <2> QED
    BY <2>1, <2>2
<1> QED
  BY <1>1, <1>4, <1>5, <1>6, <1>7, <1>8, <1>9 DEF Orderly, t

\* A token that is active is not changed by being activated.
LEMMA ReactivateNothing ==
  ASSUME NEW s \in Store, NEW k \in StoredTokens(s), s.refreshTokens[k].active
  PROVE  ReactivateRefreshToken(s, k) = s
PROOF
<1>1. k \in Tokens /\ s.refreshTokens[k] \in RefreshRecord
  BY DEF StoredTokens, Store
<1>2. s.refreshTokens[k].active = TRUE
  BY <1>1 DEF RefreshRecord
<1>3. [s.refreshTokens[k] EXCEPT !.active = TRUE] = s.refreshTokens[k]
  BY <1>1, <1>2 DEF RefreshRecord
<1>4. [s.refreshTokens EXCEPT ![k] = s.refreshTokens[k]] = s.refreshTokens
  BY <1>1 DEF Store
<1>5. ReactivateRefreshToken(s, k) = [s EXCEPT !.refreshTokens = s.refreshTokens]
  BY <1>3, <1>4 DEF ReactivateRefreshToken
<1> QED
  BY <1>5 DEF Store

-----------------------------------------------------------------------------
\* A turn of the server and the order of refresh tokens.

\* A write of request r that takes store s to store t leaves the other requests with
\* what they wait with.
Continues(s, t, r) ==
  /\ Orderly(t)
  /\ Narrows(s, t)
  /\ \A q \in Requests \ {r} : Current(t, requests[q])

\* Scopes are as narrow as they were when nothing changes.
LEMMA NarrowsReflexive == \A s, t : t.grants = s.grants => Narrows(s, t)
PROOF
  BY DEF Narrows

\* Scopes narrow over any number of writes.
LEMMA NarrowsTransitive ==
  ASSUME NEW s, NEW t, NEW u, Narrows(s, t), Narrows(t, u)
  PROVE  Narrows(s, u)
PROOF
  BY DEF Narrows

\* A request that is not a refresh waits with no refresh token.
LEMMA OthersAreCurrent ==
  /\ \A s, req : ~IsRefresh(req) => Current(s, req)
  /\ ~IsRefresh(Idle)
PROOF
  BY DEF Current, IsRefresh, Idle

\* However a turn ends, when each of its writes leaves the order as it should be, the
\* file narrows and the memory has narrowed no less.
LEMMA TurnKeepsOrder ==
  ASSUME Inv, OrderInv, NEW r \in Requests, NEW writes, Len(writes) \in Nat \ {0},
         \A i \in 1 .. Len(writes) : Continues(mem, writes[i], r),
         \A i \in 2 .. Len(writes) : Narrows(writes[i - 1], writes[i]),
         NEW next, Current(writes[Len(writes)], next),
         NEW answered, Turn(r, writes, next, answered)
  PROVE  OrderInv' /\ Narrows(disk, disk')
PROOF
<1>1. Len(writes) \in 1 .. Len(writes)
  OBVIOUS
<1>2. requests \in [Requests -> RequestStates]
  BY DEF Inv, TypeOK
<1>3. \A i \in 1 .. Len(writes) :
        /\ Orderly(writes[i])
        /\ Narrows(disk, writes[i])
        /\ \A q \in Requests \ {r} : Current(writes[i], requests[q])
  BY NarrowsTransitive DEF Continues, OrderInv
<1>4. Orderly(disk) /\ Narrows(disk, disk)
  BY NarrowsReflexive DEF OrderInv
<1>5. \A s : Current(s, Idle)
  BY OthersAreCurrent
<1>6. CASE Completes(r, writes, next)
  <2>1. mem' = writes[Len(writes)] /\ disk' = mem' /\ requests' = [requests EXCEPT ![r] = next]
    BY <1>6 DEF Completes
  <2>2. Orderly(mem') /\ Orderly(disk') /\ Narrows(disk, disk') /\ Narrows(disk', mem')
    BY <1>1, <1>3, <2>1, NarrowsReflexive
  <2>3. \A q \in Requests : Current(mem', requests'[q])
    BY <1>1, <1>2, <1>3, <2>1
  <2> QED
    BY <2>2, <2>3 DEF OrderInv
<1>7. CASE PersistThrows(r, writes)
  <2>1. PICK k \in 1 .. Len(writes) :
          /\ mem' = writes[k]
          /\ disk' = IF k = 1 THEN disk ELSE writes[k - 1]
    BY <1>7 DEF PersistThrows
  <2>2. requests' = [requests EXCEPT ![r] = Idle]
    BY <1>7 DEF PersistThrows
  <2>3. Orderly(mem') /\ Orderly(disk') /\ Narrows(disk, disk') /\ Narrows(disk', mem')
    <3>1. CASE k = 1
      BY <3>1, <2>1, <1>3, <1>4
    <3>2. CASE k # 1
      <4>1. k \in 2 .. Len(writes) /\ k - 1 \in 1 .. Len(writes)
        BY <3>2
      <4> QED
        BY <3>2, <4>1, <2>1, <1>3
    <3> QED
      BY <3>1, <3>2
  <2>4. \A q \in Requests : Current(mem', requests'[q])
    BY <1>2, <1>3, <1>5, <2>1, <2>2
  <2> QED
    BY <2>3, <2>4 DEF OrderInv
<1>8. CASE DiesAfterWrite(writes)
  <2>1. PICK k \in 1 .. Len(writes) : mem' = writes[k] /\ disk' = writes[k]
    BY <1>8 DEF DiesAfterWrite
  <2>2. requests' = [q \in Requests |-> Idle]
    BY <1>8 DEF DiesAfterWrite
  <2>3. Orderly(mem') /\ Orderly(disk') /\ Narrows(disk, disk') /\ Narrows(disk', mem')
    BY <2>1, <1>3, NarrowsReflexive
  <2>4. \A q \in Requests : Current(mem', requests'[q])
    BY <1>5, <2>2
  <2> QED
    BY <2>3, <2>4 DEF OrderInv
<1> QED
  BY <1>6, <1>7, <1>8 DEF Turn

\* A step that leaves the stores alone and lets one request wait for something new.
LEMMA WaitKeepsOrder ==
  ASSUME Inv, OrderInv, NEW r \in Requests, NEW next, Current(mem, next),
         requests' = [requests EXCEPT ![r] = next],
         UNCHANGED <<mem, disk>>
  PROVE  OrderInv' /\ Narrows(disk, disk')
PROOF
<1>1. requests \in [Requests -> RequestStates]
  BY DEF Inv, TypeOK
<1>2. \A q \in Requests : Current(mem', requests'[q])
  BY <1>1 DEF OrderInv
<1> QED
  BY <1>2, NarrowsReflexive DEF OrderInv

\* A write that changes neither a grant nor a refresh token.
Quiet(s, t) == t.refreshTokens = s.refreshTokens /\ t.grants = s.grants

\* Quiet writes leave the order as it is.
LEMMA QuietContinues ==
  ASSUME OrderInv, NEW t, Quiet(mem, t), NEW r
  PROVE  Continues(mem, t, r)
PROOF
<1>1. Orderly(t) /\ Narrows(mem, t)
  BY SameTokensOrderly, NarrowsReflexive DEF OrderInv, Quiet
<1>2. \A q \in Requests : Current(t, requests[q])
  BY DEF OrderInv, Quiet, Current
<1> QED
  BY <1>1, <1>2 DEF Continues

\* A turn of one quiet write.
LEMMA QuietWriteKeepsOrder ==
  ASSUME Inv, OrderInv, NEW r \in Requests, NEW s, Quiet(mem, s),
         NEW next, ~IsRefresh(next), NEW answered, Turn(r, <<s>>, next, answered)
  PROVE  OrderInv' /\ Narrows(disk, disk')
PROOF
<1> DEFINE ws == <<s>>
<1>1. Len(ws) = 1 /\ ws[1] = s
  OBVIOUS
<1>2. Turn(r, ws, next, answered)
  OBVIOUS
<1> HIDE DEF ws
<1>3. Len(ws) \in Nat \ {0}
  BY <1>1
<1>4. /\ \A i \in 1 .. Len(ws) : Continues(mem, ws[i], r)
      /\ \A i \in 2 .. Len(ws) : Narrows(ws[i - 1], ws[i])
  BY <1>1, QuietContinues
<1> QED
  BY <1>2, <1>3, <1>4, OthersAreCurrent, TurnKeepsOrder

-----------------------------------------------------------------------------
\* Every action keeps the order, while refreshes of a grant do not overlap.

\* Up to the redemption of a code there are no refresh tokens to order.
LEMMA FlowsKeepOrder ==
  ASSUME RecordsInv, OrderInv, NEW r \in Requests,
         \/ \E client \in Clients : RegisterClient(r, client)
         \/ \E flow \in Flows, hasCode \in BOOLEAN : HandleCallback(r, flow, hasCode)
         \/ \E code \in Codes, upstream \in FirstUpstreamTokens :
              IssueAuthorizationCode(r, code, upstream)
         \/ \E code \in Codes, client \in Clients : RedeemCode(r, code, client)
  PROVE  OrderInv' /\ Narrows(disk, disk')
PROOF
<1>1. Inv /\ mem \in Store
  BY RecordsFacts
<1>2. ASSUME NEW c \in Clients, RegisterClient(r, c)
      PROVE  OrderInv' /\ Narrows(disk, disk')
  <2>1. Turn(r, <<SaveRegisteredClient(mem, c)>>, Idle, {})
    BY <1>2 DEF RegisterClient
  <2>2. Quiet(mem, SaveRegisteredClient(mem, c))
    BY <1>1 DEF SaveRegisteredClient, Store, Quiet
  <2> QED
    BY <1>1, <2>1, <2>2, OthersAreCurrent, QuietWriteKeepsOrder
<1>3. ASSUME NEW f \in Flows, NEW hasCode \in BOOLEAN, HandleCallback(r, f, hasCode)
      PROVE  OrderInv' /\ Narrows(disk, disk')
  <2> DEFINE next == IF hasCode /\ mem.transactions[f] # None
                     THEN [at |-> "callback", flow |-> f] ELSE Idle
  <2>1. Turn(r, <<MarkStateUsed(mem, f)>>, next, {})
    BY <1>3 DEF HandleCallback
  <2>2. Quiet(mem, MarkStateUsed(mem, f))
    BY <1>1 DEF MarkStateUsed, Store, Quiet
  <2>3. ~IsRefresh(next)
    BY OthersAreCurrent DEF IsRefresh
  <2> HIDE DEF next
  <2> QED
    BY <1>1, <2>1, <2>2, <2>3, QuietWriteKeepsOrder
<1>4. ASSUME NEW c \in Codes, NEW up \in FirstUpstreamTokens, IssueAuthorizationCode(r, c, up)
      PROVE  OrderInv' /\ Narrows(disk, disk')
  <2> DEFINE s == SaveAuthorizationCode(mem, c, AuthorizationCode(requests[r].flow, up))
  <2>1. Turn(r, <<s>>, Idle, {})
    BY <1>4 DEF IssueAuthorizationCode
  <2>2. Quiet(mem, s)
    BY <1>1 DEF SaveAuthorizationCode, Store, Quiet
  <2> HIDE DEF s
  <2> QED
    BY <1>1, <2>1, <2>2, OthersAreCurrent, QuietWriteKeepsOrder
<1>5. ASSUME NEW c \in Codes, NEW client \in Clients, RedeemCode(r, c, client)
      PROVE  OrderInv' /\ Narrows(disk, disk')
  <2> DEFINE up   == mem.authorizationCodes[c].upstream
             end  == UpstreamAccessTokenExpiresAt(up)
             next == [at |-> "issue", code |-> c, upstreamAccessExpiresAt |-> end,
                      accessTtl  |-> CappedTtl(AccessTokenTtl, up, end),
                      refreshTtl |-> CappedTtl(RefreshTokenTtl, up, end)]
  <2>1. Turn(r, <<MarkCodeUsed(mem, c)>>, next, {})
    BY <1>5 DEF RedeemCode
  <2>2. Quiet(mem, MarkCodeUsed(mem, c))
    BY <1>1 DEF MarkCodeUsed, Store, Quiet
  <2>3. ~IsRefresh(next)
    BY DEF IsRefresh
  <2> HIDE DEF next
  <2> QED
    BY <1>1, <2>1, <2>2, <2>3, QuietWriteKeepsOrder
<1> QED
  BY <1>2, <1>3, <1>4, <1>5, Zenon

\* A flow that starts changes neither a grant nor a refresh token.
LEMMA StartAuthorizationKeepsOrder ==
  ASSUME RecordsInv, OrderInv, NEW r \in Requests, NEW f \in Flows, NEW c \in Clients,
         NEW requested \in SUBSET Scopes, StartAuthorization(r, f, c, requested)
  PROVE  OrderInv' /\ Narrows(disk, disk')
PROOF
<1> DEFINE s1 == SavePendingState(mem, f, PendingState)
           s2 == SaveTransaction(s1, f,
                   [client |-> c, scopes |-> ResolveScopes(requested, ScopesOf[c])])
           ws == <<s1, s2>>
<1>1. Inv /\ mem \in Store
  BY RecordsFacts
<1>2. Turn(r, ws, Idle, {})
  BY DEF StartAuthorization
<1>3. Quiet(mem, s1)
  BY <1>1 DEF SavePendingState, Store, Quiet
<1>4. s2.grants = s1.grants /\ s2.refreshTokens = s1.refreshTokens
  BY <1>1 DEF SavePendingState, SaveTransaction, Store
<1> HIDE DEF s1, s2
<1>5. Quiet(mem, s2) /\ Narrows(s1, s2)
  BY <1>3, <1>4, NarrowsReflexive DEF Quiet
<1>6. Len(ws) = 2 /\ ws[1] = s1 /\ ws[2] = s2
  OBVIOUS
<1> HIDE DEF ws
<1>7. Len(ws) \in Nat \ {0}
  BY <1>6
<1>8. /\ \A i \in 1 .. Len(ws) : Continues(mem, ws[i], r)
      /\ \A i \in 2 .. Len(ws) : Narrows(ws[i - 1], ws[i])
  BY <1>3, <1>5, <1>6, QuietContinues
<1> QED
  BY <1>1, <1>2, <1>7, <1>8, OthersAreCurrent, TurnKeepsOrder

\* What a refresh waits with belongs to a grant that is there.
LEMMA RefreshesBelong ==
  ASSUME RecordsInv, NEW r \in Requests, IsRefresh(requests[r])
  PROVE  /\ requests[r].token \in StoredTokens(mem)
         /\ requests[r].grant \in Grants
         /\ requests[r].scopes \in SUBSET Scopes
         /\ mem.refreshTokens[requests[r].token].grant = requests[r].grant
         /\ mem.grants[requests[r].grant] # None
         /\ mem.grants[requests[r].grant] \in GrantRecord
PROOF
<1>1. requests[r] \in AwaitingProvider \cup AwaitingRotation
  BY RecordsFacts, RequestKinds DEF IsRefresh
<1>2. /\ requests[r].token \in Tokens
      /\ requests[r].grant \in Grants
      /\ requests[r].scopes \in SUBSET Scopes
  BY <1>1 DEF AwaitingProvider, AwaitingRotation
<1>3. /\ mem.refreshTokens[requests[r].token] # None
      /\ mem.grants[requests[r].grant] # None
      /\ mem.refreshTokens[requests[r].token].grant = requests[r].grant
  BY RecordsFacts DEF IsRefresh, Grounded, Supported
<1> QED
  BY <1>2, <1>3, RecordsFacts DEF StoredTokens, Store

\* A refresh is not disturbed by a write that leaves its token and its grant alone.
LEMMA UndisturbedIsCurrent ==
  ASSUME OrderInv, NEW q \in Requests, NEW t,
         IsRefresh(requests[q]) =>
           /\ t.refreshTokens[requests[q].token] = mem.refreshTokens[requests[q].token]
           /\ t.grants[requests[q].grant] = mem.grants[requests[q].grant]
  PROVE  Current(t, requests[q])
PROOF
  BY DEF OrderInv, Current

\* A new grant and its first token disturb no refresh, which are of other grants.
LEMMA IssueTokensKeepsOrder ==
  ASSUME RecordsInv, OrderInv, NEW r \in Requests, NEW g \in Grants, NEW k \in Tokens,
         IssueTokens(r, g, k)
  PROVE  OrderInv' /\ Narrows(disk, disk')
PROOF
<1> DEFINE req  == requests[r]
           code == mem.authorizationCodes[req.code]
           rec1 == [client |-> code.client, scopes |-> code.scopes,
                    flow |-> code.flow, upstream |-> code.upstream,
                    upstreamAccessExpiresAt |-> req.upstreamAccessExpiresAt,
                    upstreamEnd |-> code.upstreamEnd]
           rec2 == [grant |-> g, client |-> code.client, scopes |-> code.scopes,
                    expiresAt |-> now + req.accessTtl * Second]
           rec3 == [grant |-> g, active |-> TRUE,
                    expiresAt |-> now + req.refreshTtl * Second, parent |-> None]
           s1   == SaveGrant(mem, g, rec1)
           s2   == SaveAccessToken(s1, k, rec2)
           s3   == SaveRefreshToken(s2, k, rec3)
           ws   == <<s1, s2, s3>>
<1>1. /\ req.at = "issue"
      /\ mem.grants[g] = None
      /\ mem.refreshTokens[k] = None
      /\ Turn(r, ws, Idle, {k})
  BY DEF IssueTokens
<1>2. Inv /\ mem \in Store /\ req \in AwaitingIssue
  BY <1>1, RecordsFacts, RequestKinds
<1>3. req.code \in Codes /\ code \in CodeRecord
  BY <1>1, <1>2, RecordsFacts DEF Grounded, AwaitingIssue, Store
<1>4. rec1 \in GrantRecord
  BY <1>2, <1>3 DEF CodeRecord, GrantRecord, AwaitingIssue
<1>5. /\ now + req.accessTtl * Second \in Nat
      /\ now + req.refreshTtl * Second \in Nat
  <2>1. req.accessTtl * Second \in Nat /\ req.refreshTtl * Second \in Nat
    BY <1>2, ClockFacts, ProductInNat DEF AwaitingIssue
  <2>2. now \in Nat
    BY RecordsFacts
  <2> HIDE DEF req
  <2> QED
    BY <2>1, <2>2
<1>6. rec2 \in AccessRecord /\ rec3 \in RefreshRecord
  BY <1>3, <1>5 DEF CodeRecord, AccessRecord, RefreshRecord
<1>7. rec3.active /\ rec3.parent = None
  OBVIOUS
<1> HIDE DEF rec1, rec2, rec3
<1>8. /\ s1 \in Store /\ s2 \in Store /\ s3 \in Store
  BY <1>2, <1>4, <1>6, SavesKeepStore
<1>9. /\ s1.grants = [mem.grants EXCEPT ![g] = rec1]
      /\ s1.refreshTokens = mem.refreshTokens
      /\ s2.grants = s1.grants
      /\ s2.refreshTokens = s1.refreshTokens
      /\ s3.grants = s2.grants
      /\ s3.refreshTokens = [s2.refreshTokens EXCEPT ![k] = rec3]
  BY <1>2, <1>8 DEF SaveGrant, SaveAccessToken, SaveRefreshToken, Store
<1>10. Orderly(s1) /\ Orderly(s2)
  BY <1>9, SameTokensOrderly DEF OrderInv
<1>11. Orderly(s3)
  BY <1>1, <1>6, <1>7, <1>8, <1>9, <1>10, NewTokenOrderly
<1> HIDE DEF s1, s2, s3
<1>12. Narrows(mem, s1) /\ Narrows(s1, s2) /\ Narrows(s2, s3)
  <2>1. \A h \in Grants : mem.grants[h] # None => s1.grants[h] = mem.grants[h]
    BY <1>1, <1>2, <1>9 DEF Store
  <2> QED
    BY <1>9, <2>1, NarrowsReflexive DEF Narrows
<1>13. ASSUME NEW q \in Requests
       PROVE  Current(s1, requests[q]) /\ Current(s2, requests[q]) /\ Current(s3, requests[q])
  <2>1. IsRefresh(requests[q]) =>
          /\ requests[q].token \in Tokens /\ requests[q].token # k
          /\ requests[q].grant \in Grants /\ requests[q].grant # g
    BY <1>1, RefreshesBelong DEF StoredTokens
  <2>2. /\ \A h \in Grants \ {g} :
             s1.grants[h] = mem.grants[h] /\ s2.grants[h] = mem.grants[h]
               /\ s3.grants[h] = mem.grants[h]
        /\ \A u \in Tokens \ {k} :
             s1.refreshTokens[u] = mem.refreshTokens[u]
               /\ s2.refreshTokens[u] = mem.refreshTokens[u]
               /\ s3.refreshTokens[u] = mem.refreshTokens[u]
    BY <1>2, <1>9 DEF Store
  <2> QED
    BY <2>1, <2>2, UndisturbedIsCurrent
<1>14. Len(ws) = 3 /\ ws[1] = s1 /\ ws[2] = s2 /\ ws[3] = s3
  OBVIOUS
<1> HIDE DEF ws
<1>15. Len(ws) \in Nat \ {0}
  BY <1>14
<1>16. \A i \in 1 .. Len(ws) : Continues(mem, ws[i], r)
  <2>1. Narrows(mem, s2) /\ Narrows(mem, s3)
    BY <1>12, NarrowsTransitive
  <2> QED
    BY <1>10, <1>11, <1>12, <1>13, <1>14, <2>1 DEF Continues
<1>17. \A i \in 2 .. Len(ws) : Narrows(ws[i - 1], ws[i])
  BY <1>12, <1>14
<1> QED
  BY <1>1, <1>2, <1>15, <1>16, <1>17, OthersAreCurrent, TurnKeepsOrder

\* A refresh starts with an active token and with scopes that its grant has, and keeps
\* them on its way to its writes.
LEMMA RefreshesKeepOrder ==
  ASSUME RecordsInv, OrderInv, NEW r \in Requests,
         \/ \E token \in Tokens, client \in Clients, requested \in SUBSET Scopes :
              StartRefresh(r, token, client, requested)
         \/ \E rotates \in BOOLEAN : ProviderRefreshes(r, rotates)
         \/ ProviderRefuses(r)
         \/ ProviderAnswerLost(r)
  PROVE  OrderInv' /\ Narrows(disk, disk')
PROOF
<1>1. Inv
  BY RecordsFacts
<1>2. ASSUME NEW k \in Tokens, NEW c \in Clients, NEW requested \in SUBSET Scopes,
             StartRefresh(r, k, c, requested)
      PROVE  OrderInv' /\ Narrows(disk, disk')
  <2> DEFINE id     == mem.refreshTokens[k].grant
             grant  == mem.grants[id]
             scopes == ResolveScopes(requested, grant.scopes)
             asks   == [at |-> "provider", token |-> k, grant |-> id,
                        scopes |-> scopes, sent |-> grant.upstream.refreshToken]
             turns  == Rotation(k, id, scopes, grant.upstream,
                                grant.upstreamAccessExpiresAt)
             next   == IF grant.upstream.refreshToken # Never THEN asks ELSE turns
  <2>1. /\ mem.refreshTokens[k].active
        /\ requested \subseteq grant.scopes
        /\ requests' = [requests EXCEPT ![r] = next]
        /\ UNCHANGED <<mem, disk>>
    BY <1>2 DEF StartRefresh, RefreshAccepted
  <2>2. scopes \subseteq grant.scopes
    BY <2>1 DEF ResolveScopes
  <2>3. next.token = k /\ next.grant = id /\ next.scopes = scopes
    BY DEF Rotation
  <2> HIDE DEF next
  <2>4. Current(mem, next)
    BY <2>1, <2>2, <2>3 DEF Current
  <2> QED
    BY <1>1, <2>1, <2>4, WaitKeepsOrder
<1>3. ASSUME NEW rotates \in BOOLEAN, ProviderRefreshes(r, rotates)
      PROVE  OrderInv' /\ Narrows(disk, disk')
  <2> DEFINE req  == requests[r]
             kept == [refreshToken |-> IF rotates THEN provider[FlowOf(r)] + 1 ELSE req.sent,
                      expiresIn |-> Never]
             next == Rotation(req.token, req.grant, req.scopes, kept,
                              UpstreamAccessTokenExpiresAt(kept))
  <2>1. /\ req.at = "provider"
        /\ requests' = [requests EXCEPT ![r] = next]
        /\ UNCHANGED <<mem, disk>>
    BY <1>3 DEF ProviderRefreshes
  <2>2. next.token = req.token /\ next.grant = req.grant /\ next.scopes = req.scopes
    BY DEF Rotation
  <2> HIDE DEF next
  <2>3. Current(mem, req)
    BY DEF OrderInv
  <2>4. Current(mem, next)
    BY <2>1, <2>2, <2>3 DEF Current, IsRefresh
  <2> QED
    BY <1>1, <2>1, <2>4, WaitKeepsOrder
<1>4. ASSUME ProviderRefuses(r) \/ ProviderAnswerLost(r)
      PROVE  OrderInv' /\ Narrows(disk, disk')
  <2>1. requests' = [requests EXCEPT ![r] = Idle] /\ UNCHANGED <<mem, disk>>
    BY <1>4 DEF ProviderRefuses, ProviderAnswerLost
  <2> QED
    BY <1>1, <2>1, OthersAreCurrent, WaitKeepsOrder
<1> QED
  BY <1>2, <1>3, <1>4, Zenon

\* A rotation waits alone for its grant, so the token it presents is still active: the
\* others are retired, among them the parent of that token, before its child is stored.
LEMMA RotateTokensKeepsOrder ==
  ASSUME RecordsInv, RefreshesDoNotOverlap, OrderInv,
         NEW r \in Requests, NEW k \in Tokens, RotateTokens(r, k)
  PROVE  OrderInv' /\ Narrows(disk, disk')
PROOF
<1> DEFINE req  == requests[r]
           rec2 == [grant |-> req.grant, client |-> mem.grants[req.grant].client,
                    scopes |-> req.scopes,
                    expiresAt |-> now + req.accessTtl * Second]
           rec5 == [grant |-> req.grant, active |-> TRUE,
                    expiresAt |-> now + req.refreshTtl * Second,
                    parent |-> req.token]
           s1   == UpdateGrant(mem, req.grant, req.scopes, req.upstream,
                               req.upstreamAccessExpiresAt)
           s2   == SaveAccessToken(s1, k, rec2)
           s3   == RetireOtherRefreshTokens(s2, req.grant, req.token)
           s4   == ReactivateRefreshToken(s3, req.token)
           s5   == SaveRefreshToken(s4, k, rec5)
           ws   == IF s3 = s2 THEN <<s1, s2, s4, s5>> ELSE <<s1, s2, s3, s4, s5>>
<1>1. /\ req.at = "rotation"
      /\ mem.refreshTokens[k] = None
      /\ Turn(r, ws, Idle, {k})
  BY DEF RotateTokens
<1>2. Inv /\ mem \in Store /\ req \in AwaitingRotation
  BY <1>1, RecordsFacts, RequestKinds
<1>3. /\ IsRefresh(req)
      /\ req.token \in StoredTokens(mem)
      /\ req.grant \in Grants
      /\ mem.refreshTokens[req.token].grant = req.grant
      /\ mem.grants[req.grant] # None
      /\ mem.grants[req.grant] \in GrantRecord
  BY <1>1, RefreshesBelong DEF IsRefresh
<1>4. /\ mem.refreshTokens[req.token].active
      /\ req.scopes \subseteq mem.grants[req.grant].scopes
  BY <1>3 DEF OrderInv, Current
<1>5. /\ now + req.accessTtl * Second \in Nat
      /\ now + req.refreshTtl * Second \in Nat
  <2>1. req.accessTtl * Second \in Nat /\ req.refreshTtl * Second \in Nat
    BY <1>2, ClockFacts, ProductInNat DEF AwaitingRotation
  <2>2. now \in Nat
    BY RecordsFacts
  <2> HIDE DEF req
  <2> QED
    BY <2>1, <2>2
<1>6. rec2 \in AccessRecord /\ rec5 \in RefreshRecord
  <2>1. req.scopes \in SUBSET Scopes /\ req.token \in Tokens
    BY <1>2 DEF AwaitingRotation
  <2> QED
    BY <1>3, <1>5, <2>1 DEF GrantRecord, AccessRecord, RefreshRecord
<1>7. rec5.active /\ rec5.parent = req.token /\ rec5.grant = req.grant
  OBVIOUS
<1>8. s1 \in Store
  <2>1. /\ req.scopes \in SUBSET Scopes
        /\ req.upstream \in UpstreamTokens
        /\ req.upstreamAccessExpiresAt \in Nat
    BY <1>2 DEF AwaitingRotation
  <2> QED
    BY <1>2, <1>3, <2>1, UpdatesKeepStore
<1>9. /\ s1.refreshTokens = mem.refreshTokens
      /\ s1.grants[req.grant] # None
      /\ s1.grants[req.grant].scopes = req.scopes
      /\ \A g \in Grants \ {req.grant} : s1.grants[g] = mem.grants[g]
  <2> DEFINE rec1 == [mem.grants[req.grant] EXCEPT
                        !.scopes = req.scopes, !.upstream = req.upstream,
                        !.upstreamAccessExpiresAt =
                          IF req.upstreamAccessExpiresAt = Never THEN @
                          ELSE req.upstreamAccessExpiresAt]
  <2>1. rec1 \in GrantRecord
    BY <1>2, <1>3 DEF AwaitingRotation, GrantRecord
  <2>2. rec1.scopes = req.scopes
    BY <1>3 DEF GrantRecord
  <2>3. s1 = SaveGrant(mem, req.grant, rec1)
    BY DEF UpdateGrant, SaveGrant
  <2> HIDE DEF rec1
  <2> QED
    BY <1>2, <1>3, <2>1, <2>2, <2>3, NoneAssumption DEF SaveGrant, Store
<1> HIDE DEF s1, rec2, rec5
<1>10. s2 \in Store /\ s2.grants = s1.grants /\ s2.refreshTokens = s1.refreshTokens
  <2>1. s2 \in Store
    BY <1>6, <1>8, SavesKeepStore
  <2> QED
    BY <1>8, <2>1 DEF SaveAccessToken, Store
<1> HIDE DEF s2
<1>11. Orderly(s1) /\ Orderly(s2)
  BY <1>9, <1>10, SameTokensOrderly DEF OrderInv
<1>12. /\ req.token \in StoredTokens(s2)
       /\ s2.refreshTokens[req.token].grant = req.grant
       /\ s2.refreshTokens[req.token].active
  BY <1>3, <1>4, <1>9, <1>10 DEF StoredTokens
<1>13. /\ Orderly(s3)
       /\ s3.grants = s2.grants
       /\ StoredTokens(s3) = StoredTokens(s2)
       /\ s3.refreshTokens[req.token] = s2.refreshTokens[req.token]
       /\ \A u \in StoredTokens(s2) :
            /\ s3.refreshTokens[u].grant = s2.refreshTokens[u].grant
            /\ s3.refreshTokens[u].active =>
                 u = req.token \/ s2.refreshTokens[u].grant # req.grant
            /\ s2.refreshTokens[u].grant # req.grant =>
                 s3.refreshTokens[u] = s2.refreshTokens[u]
  BY <1>10, <1>11, <1>12, RetireOrderly
<1>14. s3 \in Store
  BY <1>3, <1>10, UpdatesKeepStore DEF StoredTokens
<1> HIDE DEF s3
<1>15. s4 = s3
  BY <1>12, <1>13, <1>14, ReactivateNothing
<1> HIDE DEF s4
<1>16. s3.refreshTokens[k] = None
  <2>1. k \notin StoredTokens(s2)
    BY <1>1, <1>9, <1>10 DEF StoredTokens
  <2> QED
    BY <1>13, <2>1 DEF StoredTokens
<1>17. s5.grants = s4.grants /\ s5.refreshTokens = [s4.refreshTokens EXCEPT ![k] = rec5]
  BY <1>14, <1>15 DEF SaveRefreshToken, Store
<1>18. Orderly(s5)
  <2> DEFINE u == s3.refreshTokens[req.token].parent
  <2>1. u # None => ~s3.refreshTokens[u].active
    <3> HAVE u # None
    <3>1. /\ u \in StoredTokens(s2)
          /\ u # req.token
          /\ s2.refreshTokens[u].grant = req.grant
      BY <1>11, <1>12, <1>13 DEF Orderly, ParentsStored
    <3> QED
      BY <1>13, <3>1
  <2>2. /\ req.token \in StoredTokens(s3)
        /\ s3.refreshTokens[req.token].grant = req.grant
    BY <1>12, <1>13
  <2> HIDE DEF u
  <2> QED
    BY <1>6, <1>7, <1>13, <1>14, <1>15, <1>16, <2>1, <2>2, NewTokenOrderly DEF u
<1> HIDE DEF s5
<1>19. /\ Narrows(mem, s1)
       /\ \A s \in {s1, s2, s3, s4, s5}, t \in {s1, s2, s3, s4, s5} : Narrows(s, t)
  <2>1. Narrows(mem, s1)
    BY <1>4, <1>9 DEF Narrows
  <2> QED
    BY <1>10, <1>13, <1>15, <1>17, <2>1, NarrowsReflexive
<1>20. ASSUME NEW q \in Requests \ {r}, NEW s \in {s1, s2, s3, s4, s5}
       PROVE  Current(s, requests[q])
  <2> SUFFICES ASSUME IsRefresh(requests[q])
               PROVE  /\ s.refreshTokens[requests[q].token]
                            = mem.refreshTokens[requests[q].token]
                      /\ s.grants[requests[q].grant] = mem.grants[requests[q].grant]
    BY UndisturbedIsCurrent
  <2>1. /\ requests[q].token \in StoredTokens(mem)
        /\ requests[q].grant \in Grants
        /\ mem.refreshTokens[requests[q].token].grant = requests[q].grant
    BY RefreshesBelong
  <2>2. requests[q].grant # req.grant
    BY <1>1 DEF RefreshesDoNotOverlap, IsRefresh
  <2>3. requests[q].token \in StoredTokens(s2) /\ requests[q].token # k
    BY <1>1, <1>9, <1>10, <2>1 DEF StoredTokens
  <2>4. /\ s2.refreshTokens[requests[q].token] = mem.refreshTokens[requests[q].token]
        /\ s3.refreshTokens[requests[q].token] = mem.refreshTokens[requests[q].token]
    BY <1>9, <1>10, <1>13, <2>1, <2>2, <2>3
  <2>5. s5.refreshTokens[requests[q].token] = s4.refreshTokens[requests[q].token]
    BY <1>14, <1>15, <1>17, <2>1, <2>3 DEF StoredTokens, Store
  <2>6. s.refreshTokens[requests[q].token] = mem.refreshTokens[requests[q].token]
    BY <1>9, <1>15, <2>4, <2>5
  <2>7. s.grants[requests[q].grant] = mem.grants[requests[q].grant]
    BY <1>9, <1>10, <1>13, <1>15, <1>17, <2>1, <2>2
  <2> QED
    BY <2>6, <2>7
<1>21. \A s \in {s1, s2, s3, s4, s5} : Continues(mem, s, r)
  BY <1>11, <1>13, <1>15, <1>18, <1>19, <1>20, NarrowsTransitive DEF Continues
<1>22. /\ Len(ws) \in Nat \ {0}
       /\ \A i \in 1 .. Len(ws) : ws[i] \in {s1, s2, s3, s4, s5}
  <2>1. CASE s3 = s2
    <3>1. ws = <<s1, s2, s4, s5>>
      BY <2>1
    <3> HIDE DEF ws
    <3>2. Len(ws) = 4 /\ ws[1] = s1 /\ ws[2] = s2 /\ ws[3] = s4 /\ ws[4] = s5
      BY <3>1
    <3> QED
      BY <3>2
  <2>2. CASE s3 # s2
    <3>1. ws = <<s1, s2, s3, s4, s5>>
      BY <2>2
    <3> HIDE DEF ws
    <3>2. Len(ws) = 5 /\ ws[1] = s1 /\ ws[2] = s2 /\ ws[3] = s3 /\ ws[4] = s4 /\ ws[5] = s5
      BY <3>1
    <3> QED
      BY <3>2
  <2> QED
    BY <2>1, <2>2
<1> HIDE DEF ws
<1>23. \A i \in 1 .. Len(ws) : Continues(mem, ws[i], r)
  BY <1>21, <1>22
<1>24. \A i \in 2 .. Len(ws) : Narrows(ws[i - 1], ws[i])
  <2> SUFFICES ASSUME NEW i \in 2 .. Len(ws) PROVE Narrows(ws[i - 1], ws[i])
    OBVIOUS
  <2>1. i \in 1 .. Len(ws) /\ i - 1 \in 1 .. Len(ws)
    BY <1>22
  <2> QED
    BY <1>19, <1>22, <2>1
<1> QED
  BY <1>1, <1>2, <1>22, <1>23, <1>24, OthersAreCurrent, TurnKeepsOrder

\* Every step keeps the order, and the scopes on the file only narrow.
LEMMA StepKeepsOrder ==
  ASSUME RecordsInv, RefreshesDoNotOverlap, OrderInv, [Next]_vars
  PROVE  OrderInv' /\ Narrows(disk, disk')
PROOF
<1>1. ASSUME NEW r \in Requests,
             \/ \E client \in Clients : RegisterClient(r, client)
             \/ \E flow \in Flows, client \in Clients, requested \in SUBSET Scopes :
                  StartAuthorization(r, flow, client, requested)
             \/ \E flow \in Flows, hasCode \in BOOLEAN : HandleCallback(r, flow, hasCode)
             \/ \E code \in Codes, upstream \in FirstUpstreamTokens :
                  IssueAuthorizationCode(r, code, upstream)
             \/ \E code \in Codes, client \in Clients : RedeemCode(r, code, client)
             \/ \E grant \in Grants, token \in Tokens : IssueTokens(r, grant, token)
      PROVE  OrderInv' /\ Narrows(disk, disk')
  BY <1>1, FlowsKeepOrder, StartAuthorizationKeepsOrder, IssueTokensKeepsOrder, Zenon
<1>2. ASSUME NEW r \in Requests,
             \/ ProviderRefuses(r)
             \/ \E token \in Tokens, client \in Clients, requested \in SUBSET Scopes :
                  StartRefresh(r, token, client, requested)
             \/ \E rotates \in BOOLEAN : ProviderRefreshes(r, rotates)
             \/ ProviderAnswerLost(r)
             \/ \E token \in Tokens : RotateTokens(r, token)
      PROVE  OrderInv' /\ Narrows(disk, disk')
  BY <1>2, RefreshesKeepOrder, RotateTokensKeepsOrder, Zenon
<1>3. CASE Restart
  <2>1. mem' = disk /\ disk' = disk /\ requests' = [r \in Requests |-> Idle]
    BY <1>3 DEF Restart
  <2>2. \A r \in Requests : Current(mem', requests'[r])
    BY <2>1, OthersAreCurrent
  <2> QED
    BY <2>1, <2>2, NarrowsReflexive DEF OrderInv
<1>4. CASE Tick \/ UNCHANGED vars
  <2>1. UNCHANGED <<mem, disk, requests>>
    BY <1>4 DEF Tick, vars
  <2> QED
    BY <2>1, NarrowsReflexive DEF OrderInv
<1> QED
  BY <1>1, <1>2, <1>3, <1>4, Zenon DEF Next

-----------------------------------------------------------------------------
\* How many tokens of the provider a store misses.

\* Grants and codes hold numbers of tokens of flows.
LEMMA HoldersTyped ==
  ASSUME NEW s \in Store
  PROVE  /\ \A g \in Grants : s.grants[g] # None =>
              s.grants[g].flow \in Flows /\ s.grants[g].upstream.refreshToken \in Nat
         /\ \A c \in Codes : s.authorizationCodes[c] # None =>
              /\ s.authorizationCodes[c].flow \in Flows
              /\ s.authorizationCodes[c].upstream.refreshToken \in Nat
PROOF
<1>1. ASSUME NEW g \in Grants, s.grants[g] # None
      PROVE  s.grants[g].flow \in Flows /\ s.grants[g].upstream.refreshToken \in Nat
  BY <1>1 DEF Store, GrantRecord, UpstreamTokens
<1>2. ASSUME NEW c \in Codes, s.authorizationCodes[c] # None
      PROVE  /\ s.authorizationCodes[c].flow \in Flows
             /\ s.authorizationCodes[c].upstream.refreshToken \in Nat
  BY <1>2 DEF Store, CodeRecord, UpstreamTokens
<1> QED
  BY <1>1, <1>2

\* A store still keeps up when, for every flow it uses, as much slack is added as
\* tokens are issued.
LEMMA SlackAllows ==
  ASSUME NEW s \in Store, NEW i \in [Flows -> Nat], NEW j \in [Flows -> Nat],
         NEW a \in [Flows -> Nat], NEW b \in [Flows -> Nat],
         \A f \in Flows : Uses(s, f) => i[f] <= j[f] /\ j[f] + a[f] <= i[f] + b[f],
         KeepsUp(s, i, a)
  PROVE  KeepsUp(s, j, b)
PROOF
<1>1. ASSUME NEW f \in Flows, Uses(s, f), NEW n \in Nat, i[f] - n \in 0 .. a[f]
      PROVE  j[f] - n \in 0 .. b[f]
  <2>1. i[f] <= j[f] /\ j[f] + a[f] <= i[f] + b[f]
    BY <1>1
  <2>2. i[f] \in Nat /\ j[f] \in Nat /\ a[f] \in Nat /\ b[f] \in Nat
    OBVIOUS
  <2> QED
    BY <1>1, <2>1, <2>2
<1>2. ASSUME NEW g \in Grants, s.grants[g] # None
      PROVE  LET flow == s.grants[g].flow IN
             j[flow] - s.grants[g].upstream.refreshToken \in 0 .. b[flow]
  <2>1. Uses(s, s.grants[g].flow)
    BY <1>2 DEF Uses, HasGrant
  <2>2. i[s.grants[g].flow] - s.grants[g].upstream.refreshToken \in 0 .. a[s.grants[g].flow]
    BY <1>2 DEF KeepsUp
  <2> QED
    BY <1>1, <1>2, <2>1, <2>2, HoldersTyped
<1>3. ASSUME NEW c \in Codes, s.authorizationCodes[c] # None,
             ~HasGrant(s, s.authorizationCodes[c].flow)
      PROVE  LET flow == s.authorizationCodes[c].flow IN
             j[flow] - s.authorizationCodes[c].upstream.refreshToken \in 0 .. b[flow]
  <2> DEFINE flow == s.authorizationCodes[c].flow
  <2>1. Uses(s, flow)
    BY <1>3 DEF Uses
  <2>2. i[flow] - s.authorizationCodes[c].upstream.refreshToken \in 0 .. a[flow]
    BY <1>3 DEF KeepsUp
  <2> QED
    BY <1>1, <1>3, <2>1, <2>2, HoldersTyped
<1> QED
  BY <1>2, <1>3 DEF KeepsUp

\* Writes that change no grant, and no upstream token of a code, leave it as it is.
LEMMA SameHolders ==
  ASSUME NEW s, NEW t, NEW i, NEW a, KeepsUp(s, i, a),
         t.grants = s.grants,
         \A c \in Codes : t.authorizationCodes[c] # None =>
           /\ s.authorizationCodes[c] # None
           /\ t.authorizationCodes[c].flow = s.authorizationCodes[c].flow
           /\ t.authorizationCodes[c].upstream = s.authorizationCodes[c].upstream
  PROVE  KeepsUp(t, i, a)
PROOF
<1>1. \A f : HasGrant(t, f) <=> HasGrant(s, f)
  BY DEF HasGrant
<1> QED
  BY <1>1 DEF KeepsUp

\* A grant is stored that is the only one of its flow: the slack of that flow is what
\* it misses itself.
LEMMA GrantKeepsUp ==
  ASSUME NEW s \in Store, NEW t, NEW i \in [Flows -> Nat],
         NEW a \in [Flows -> Nat], NEW b \in [Flows -> Nat],
         NEW g \in Grants, NEW rec, rec # None, KeepsUp(s, i, a),
         t.grants = [s.grants EXCEPT ![g] = rec],
         t.authorizationCodes = s.authorizationCodes,
         s.grants[g] # None => s.grants[g].flow = rec.flow,
         \A h \in Grants \ {g} : s.grants[h] # None => s.grants[h].flow # rec.flow,
         \A f \in Flows : f # rec.flow => a[f] <= b[f],
         i[rec.flow] - rec.upstream.refreshToken \in 0 .. b[rec.flow]
  PROVE  KeepsUp(t, i, b)
PROOF
<1>1. t.grants[g] = rec /\ \A h \in Grants \ {g} : t.grants[h] = s.grants[h]
  BY DEF Store
<1>2. ASSUME NEW f \in Flows, f # rec.flow, NEW n \in Nat, i[f] - n \in 0 .. a[f]
      PROVE  i[f] - n \in 0 .. b[f]
  <2>1. a[f] <= b[f] /\ i[f] \in Nat /\ a[f] \in Nat /\ b[f] \in Nat
    BY <1>2
  <2> QED
    BY <1>2, <2>1
<1>3. ASSUME NEW h \in Grants, t.grants[h] # None
      PROVE  LET flow == t.grants[h].flow IN
             i[flow] - t.grants[h].upstream.refreshToken \in 0 .. b[flow]
  <2>1. CASE h = g
    BY <1>1, <2>1
  <2>2. CASE h # g
    <3>1. t.grants[h] = s.grants[h] /\ s.grants[h] # None /\ s.grants[h].flow # rec.flow
      BY <1>1, <1>3, <2>2
    <3>2. i[s.grants[h].flow] - s.grants[h].upstream.refreshToken \in 0 .. a[s.grants[h].flow]
      BY <3>1 DEF KeepsUp
    <3> QED
      BY <1>2, <3>1, <3>2, HoldersTyped
  <2> QED
    BY <2>1, <2>2
<1>4. ASSUME NEW c \in Codes, t.authorizationCodes[c] # None,
             ~HasGrant(t, t.authorizationCodes[c].flow)
      PROVE  LET flow == t.authorizationCodes[c].flow IN
             i[flow] - t.authorizationCodes[c].upstream.refreshToken \in 0 .. b[flow]
  <2> DEFINE flow == s.authorizationCodes[c].flow
  <2>1. t.authorizationCodes[c] = s.authorizationCodes[c] /\ s.authorizationCodes[c] # None
    BY <1>4
  <2>2. flow # rec.flow
    BY <1>1, <1>4, <2>1 DEF HasGrant
  <2>3. ~HasGrant(s, flow)
    <3>1. ASSUME NEW h \in Grants, s.grants[h] # None, s.grants[h].flow = flow
          PROVE  FALSE
      <4>1. h # g
        BY <2>2, <3>1
      <4>2. t.grants[h] # None /\ t.grants[h].flow = t.authorizationCodes[c].flow
        BY <1>1, <2>1, <3>1, <4>1
      <4> QED
        BY <1>4, <4>2 DEF HasGrant
    <3> QED
      BY <3>1 DEF HasGrant
  <2>4. i[flow] - s.authorizationCodes[c].upstream.refreshToken \in 0 .. a[flow]
    BY <2>1, <2>3 DEF KeepsUp
  <2> QED
    BY <1>2, <2>1, <2>2, <2>4, HoldersTyped
<1> QED
  BY <1>3, <1>4 DEF KeepsUp

\* A request that is not a refresh carries no upstream token.
LEMMA OthersCarryNothing ==
  \A s, i, n, req : ~IsRefresh(req) => Carries(s, i, n, req)
PROOF
  BY DEF Carries, IsRefresh

\* What the rest of the section knows of the variables.
LEMMA UpstreamFacts ==
  ASSUME RecordsInv
  PROVE  /\ mem \in Store
         /\ disk \in Store
         /\ requests \in [Requests -> RequestStates]
         /\ provider \in [Flows -> Nat]
         /\ faults \in Nat
         /\ Slacks \in [Flows -> Nat]
         /\ \A r : SlacksWithout(r) \in [Flows -> Nat]
         /\ OneGrantPerFlow(mem)
         /\ \A f \in Flows : Slacks[f] = Slack(f) /\ Slack(f) \in faults .. faults + 1
PROOF
<1>1. faults \in Nat
  BY DEF RecordsInv, Inv, TypeOK
<1>2. \A f : Slack(f) \in faults .. faults + 1
  BY <1>1 DEF Slack
<1>3. Slacks \in [Flows -> Nat]
  BY <1>1, <1>2 DEF Slacks
<1>4. \A r : SlacksWithout(r) \in [Flows -> Nat]
  BY <1>1 DEF SlacksWithout
<1> QED
  BY <1>1, <1>2, <1>3, <1>4 DEF RecordsInv, Inv, TypeOK, GoodStores, Slacks

\* The slack after a step.
LEMMA SlackAfter ==
  ASSUME faults' \in Nat, NEW f
  PROVE  Slack(f)' \in Nat /\ faults' <= Slack(f)'
PROOF
<1> DEFINE n == faults'
           m == Slack(f)'
<1>1. m = n + 1 \/ m = n
  <2>1. m = n + (IF IsRotating(f)' THEN 1 ELSE 0)
    BY DEF Slack
  <2>2. n \in Nat
    OBVIOUS
  <2> HIDE DEF n, m
  <2> QED
    BY <2>1, <2>2
<1>2. n \in Nat
  OBVIOUS
<1>3. m \in Nat /\ n <= m
  <2> HIDE DEF n, m
  <2> QED
    BY <1>1, <1>2
<1> QED
  BY <1>3

\* No slack but that of a request that is about to store a token is lost with it.
LEMMA SlackOfOthers ==
  ASSUME RecordsInv, NEW r \in Requests, NEW f \in Flows,
         requests[r].at = "rotation" => FlowOf(r) # f
  PROVE  SlacksWithout(r)[f] = Slacks[f]
PROOF
<1>1. IsRotating(f) <=> \E q \in Requests \ {r} : requests[q].at = "rotation" /\ FlowOf(q) = f
  BY DEF IsRotating
<1> QED
  BY <1>1 DEF Slacks, Slack, SlacksWithout

\* While a request waits for the provider on behalf of a flow, no token of it is
\* about to be stored.
LEMMA NoneIsRotating ==
  ASSUME RecordsInv, RefreshesDoNotOverlap, NEW r \in Requests, requests[r].at = "provider"
  PROVE  /\ FlowOf(r) \in Flows
         /\ Slacks[FlowOf(r)] = faults
         /\ \A q \in Requests \ {r} : IsRefresh(requests[q]) =>
              FlowOf(q) \in Flows /\ FlowOf(q) # FlowOf(r)
PROOF
<1>1. ASSUME NEW q \in Requests, IsRefresh(requests[q])
      PROVE  /\ requests[q].grant \in Grants
             /\ mem.grants[requests[q].grant] # None
             /\ FlowOf(q) = mem.grants[requests[q].grant].flow
             /\ FlowOf(q) \in Flows
  BY <1>1, RefreshesBelong DEF FlowOf, GrantRecord
<1>2. IsRefresh(requests[r])
  BY DEF IsRefresh
<1>3. ASSUME NEW q \in Requests \ {r}, IsRefresh(requests[q])
      PROVE  FlowOf(q) # FlowOf(r)
  <2>1. requests[q].grant # requests[r].grant
    BY <1>2, <1>3 DEF RefreshesDoNotOverlap, IsRefresh
  <2> QED
    BY <1>1, <1>2, <1>3, <2>1, UpstreamFacts DEF OneGrantPerFlow
<1>4. ~IsRotating(FlowOf(r))
  BY <1>3 DEF IsRotating, IsRefresh
<1> QED
  BY <1>1, <1>2, <1>3, <1>4, UpstreamFacts DEF Slack

-----------------------------------------------------------------------------
\* A turn of the server and the tokens of the provider.

\* However a turn ends, when each of its writes keeps up without the request, and so
\* does the file as it was, then memory and file do. A fault adds the slack that
\* requests lose when they end with it.
LEMMA TurnKeepsUp ==
  ASSUME RecordsInv, RecordsInv', UpstreamInv, NEW r \in Requests,
         NEW writes, Len(writes) \in Nat \ {0},
         \A k \in 1 .. Len(writes) :
           /\ KeepsUp(writes[k], provider', SlacksWithout(r))
           /\ \A q \in Requests \ {r} : IsRefresh(requests[q]) =>
                writes[k].grants[requests[q].grant] = mem.grants[requests[q].grant],
         KeepsUp(disk, provider', Slacks),
         \A q \in Requests \ {r} : requests[q].at = "rotation" =>
           provider'[FlowOf(q)] = provider[FlowOf(q)],
         NEW next, ~IsRefresh(next),
         NEW answered, Turn(r, writes, next, answered)
  PROVE  UpstreamInv'
PROOF
<1>1. /\ requests \in [Requests -> RequestStates] /\ faults \in Nat
      /\ mem' \in Store /\ disk' \in Store /\ provider' \in [Flows -> Nat]
      /\ Slacks \in [Flows -> Nat] /\ SlacksWithout(r) \in [Flows -> Nat]
      /\ \A f \in Flows : Slacks[f] <= faults + 1 /\ SlacksWithout(r)[f] <= faults + 1
  <2>1. \A f \in Flows : SlacksWithout(r)[f] <= faults + 1
    BY UpstreamFacts DEF SlacksWithout
  <2>2. \A f \in Flows : Slacks[f] <= faults + 1
    BY UpstreamFacts
  <2>3. mem' \in Store /\ disk' \in Store /\ provider' \in [Flows -> Nat]
    BY DEF RecordsInv, Inv, TypeOK
  <2> QED
    BY <2>1, <2>2, <2>3, UpstreamFacts
<1>2. Slacks' \in [Flows -> Nat] /\ \A f \in Flows : Slacks'[f] = Slack(f)' /\ faults' <= Slack(f)'
  <2>1. faults' \in Nat
    BY DEF RecordsInv, Inv, TypeOK
  <2>2. \A f : Slack(f)' \in Nat /\ faults' <= Slack(f)'
    BY <2>1, SlackAfter
  <2> QED
    BY <2>2 DEF Slacks
<1>3. Len(writes) \in 1 .. Len(writes)
  OBVIOUS
<1>4. ASSUME NEW s \in Store, NEW slack \in [Flows -> Nat], KeepsUp(s, provider', slack),
             \A f \in Flows : slack[f] <= Slacks'[f]
      PROVE  KeepsUp(s, provider', Slacks')
  <2>1. \A f \in Flows : /\ provider'[f] <= provider'[f]
                         /\ provider'[f] + slack[f] <= provider'[f] + Slacks'[f]
    <3> SUFFICES ASSUME NEW f \in Flows
                 PROVE  /\ provider'[f] <= provider'[f]
                        /\ provider'[f] + slack[f] <= provider'[f] + Slacks'[f]
      OBVIOUS
    <3>1. provider'[f] \in Nat /\ slack[f] \in Nat /\ Slacks'[f] \in Nat /\ slack[f] <= Slacks'[f]
      BY <1>1, <1>2, <1>4
    <3> QED
      BY <3>1
  <2> QED
    BY <1>1, <1>2, <1>4, <2>1, SlackAllows
<1>5. ASSUME NEW q \in Requests \ {r}, requests'[q] = requests[q], faults <= faults',
             NEW k \in 1 .. Len(writes), mem' = writes[k]
      PROVE  /\ Carries(mem, provider, faults, requests[q])'
             /\ IsRefresh(requests[q]) => FlowOf(q)' = FlowOf(q)
  <2>1. CASE ~IsRefresh(requests[q])
    BY <1>5, <2>1, OthersCarryNothing
  <2>2. CASE IsRefresh(requests[q])
    <3>1. mem'.grants[requests[q].grant] = mem.grants[requests[q].grant]
      BY <1>5, <2>2
    <3>2. Carries(mem, provider, faults, requests[q])
      BY DEF UpstreamInv
    <3>3. FlowOf(q)' = FlowOf(q)
      BY <1>5, <3>1 DEF FlowOf
    <3>4. ASSUME requests[q].at = "rotation"
          PROVE  provider'[mem'.grants[requests[q].grant].flow]
                   - requests[q].upstream.refreshToken \in 0 .. faults'
      <4>1. provider'[mem'.grants[requests[q].grant].flow]
              = provider[mem.grants[requests[q].grant].flow]
        BY <3>1, <3>4 DEF FlowOf
      <4>2. provider[mem.grants[requests[q].grant].flow]
              - requests[q].upstream.refreshToken \in 0 .. faults
        BY <3>2, <3>4 DEF Carries
      <4>3. 0 .. faults \subseteq 0 .. faults'
        <5>1. faults' \in Nat
          BY DEF RecordsInv, Inv, TypeOK
        <5> QED
          BY <1>1, <1>5, <5>1
      <4> QED
        BY <4>1, <4>2, <4>3
    <3> QED
      BY <1>5, <3>1, <3>2, <3>3, <3>4 DEF Carries
  <2> QED
    BY <2>1, <2>2
<1>6. CASE Completes(r, writes, next)
  <2>1. /\ mem' = writes[Len(writes)] /\ disk' = mem'
        /\ requests' = [requests EXCEPT ![r] = next]
        /\ faults' = faults
    BY <1>6 DEF Completes
  <2>2. requests'[r] = next /\ \A q \in Requests \ {r} : requests'[q] = requests[q]
    BY <1>1, <2>1
  <2>3. \A f \in Flows : SlacksWithout(r)[f] <= Slacks'[f]
    <3> SUFFICES ASSUME NEW f \in Flows
                 PROVE  SlacksWithout(r)[f] <= Slack(f)'
      BY <1>2
    <3>1. CASE \E q \in Requests \ {r} : requests[q].at = "rotation" /\ FlowOf(q) = f
      <4>1. PICK q \in Requests \ {r} : requests[q].at = "rotation" /\ FlowOf(q) = f
        BY <3>1
      <4>2. faults <= faults' /\ requests'[q] = requests[q]
        BY <1>1, <2>1, <2>2
      <4>3. FlowOf(q)' = FlowOf(q)
        BY <1>3, <1>5, <2>1, <4>1, <4>2 DEF IsRefresh
      <4>4. IsRotating(f)'
        BY <4>1, <4>2, <4>3 DEF IsRotating
      <4>5. SlacksWithout(r)[f] = faults + 1
        BY <3>1 DEF SlacksWithout
      <4> QED
        BY <1>1, <2>1, <4>4, <4>5 DEF Slack
    <3>2. CASE ~\E q \in Requests \ {r} : requests[q].at = "rotation" /\ FlowOf(q) = f
      <4>1. SlacksWithout(r)[f] = faults
        BY <1>1, <3>2 DEF SlacksWithout
      <4> QED
        BY <1>2, <2>1, <4>1
    <3> QED
      BY <3>1, <3>2
  <2>4. KeepsUp(mem', provider', Slacks') /\ KeepsUp(disk', provider', Slacks')
    BY <1>1, <1>3, <1>4, <2>1, <2>3
  <2>5. \A q \in Requests : Carries(mem, provider, faults, requests[q])'
    <3> SUFFICES ASSUME NEW q \in Requests
                 PROVE  Carries(mem, provider, faults, requests[q])'
      OBVIOUS
    <3>1. CASE q = r
      BY <2>2, <3>1, OthersCarryNothing
    <3>2. CASE q # r
      <4>1. faults <= faults'
        BY <1>1, <2>1
      <4> QED
        BY <1>3, <1>5, <2>1, <2>2, <3>2, <4>1
    <3> QED
      BY <3>1, <3>2
  <2> QED
    BY <2>4, <2>5 DEF UpstreamInv
<1>7. ASSUME faults' = faults + 1
      PROVE  \A f \in Flows : /\ Slacks[f] <= Slacks'[f]
                              /\ SlacksWithout(r)[f] <= Slacks'[f]
  <2> SUFFICES ASSUME NEW f \in Flows
               PROVE  /\ Slacks[f] <= Slacks'[f]
                      /\ SlacksWithout(r)[f] <= Slacks'[f]
    OBVIOUS
  <2>1. /\ Slacks[f] \in Nat /\ SlacksWithout(r)[f] \in Nat /\ Slacks'[f] \in Nat
        /\ Slacks[f] <= faults + 1 /\ SlacksWithout(r)[f] <= faults + 1
        /\ faults + 1 <= Slacks'[f]
    BY <1>1, <1>2, <1>7
  <2> QED
    BY <1>1, <2>1
<1>8. CASE PersistThrows(r, writes)
  <2>1. PICK k \in 1 .. Len(writes) :
          /\ mem' = writes[k]
          /\ disk' = IF k = 1 THEN disk ELSE writes[k - 1]
    BY <1>8 DEF PersistThrows
  <2>2. faults' = faults + 1 /\ requests' = [requests EXCEPT ![r] = Idle]
    BY <1>8 DEF PersistThrows
  <2>3. requests'[r] = Idle /\ \A q \in Requests \ {r} : requests'[q] = requests[q]
    BY <1>1, <2>2
  <2>4. KeepsUp(mem', provider', Slacks')
    BY <1>1, <1>4, <1>7, <2>1, <2>2
  <2>5. KeepsUp(disk', provider', Slacks')
    <3>1. CASE k = 1
      BY <1>1, <1>4, <1>7, <2>1, <2>2, <3>1
    <3>2. CASE k # 1
      <4>1. k - 1 \in 1 .. Len(writes) /\ disk' = writes[k - 1]
        BY <2>1, <3>2
      <4> QED
        BY <1>1, <1>4, <1>7, <2>2, <4>1
    <3> QED
      BY <3>1, <3>2
  <2>6. \A q \in Requests : Carries(mem, provider, faults, requests[q])'
    <3> SUFFICES ASSUME NEW q \in Requests
                 PROVE  Carries(mem, provider, faults, requests[q])'
      OBVIOUS
    <3>1. CASE q = r
      BY <2>3, <3>1, OthersCarryNothing, OthersAreCurrent
    <3>2. CASE q # r
      <4>1. faults <= faults'
        BY <1>1, <2>2
      <4> QED
        BY <1>5, <2>1, <2>3, <3>2, <4>1
    <3> QED
      BY <3>1, <3>2
  <2> QED
    BY <2>4, <2>5, <2>6 DEF UpstreamInv
<1>9. CASE DiesAfterWrite(writes)
  <2>1. PICK k \in 1 .. Len(writes) : mem' = writes[k] /\ disk' = writes[k]
    BY <1>9 DEF DiesAfterWrite
  <2>2. faults' = faults + 1 /\ \A q \in Requests : requests'[q] = Idle
    BY <1>9 DEF DiesAfterWrite
  <2>3. KeepsUp(mem', provider', Slacks') /\ KeepsUp(disk', provider', Slacks')
    BY <1>1, <1>4, <1>7, <2>1, <2>2
  <2>4. \A q \in Requests : Carries(mem, provider, faults, requests[q])'
    BY <2>2, OthersCarryNothing, OthersAreCurrent
  <2> QED
    BY <2>3, <2>4 DEF UpstreamInv
<1> QED
  BY <1>6, <1>8, <1>9 DEF Turn

-----------------------------------------------------------------------------
\* Every action keeps up, while refreshes of a grant do not overlap.

\* A turn that changes no upstream token.
LEMMA QuietTurnKeepsUp ==
  ASSUME RecordsInv, RecordsInv', UpstreamInv, NEW r \in Requests, ~IsRefresh(requests[r]),
         NEW writes, Len(writes) \in Nat \ {0},
         \A k \in 1 .. Len(writes) :
           /\ writes[k].grants = mem.grants
           /\ \A c \in Codes : writes[k].authorizationCodes[c] # None =>
                /\ mem.authorizationCodes[c] # None
                /\ writes[k].authorizationCodes[c].flow = mem.authorizationCodes[c].flow
                /\ writes[k].authorizationCodes[c].upstream = mem.authorizationCodes[c].upstream,
         provider' = provider,
         NEW next, ~IsRefresh(next),
         NEW answered, Turn(r, writes, next, answered)
  PROVE  UpstreamInv'
PROOF
<1>1. SlacksWithout(r) = Slacks
  <2>1. requests[r].at # "rotation"
    BY DEF IsRefresh
  <2>2. \A f \in Flows : SlacksWithout(r)[f] = Slacks[f]
    BY <2>1, SlackOfOthers
  <2> QED
    BY <2>2, UpstreamFacts
<1>2. \A k \in 1 .. Len(writes) : KeepsUp(writes[k], provider', SlacksWithout(r))
  BY <1>1, SameHolders DEF UpstreamInv
<1>3. KeepsUp(disk, provider', Slacks)
  BY DEF UpstreamInv
<1> QED
  BY <1>2, <1>3, TurnKeepsUp

\* Actions that change no upstream token.
LEMMA FlowsKeepUp ==
  ASSUME RecordsInv, RecordsInv', UpstreamInv, NEW r \in Requests,
         \/ \E client \in Clients : RegisterClient(r, client)
         \/ \E flow \in Flows, client \in Clients, requested \in SUBSET Scopes :
              StartAuthorization(r, flow, client, requested)
         \/ \E flow \in Flows, hasCode \in BOOLEAN : HandleCallback(r, flow, hasCode)
         \/ \E code \in Codes, client \in Clients : RedeemCode(r, code, client)
  PROVE  UpstreamInv'
PROOF
<1>1. Inv /\ mem \in Store
  BY RecordsFacts
<1>2. ~IsRefresh(Idle)
  BY OthersAreCurrent
<1>3. ASSUME NEW s, NEW next, NEW answered, Turn(r, <<s>>, next, answered),
             ~IsRefresh(requests[r]), ~IsRefresh(next), provider' = provider,
             s.grants = mem.grants,
             \A c \in Codes : s.authorizationCodes[c] # None =>
               /\ mem.authorizationCodes[c] # None
               /\ s.authorizationCodes[c].flow = mem.authorizationCodes[c].flow
               /\ s.authorizationCodes[c].upstream = mem.authorizationCodes[c].upstream
      PROVE  UpstreamInv'
  <2> DEFINE ws == <<s>>
  <2>1. Len(ws) = 1 /\ ws[1] = s /\ Turn(r, ws, next, answered)
    BY <1>3
  <2> HIDE DEF ws
  <2>2. Len(ws) \in Nat \ {0}
    BY <2>1
  <2>3. \A k \in 1 .. Len(ws) : ws[k] = s
    BY <2>1
  <2> QED
    BY <1>3, <2>1, <2>2, <2>3, QuietTurnKeepsUp
<1>4. ASSUME NEW c \in Clients, RegisterClient(r, c)
      PROVE  UpstreamInv'
  <2> DEFINE s == SaveRegisteredClient(mem, c)
  <2>1. requests[r] = Idle /\ provider' = provider /\ Turn(r, <<s>>, Idle, {})
    BY <1>4 DEF RegisterClient
  <2>2. s.grants = mem.grants /\ s.authorizationCodes = mem.authorizationCodes
    BY <1>1 DEF SaveRegisteredClient, Store
  <2> HIDE DEF s
  <2> QED
    BY <1>2, <1>3, <2>1, <2>2
<1>5. ASSUME NEW f \in Flows, NEW c \in Clients, NEW requested \in SUBSET Scopes,
             StartAuthorization(r, f, c, requested)
      PROVE  UpstreamInv'
  <2> DEFINE s1 == SavePendingState(mem, f, PendingState)
             s2 == SaveTransaction(s1, f,
                     [client |-> c, scopes |-> ResolveScopes(requested, ScopesOf[c])])
             ws == <<s1, s2>>
  <2>1. requests[r] = Idle /\ provider' = provider /\ Turn(r, ws, Idle, {})
    BY <1>5 DEF StartAuthorization
  <2>2. /\ s1.grants = mem.grants /\ s1.authorizationCodes = mem.authorizationCodes
        /\ s2.grants = mem.grants /\ s2.authorizationCodes = mem.authorizationCodes
    BY <1>1 DEF SavePendingState, SaveTransaction, Store
  <2> HIDE DEF s1, s2
  <2>3. Len(ws) = 2 /\ ws[1] = s1 /\ ws[2] = s2
    OBVIOUS
  <2> HIDE DEF ws
  <2>4. Len(ws) \in Nat \ {0} /\ \A k \in 1 .. Len(ws) : ws[k] = s1 \/ ws[k] = s2
    BY <2>3
  <2> QED
    BY <1>2, <2>1, <2>2, <2>4, QuietTurnKeepsUp
<1>6. ASSUME NEW f \in Flows, NEW hasCode \in BOOLEAN, HandleCallback(r, f, hasCode)
      PROVE  UpstreamInv'
  <2> DEFINE s    == MarkStateUsed(mem, f)
             next == IF hasCode /\ mem.transactions[f] # None
                     THEN [at |-> "callback", flow |-> f] ELSE Idle
  <2>1. requests[r] = Idle /\ provider' = provider /\ Turn(r, <<s>>, next, {})
    BY <1>6 DEF HandleCallback
  <2>2. s.grants = mem.grants /\ s.authorizationCodes = mem.authorizationCodes
    BY <1>1 DEF MarkStateUsed, Store
  <2>3. ~IsRefresh(next)
    BY <1>2 DEF IsRefresh
  <2> HIDE DEF s, next
  <2> QED
    BY <1>2, <1>3, <2>1, <2>2, <2>3
<1>7. ASSUME NEW c \in Codes, NEW client \in Clients, RedeemCode(r, c, client)
      PROVE  UpstreamInv'
  <2> DEFINE up   == mem.authorizationCodes[c].upstream
             end  == UpstreamAccessTokenExpiresAt(up)
             next == [at |-> "issue", code |-> c, upstreamAccessExpiresAt |-> end,
                      accessTtl  |-> CappedTtl(AccessTokenTtl, up, end),
                      refreshTtl |-> CappedTtl(RefreshTokenTtl, up, end)]
             rec  == [mem.authorizationCodes[c] EXCEPT !.used = TRUE]
             s    == MarkCodeUsed(mem, c)
  <2>1. requests[r] = Idle /\ provider' = provider /\ Turn(r, <<s>>, next, {})
    BY <1>7 DEF RedeemCode
  <2>2. ~IsRefresh(next)
    BY DEF IsRefresh
  <2>3. mem.authorizationCodes[c] # None /\ mem.authorizationCodes[c] \in CodeRecord
    BY <1>1, <1>7 DEF RedeemCode, CodeAccepted, Store
  <2>4. rec.flow = mem.authorizationCodes[c].flow /\ rec.upstream = up
    BY <2>3 DEF CodeRecord
  <2>5. s = SaveAuthorizationCode(mem, c, rec)
    BY <1>1 DEF MarkCodeUsed, SaveAuthorizationCode, Store
  <2> HIDE DEF rec
  <2>6. /\ s.grants = mem.grants
        /\ s.authorizationCodes = [mem.authorizationCodes EXCEPT ![c] = rec]
    BY <1>1, <2>5 DEF SaveAuthorizationCode, Store
  <2> HIDE DEF s, next
  <2>7. \A d \in Codes : s.authorizationCodes[d] # None =>
          /\ mem.authorizationCodes[d] # None
          /\ s.authorizationCodes[d].flow = mem.authorizationCodes[d].flow
          /\ s.authorizationCodes[d].upstream = mem.authorizationCodes[d].upstream
    BY <1>1, <2>3, <2>4, <2>6 DEF Store
  <2> QED
    BY <1>2, <1>3, <2>1, <2>2, <2>6, <2>7
<1> QED
  BY <1>4, <1>5, <1>6, <1>7, Zenon

\* No store uses a flow whose code is being issued, so what the provider issued for it
\* before makes no difference.
LEMMA IssueAuthorizationCodeKeepsUp ==
  ASSUME RecordsInv, RecordsInv', UpstreamInv, NEW r \in Requests,
         NEW c \in Codes, NEW up \in FirstUpstreamTokens, IssueAuthorizationCode(r, c, up)
  PROVE  UpstreamInv'
PROOF
<1> DEFINE f   == requests[r].flow
           rec == AuthorizationCode(f, up)
           s   == SaveAuthorizationCode(mem, c, rec)
           ws  == <<s>>
<1>1. /\ mem \in Store /\ disk \in Store /\ requests \in [Requests -> RequestStates]
      /\ provider \in [Flows -> Nat] /\ provider' \in [Flows -> Nat]
      /\ Slacks \in [Flows -> Nat]
  BY UpstreamFacts DEF RecordsInv, Inv, TypeOK
<1>2. /\ requests[r].at = "callback"
      /\ mem.authorizationCodes[c] = None
      /\ provider' = [provider EXCEPT ![f] = up.refreshToken]
      /\ Turn(r, ws, Idle, {})
  BY DEF IssueAuthorizationCode
<1>3. f \in Flows
  BY <1>2, RecordsFacts, RequestKinds DEF AwaitingCallback
<1>4. ~Uses(mem, f)
  <2>1. \A d \in Codes : mem.authorizationCodes[d] # None => mem.authorizationCodes[d].flow # f
    BY <1>2, RecordsFacts DEF Grounded
  <2>2. GrantsHaveCodes(mem)
    BY RecordsFacts DEF Sound
  <2> QED
    BY <2>1, <2>2 DEF Uses, HasGrant, GrantsHaveCodes
<1>5. ~Uses(disk, f)
  BY <1>4 DEF RecordsInv, Grows, Uses, HasGrant
<1>6. \A e \in Flows : e # f => provider'[e] = provider[e]
  BY <1>1, <1>2
<1>7. KeepsUp(mem, provider', Slacks) /\ KeepsUp(disk, provider', Slacks)
  <2>1. \A e \in Flows : Uses(mem, e) \/ Uses(disk, e) =>
          provider[e] <= provider'[e] /\ provider'[e] + Slacks[e] <= provider[e] + Slacks[e]
    <3> SUFFICES ASSUME NEW e \in Flows, Uses(mem, e) \/ Uses(disk, e)
                 PROVE  /\ provider[e] <= provider'[e]
                        /\ provider'[e] + Slacks[e] <= provider[e] + Slacks[e]
      OBVIOUS
    <3>1. provider'[e] = provider[e] /\ provider[e] \in Nat /\ Slacks[e] \in Nat
      BY <1>1, <1>4, <1>5, <1>6
    <3> QED
      BY <3>1
  <2> QED
    BY <1>1, <2>1, SlackAllows DEF UpstreamInv
<1>8. rec.flow = f /\ rec.upstream = up
  BY DEF AuthorizationCode
<1> HIDE DEF rec
<1>9. /\ s.grants = mem.grants
      /\ s.authorizationCodes = [mem.authorizationCodes EXCEPT ![c] = rec]
  BY <1>1 DEF SaveAuthorizationCode, Store
<1> HIDE DEF s
<1>10. SlacksWithout(r) = Slacks
  <2>1. \A e \in Flows : SlacksWithout(r)[e] = Slacks[e]
    BY <1>2, SlackOfOthers
  <2> QED
    BY <2>1, UpstreamFacts
<1>11. KeepsUp(s, provider', Slacks)
  <2>1. \A e : HasGrant(s, e) <=> HasGrant(mem, e)
    BY <1>9 DEF HasGrant
  <2>2. \A g \in Grants : s.grants[g] # None =>
          LET flow == s.grants[g].flow IN
          provider'[flow] - s.grants[g].upstream.refreshToken \in 0 .. Slacks[flow]
    BY <1>7, <1>9 DEF KeepsUp
  <2>3. ASSUME NEW d \in Codes, s.authorizationCodes[d] # None,
               ~HasGrant(s, s.authorizationCodes[d].flow)
        PROVE  LET flow == s.authorizationCodes[d].flow IN
               provider'[flow] - s.authorizationCodes[d].upstream.refreshToken
                 \in 0 .. Slacks[flow]
    <3>1. CASE d = c
      <4>1. s.authorizationCodes[d] = rec
        BY <1>1, <1>9, <3>1 DEF Store
      <4>2. provider'[f] = up.refreshToken /\ up.refreshToken \in Nat /\ Slacks[f] \in Nat
        BY <1>1, <1>2, <1>3
      <4> QED
        BY <1>8, <4>1, <4>2
    <3>2. CASE d # c
      <4>1. s.authorizationCodes[d] = mem.authorizationCodes[d]
        BY <1>1, <1>9, <3>2 DEF Store
      <4> QED
        BY <1>7, <2>1, <2>3, <4>1 DEF KeepsUp
    <3> QED
      BY <3>1, <3>2
  <2> QED
    BY <2>2, <2>3 DEF KeepsUp
<1>12. Len(ws) = 1 /\ ws[1] = s
  OBVIOUS
<1> HIDE DEF ws
<1>13. Len(ws) \in Nat \ {0} /\ \A k \in 1 .. Len(ws) : ws[k] = s
  BY <1>12
<1>14. ASSUME NEW q \in Requests \ {r}, requests[q].at = "rotation"
       PROVE  provider'[FlowOf(q)] = provider[FlowOf(q)]
  <2>1. /\ requests[q].grant \in Grants
        /\ mem.grants[requests[q].grant] # None
        /\ mem.grants[requests[q].grant] \in GrantRecord
    BY <1>14, RefreshesBelong DEF IsRefresh
  <2>2. FlowOf(q) \in Flows /\ FlowOf(q) # f
    BY <1>4, <2>1 DEF FlowOf, Uses, HasGrant, GrantRecord
  <2> QED
    BY <1>6, <2>2
<1> QED
  BY <1>2, <1>7, <1>9, <1>10, <1>11, <1>13, <1>14, OthersAreCurrent, TurnKeepsUp

\* The first grant of a flow misses no more than its code.
LEMMA IssueTokensKeepsUp ==
  ASSUME RecordsInv, RecordsInv', UpstreamInv, NEW r \in Requests,
         NEW g \in Grants, NEW k \in Tokens, IssueTokens(r, g, k)
  PROVE  UpstreamInv'
PROOF
<1> DEFINE req  == requests[r]
           code == mem.authorizationCodes[req.code]
           rec1 == [client |-> code.client, scopes |-> code.scopes,
                    flow |-> code.flow, upstream |-> code.upstream,
                    upstreamAccessExpiresAt |-> req.upstreamAccessExpiresAt,
                    upstreamEnd |-> code.upstreamEnd]
           s1   == SaveGrant(mem, g, rec1)
           s2   == SaveAccessToken(s1, k,
                     [grant |-> g, client |-> code.client, scopes |-> code.scopes,
                      expiresAt |-> now + req.accessTtl * Second])
           s3   == SaveRefreshToken(s2, k,
                     [grant |-> g, active |-> TRUE,
                      expiresAt |-> now + req.refreshTtl * Second, parent |-> None])
           ws   == <<s1, s2, s3>>
<1>1. mem \in Store /\ provider \in [Flows -> Nat] /\ Slacks \in [Flows -> Nat]
  BY UpstreamFacts
<1>2. /\ req.at = "issue"
      /\ mem.grants[g] = None
      /\ provider' = provider
      /\ Turn(r, ws, Idle, {k})
  BY DEF IssueTokens
<1>3. /\ req.code \in Codes
      /\ code # None
      /\ code \in CodeRecord
      /\ \A h \in Grants : mem.grants[h] # None => mem.grants[h].flow # code.flow
  <2>1. req \in AwaitingIssue
    BY <1>2, RecordsFacts, RequestKinds
  <2>2. req.code \in Codes
    BY <2>1 DEF AwaitingIssue
  <2>3. Grounded(mem, req)
    BY RecordsFacts
  <2>4. /\ code # None
        /\ \A h \in Grants : mem.grants[h] # None => mem.grants[h].flow # code.flow
    BY <1>2, <2>3 DEF Grounded
  <2>5. code \in CodeRecord \cup {None}
    <3>1. mem.authorizationCodes \in [Codes -> CodeRecord \cup {None}]
      BY <1>1 DEF Store
    <3> QED
      BY <2>2, <3>1
  <2> QED
    BY <2>2, <2>4, <2>5
<1>4. /\ rec1.flow = code.flow
      /\ rec1.upstream = code.upstream
      /\ rec1 # None
  <2>1. rec1 \in GrantRecord
    <3>1. req.upstreamAccessExpiresAt \in Nat
      BY <1>2, RecordsFacts, RequestKinds DEF AwaitingIssue
    <3> QED
      BY <1>3, <3>1 DEF CodeRecord, GrantRecord
  <2> QED
    BY <2>1, NoneAssumption
<1>5. provider[code.flow] - code.upstream.refreshToken \in 0 .. Slacks[code.flow]
  BY <1>3 DEF UpstreamInv, KeepsUp, HasGrant
<1> HIDE DEF rec1
<1>6. /\ \A s \in {s1, s2, s3} : /\ s.grants = [mem.grants EXCEPT ![g] = rec1]
                                 /\ s.authorizationCodes = mem.authorizationCodes
  BY <1>1 DEF SaveGrant, SaveAccessToken, SaveRefreshToken, Store
<1> HIDE DEF s1, s2, s3
<1>7. SlacksWithout(r) = Slacks
  <2>1. \A f \in Flows : SlacksWithout(r)[f] = Slacks[f]
    BY <1>2, SlackOfOthers
  <2> QED
    BY <2>1, UpstreamFacts
<1>8. ASSUME NEW s \in {s1, s2, s3}
      PROVE  /\ KeepsUp(s, provider', SlacksWithout(r))
             /\ \A q \in Requests \ {r} : IsRefresh(requests[q]) =>
                  s.grants[requests[q].grant] = mem.grants[requests[q].grant]
  <2>1. \A f \in Flows : Slacks[f] <= Slacks[f]
    BY <1>1
  <2>2. KeepsUp(s, provider, Slacks)
    <3>1. KeepsUp(mem, provider, Slacks)
      BY DEF UpstreamInv
    <3>2. \A h \in Grants \ {g} : mem.grants[h] # None => mem.grants[h].flow # rec1.flow
      BY <1>3, <1>4
    <3>3. provider[rec1.flow] - rec1.upstream.refreshToken \in 0 .. Slacks[rec1.flow]
      BY <1>4, <1>5
    <3>4. /\ s.grants = [mem.grants EXCEPT ![g] = rec1]
          /\ s.authorizationCodes = mem.authorizationCodes
          /\ rec1 # None /\ mem.grants[g] = None
      BY <1>2, <1>4, <1>6
    <3> QED
      BY <1>1, <2>1, <3>1, <3>2, <3>3, <3>4, GrantKeepsUp
  <2>3. \A q \in Requests \ {r} : IsRefresh(requests[q]) =>
          s.grants[requests[q].grant] = mem.grants[requests[q].grant]
    BY <1>1, <1>2, <1>6, RefreshesBelong DEF Store
  <2> QED
    BY <1>2, <1>7, <2>2, <2>3
<1>9. Len(ws) = 3 /\ ws[1] = s1 /\ ws[2] = s2 /\ ws[3] = s3
  OBVIOUS
<1> HIDE DEF ws
<1>10. Len(ws) \in Nat \ {0} /\ \A i \in 1 .. Len(ws) : ws[i] \in {s1, s2, s3}
  BY <1>9
<1>11. \A i \in 1 .. Len(ws) :
         /\ KeepsUp(ws[i], provider', SlacksWithout(r))
         /\ \A q \in Requests \ {r} : IsRefresh(requests[q]) =>
              ws[i].grants[requests[q].grant] = mem.grants[requests[q].grant]
  BY <1>8, <1>10
<1>12. KeepsUp(disk, provider', Slacks)
  BY <1>2 DEF UpstreamInv
<1> QED
  BY <1>2, <1>10, <1>11, <1>12, OthersAreCurrent, TurnKeepsUp

\* Writes of tokens leave grants and codes alone.
SameGrants(s, t) ==
  /\ DOMAIN t = DOMAIN s
  /\ t.grants = s.grants
  /\ t.authorizationCodes = s.authorizationCodes

LEMMA TokensAside ==
  ASSUME NEW s, {"grants", "authorizationCodes"} \subseteq DOMAIN s,
         NEW k, NEW rec, NEW g
  PROVE  /\ SameGrants(s, SaveAccessToken(s, k, rec))
         /\ SameGrants(s, SaveRefreshToken(s, k, rec))
         /\ SameGrants(s, RetireOtherRefreshTokens(s, g, k))
         /\ SameGrants(s, ReactivateRefreshToken(s, k))
PROOF
<1>1. SameGrants(s, SaveAccessToken(s, k, rec))
  BY DEF SameGrants, SaveAccessToken
<1>2. SameGrants(s, SaveRefreshToken(s, k, rec))
  BY DEF SameGrants, SaveRefreshToken
<1>3. SameGrants(s, RetireOtherRefreshTokens(s, g, k))
  BY DEF SameGrants, RetireOtherRefreshTokens
<1>4. SameGrants(s, ReactivateRefreshToken(s, k))
  BY DEF SameGrants, ReactivateRefreshToken
<1> QED
  BY <1>1, <1>2, <1>3, <1>4

\* The rotation stores what it carries, and other refreshes are of other flows.
LEMMA RotateTokensKeepsUp ==
  ASSUME RecordsInv, RecordsInv', RefreshesDoNotOverlap, UpstreamInv, NEW r \in Requests,
         NEW k \in Tokens, RotateTokens(r, k)
  PROVE  UpstreamInv'
PROOF
<1> DEFINE req  == requests[r]
           rec1 == [mem.grants[req.grant] EXCEPT
                      !.scopes = req.scopes, !.upstream = req.upstream,
                      !.upstreamAccessExpiresAt =
                        IF req.upstreamAccessExpiresAt = Never THEN @
                        ELSE req.upstreamAccessExpiresAt]
           s1   == UpdateGrant(mem, req.grant, req.scopes, req.upstream,
                               req.upstreamAccessExpiresAt)
           s2   == SaveAccessToken(s1, k,
                     [grant |-> req.grant, client |-> mem.grants[req.grant].client,
                      scopes |-> req.scopes,
                      expiresAt |-> now + req.accessTtl * Second])
           s3   == RetireOtherRefreshTokens(s2, req.grant, req.token)
           s4   == ReactivateRefreshToken(s3, req.token)
           s5   == SaveRefreshToken(s4, k,
                     [grant |-> req.grant, active |-> TRUE,
                      expiresAt |-> now + req.refreshTtl * Second,
                      parent |-> req.token])
           ws   == IF s3 = s2 THEN <<s1, s2, s4, s5>> ELSE <<s1, s2, s3, s4, s5>>
           all  == {s1, s2, s3, s4, s5}
<1>1. /\ mem \in Store /\ provider \in [Flows -> Nat] /\ faults \in Nat
      /\ Slacks \in [Flows -> Nat] /\ SlacksWithout(r) \in [Flows -> Nat]
  BY UpstreamFacts
<1>2. /\ req.at = "rotation"
      /\ provider' = provider
      /\ Turn(r, ws, Idle, {k})
  BY DEF RotateTokens
<1>3. /\ req \in AwaitingRotation
      /\ req.grant \in Grants
      /\ mem.grants[req.grant] # None
      /\ mem.grants[req.grant] \in GrantRecord
  BY <1>2, RefreshesBelong, RecordsFacts, RequestKinds DEF IsRefresh
<1>4. /\ rec1.flow = mem.grants[req.grant].flow
      /\ rec1.flow \in Flows
      /\ rec1.upstream = req.upstream
      /\ rec1 # None
  <2>1. rec1 \in GrantRecord
    BY <1>3 DEF AwaitingRotation, GrantRecord
  <2>2. /\ rec1.flow = mem.grants[req.grant].flow /\ rec1.upstream = req.upstream
        /\ rec1.flow \in Flows
    BY <1>3 DEF GrantRecord
  <2> QED
    BY <2>1, <2>2, NoneAssumption
<1>5. s1 = SaveGrant(mem, req.grant, rec1)
  BY DEF UpdateGrant, SaveGrant
<1>6. FlowOf(r) = rec1.flow
  BY <1>4 DEF FlowOf
<1> HIDE DEF rec1
<1>7. \A s \in all : /\ s.grants = [mem.grants EXCEPT ![req.grant] = rec1]
                     /\ s.authorizationCodes = mem.authorizationCodes
  <2>1. /\ s1.grants = [mem.grants EXCEPT ![req.grant] = rec1]
        /\ s1.authorizationCodes = mem.authorizationCodes
    BY <1>1, <1>5 DEF SaveGrant, Store
  <2>2. {"grants", "authorizationCodes"} \subseteq DOMAIN s1
    BY <1>1, <1>5 DEF SaveGrant, Store
  <2> HIDE DEF s1
  <2>3. SameGrants(s1, s2)
    BY <2>2, TokensAside
  <2> HIDE DEF s2
  <2>4. SameGrants(s2, s3)
    BY <2>2, <2>3, TokensAside DEF SameGrants
  <2> HIDE DEF s3
  <2>5. SameGrants(s3, s4)
    BY <2>2, <2>3, <2>4, TokensAside DEF SameGrants
  <2> HIDE DEF s4
  <2>6. SameGrants(s4, s5)
    BY <2>2, <2>3, <2>4, <2>5, TokensAside DEF SameGrants
  <2> HIDE DEF s5
  <2> QED
    BY <2>1, <2>3, <2>4, <2>5, <2>6 DEF SameGrants
<1> HIDE DEF s1, s2, s3, s4, s5
<1>8. provider[rec1.flow] - rec1.upstream.refreshToken \in 0 .. SlacksWithout(r)[rec1.flow]
  <2>1. provider[rec1.flow] - rec1.upstream.refreshToken \in 0 .. faults
    BY <1>2, <1>4 DEF UpstreamInv, Carries
  <2>2. faults <= SlacksWithout(r)[rec1.flow] /\ SlacksWithout(r)[rec1.flow] \in Nat
    BY <1>1, <1>4 DEF SlacksWithout
  <2> QED
    BY <1>1, <2>1, <2>2
<1>9. \A f \in Flows : f # rec1.flow => Slacks[f] <= SlacksWithout(r)[f]
  BY <1>1, <1>6, SlackOfOthers
<1>10. ASSUME NEW s \in all
       PROVE  /\ KeepsUp(s, provider', SlacksWithout(r))
              /\ \A q \in Requests \ {r} : IsRefresh(requests[q]) =>
                   s.grants[requests[q].grant] = mem.grants[requests[q].grant]
  <2>1. \A h \in Grants \ {req.grant} : mem.grants[h] # None => mem.grants[h].flow # rec1.flow
    BY <1>3, <1>4, UpstreamFacts DEF OneGrantPerFlow
  <2>2. KeepsUp(mem, provider, Slacks)
    BY DEF UpstreamInv
  <2>3. KeepsUp(s, provider, SlacksWithout(r))
    <3> DEFINE g == req.grant
               b == SlacksWithout(r)
    <3>1. /\ g \in Grants
          /\ s.grants = [mem.grants EXCEPT ![g] = rec1]
          /\ s.authorizationCodes = mem.authorizationCodes
          /\ rec1 # None
          /\ mem.grants[g] # None => mem.grants[g].flow = rec1.flow
          /\ \A h \in Grants \ {g} : mem.grants[h] # None => mem.grants[h].flow # rec1.flow
      BY <1>3, <1>4, <1>7, <2>1
    <3>2. /\ b \in [Flows -> Nat]
          /\ \A f \in Flows : f # rec1.flow => Slacks[f] <= b[f]
          /\ provider[rec1.flow] - rec1.upstream.refreshToken \in 0 .. b[rec1.flow]
      BY <1>1, <1>8, <1>9
    <3> HIDE DEF g, b, req, all
    <3>3. /\ mem \in Store /\ provider \in [Flows -> Nat] /\ Slacks \in [Flows -> Nat]
          /\ KeepsUp(mem, provider, Slacks)
      BY <1>1, <2>2
    <3>4. KeepsUp(s, provider, b)
      BY <3>1, <3>2, <3>3, GrantKeepsUp, SMTT(60)
    <3> QED
      BY <3>4 DEF b
  <2>4. ASSUME NEW q \in Requests \ {r}, IsRefresh(requests[q])
        PROVE  s.grants[requests[q].grant] = mem.grants[requests[q].grant]
    <3>1. requests[q].grant # req.grant /\ requests[q].grant \in Grants
      BY <1>2, <2>4, RefreshesBelong DEF RefreshesDoNotOverlap, IsRefresh
    <3> QED
      BY <1>1, <1>7, <3>1 DEF Store
  <2> QED
    BY <1>2, <2>3, <2>4
<1>11. Len(ws) \in Nat \ {0} /\ \A i \in 1 .. Len(ws) : ws[i] \in all
  <2>1. CASE s3 = s2
    <3>1. ws = <<s1, s2, s4, s5>>
      BY <2>1
    <3> HIDE DEF ws
    <3>2. Len(ws) = 4 /\ ws[1] = s1 /\ ws[2] = s2 /\ ws[3] = s4 /\ ws[4] = s5
      BY <3>1
    <3> QED
      BY <3>2
  <2>2. CASE s3 # s2
    <3>1. ws = <<s1, s2, s3, s4, s5>>
      BY <2>2
    <3> HIDE DEF ws
    <3>2. Len(ws) = 5 /\ ws[1] = s1 /\ ws[2] = s2 /\ ws[3] = s3 /\ ws[4] = s4 /\ ws[5] = s5
      BY <3>1
    <3> QED
      BY <3>2
  <2> QED
    BY <2>1, <2>2
<1> HIDE DEF ws, all
<1>12. \A i \in 1 .. Len(ws) :
         /\ KeepsUp(ws[i], provider', SlacksWithout(r))
         /\ \A q \in Requests \ {r} : IsRefresh(requests[q]) =>
              ws[i].grants[requests[q].grant] = mem.grants[requests[q].grant]
  BY <1>10, <1>11
<1>13. KeepsUp(disk, provider', Slacks)
  BY <1>2 DEF UpstreamInv
<1> QED
  BY <1>2, <1>11, <1>12, <1>13, OthersAreCurrent, TurnKeepsUp

\* A step that leaves the stores alone, and in which no slack is lost of a flow for
\* which nothing was issued.
LEMMA WaitKeepsUp ==
  ASSUME RecordsInv, RecordsInv', UpstreamInv,
         mem' \in {mem, disk}, disk' = disk,
         \A f \in Flows : /\ provider[f] <= provider'[f]
                          /\ provider'[f] + Slacks[f] <= provider[f] + Slack(f)',
         \A q \in Requests : Carries(mem', provider', faults', requests'[q])
  PROVE  UpstreamInv'
PROOF
<1>1. /\ mem \in Store /\ disk \in Store /\ provider \in [Flows -> Nat]
      /\ provider' \in [Flows -> Nat] /\ Slacks \in [Flows -> Nat]
  BY UpstreamFacts DEF RecordsInv, Inv, TypeOK
<1>2. Slacks' \in [Flows -> Nat] /\ \A f \in Flows : Slacks'[f] = Slack(f)'
  <2>1. faults' \in Nat
    BY DEF RecordsInv, Inv, TypeOK
  <2>2. \A f : Slack(f)' \in Nat
    BY <2>1, SlackAfter
  <2> QED
    BY <2>2 DEF Slacks
<1>3. KeepsUp(mem, provider', Slacks') /\ KeepsUp(disk, provider', Slacks')
  BY <1>1, <1>2, SlackAllows DEF UpstreamInv
<1> QED
  BY <1>3 DEF UpstreamInv

\* A refresh sends what its grant holds, and a request the provider turns away ends. A
\* token whose answer is lost is paid for by that fault.
LEMMA RefreshesKeepUp ==
  ASSUME RecordsInv, RecordsInv', RefreshesDoNotOverlap, RefreshesDoNotOverlap',
         UpstreamInv, NEW r \in Requests,
         \/ \E token \in Tokens, client \in Clients, requested \in SUBSET Scopes :
              StartRefresh(r, token, client, requested)
         \/ ProviderRefuses(r)
         \/ ProviderAnswerLost(r)
  PROVE  UpstreamInv'
PROOF
<1>1. /\ mem \in Store /\ requests \in [Requests -> RequestStates]
      /\ provider \in [Flows -> Nat] /\ Slacks \in [Flows -> Nat] /\ faults \in Nat
      /\ \A f \in Flows : Slacks[f] = Slack(f) /\ Slack(f) \in faults .. faults + 1
  BY UpstreamFacts
<1>2. ASSUME NEW next, requests' = [requests EXCEPT ![r] = next], mem' = mem, disk' = disk,
             provider' = provider, faults' = faults, requests[r].at # "rotation",
             Carries(mem, provider, faults, next)
      PROVE  UpstreamInv'
  <2>1. requests'[r] = next /\ \A q \in Requests \ {r} : requests'[q] = requests[q]
    BY <1>1, <1>2
  <2>2. ASSUME NEW f \in Flows
        PROVE  /\ provider[f] <= provider'[f]
               /\ provider'[f] + Slacks[f] <= provider[f] + Slack(f)'
    <3>1. IsRotating(f) => IsRotating(f)'
      BY <1>2, <2>1 DEF IsRotating, FlowOf
    <3>2. Slack(f) <= Slack(f)' /\ Slack(f)' \in Nat
      BY <1>1, <1>2, <3>1 DEF Slack
    <3> QED
      BY <1>1, <1>2, <3>2
  <2>3. \A q \in Requests : Carries(mem', provider', faults', requests'[q])
    BY <1>2, <2>1 DEF UpstreamInv
  <2> QED
    BY <1>2, <2>2, <2>3, WaitKeepsUp
<1>3. ASSUME NEW k \in Tokens, NEW c \in Clients, NEW requested \in SUBSET Scopes,
             StartRefresh(r, k, c, requested)
      PROVE  UpstreamInv'
  <2> DEFINE id     == mem.refreshTokens[k].grant
             grant  == mem.grants[id]
             scopes == ResolveScopes(requested, grant.scopes)
             asks   == [at |-> "provider", token |-> k, grant |-> id,
                        scopes |-> scopes, sent |-> grant.upstream.refreshToken]
             turns  == Rotation(k, id, scopes, grant.upstream,
                                grant.upstreamAccessExpiresAt)
             next   == IF grant.upstream.refreshToken # Never THEN asks ELSE turns
  <2>1. /\ requests[r] = Idle
        /\ requests' = [requests EXCEPT ![r] = next]
        /\ UNCHANGED <<mem, disk, provider, faults>>
        /\ mem.refreshTokens[k] # None /\ grant # None
    BY <1>3 DEF StartRefresh, RefreshAccepted
  <2>2. id \in Grants /\ grant.flow \in Flows
    BY <1>1, <2>1, HoldersTyped DEF Store, RefreshRecord
  <2>5. requests[r].at # "rotation"
    BY <2>1 DEF Idle
  <2>3. CASE grant.upstream.refreshToken # Never
    <3>1. asks.at = "provider" /\ asks.grant = id /\ asks.sent = grant.upstream.refreshToken
      OBVIOUS
    <3>2. next = asks
      BY <2>3
    <3> HIDE DEF asks, next
    <3>3. Carries(mem, provider, faults, next)
      BY <3>1, <3>2 DEF Carries
    <3> QED
      BY <1>2, <2>1, <2>5, <3>3
  <2>4. CASE grant.upstream.refreshToken = Never
    <3>1. turns.at = "rotation" /\ turns.grant = id /\ turns.upstream = grant.upstream
      BY DEF Rotation
    <3>2. next = turns
      BY <2>4
    <3> HIDE DEF turns, next
    <3>3. ~IsRotating(grant.flow)
      <4> SUFFICES ASSUME NEW q \in Requests, requests[q].at = "rotation",
                          FlowOf(q) = grant.flow
                   PROVE  FALSE
        BY DEF IsRotating
      <4>1. q # r
        BY <2>1 DEF Idle
      <4>2. requests[q].grant \in Grants /\ mem.grants[requests[q].grant] # None
        BY RefreshesBelong DEF IsRefresh
      <4>3. requests[q].grant = id
        BY <2>1, <2>2, <4>2, UpstreamFacts DEF OneGrantPerFlow, FlowOf
      <4>4. requests'[q] = requests[q] /\ requests'[r] = next
        BY <1>1, <2>1, <4>1
      <4> QED
        BY <3>1, <3>2, <4>1, <4>3, <4>4 DEF RefreshesDoNotOverlap
    <3>4. provider[grant.flow] - grant.upstream.refreshToken \in 0 .. faults
      BY <1>1, <2>1, <2>2, <3>3 DEF UpstreamInv, KeepsUp, Slack
    <3>5. Carries(mem, provider, faults, next)
      BY <3>1, <3>2, <3>4 DEF Carries
    <3> QED
      BY <1>2, <2>1, <2>5, <3>5
  <2> QED
    BY <2>3, <2>4
<1>4. ASSUME ProviderRefuses(r)
      PROVE  UpstreamInv'
  <2>1. /\ requests[r].at # "rotation"
        /\ requests' = [requests EXCEPT ![r] = Idle]
        /\ UNCHANGED <<mem, disk, provider, faults>>
    BY <1>4 DEF ProviderRefuses
  <2>2. Carries(mem, provider, faults, Idle)
    BY OthersCarryNothing, OthersAreCurrent
  <2> QED
    BY <1>2, <2>1, <2>2
<1>5. ASSUME ProviderAnswerLost(r)
      PROVE  UpstreamInv'
  <2> DEFINE f == FlowOf(r)
  <2>1. /\ requests[r].at = "provider"
        /\ faults' = faults + 1
        /\ provider' = [provider EXCEPT ![f] = @ + 1]
        /\ requests' = [requests EXCEPT ![r] = Idle]
        /\ UNCHANGED <<mem, disk>>
    BY <1>5 DEF ProviderAnswerLost
  <2>2. /\ f \in Flows /\ Slacks[f] = faults
        /\ \A q \in Requests \ {r} : IsRefresh(requests[q]) =>
             FlowOf(q) \in Flows /\ FlowOf(q) # f
    BY <2>1, NoneIsRotating
  <2>3. requests'[r] = Idle /\ \A q \in Requests \ {r} : requests'[q] = requests[q]
    BY <1>1, <2>1
  <2> HIDE DEF f
  <2>4. ASSUME NEW e \in Flows
        PROVE  /\ provider[e] <= provider'[e]
               /\ provider'[e] + Slacks[e] <= provider[e] + Slack(e)'
    <3>1. Slack(e)' \in Nat /\ faults + 1 <= Slack(e)'
      BY <1>1, <2>1 DEF Slack
    <3>2. CASE e = f
      <4>1. provider'[e] = provider[e] + 1 /\ Slacks[e] = faults
        BY <1>1, <2>1, <2>2, <3>2
      <4> QED
        BY <1>1, <3>1, <4>1
    <3>3. CASE e # f
      <4>1. provider'[e] = provider[e] /\ Slacks[e] <= faults + 1
        BY <1>1, <2>1, <3>3
      <4> QED
        BY <1>1, <3>1, <4>1
    <3> QED
      BY <3>2, <3>3
  <2>5. ASSUME NEW q \in Requests
        PROVE  Carries(mem', provider', faults', requests'[q])
    <3>1. CASE q = r \/ ~IsRefresh(requests[q])
      BY <2>3, <3>1, OthersCarryNothing, OthersAreCurrent
    <3>2. CASE q # r /\ IsRefresh(requests[q])
      <4>1. Carries(mem, provider, faults, requests[q])
        BY DEF UpstreamInv
      <4>2. provider'[FlowOf(q)] = provider[FlowOf(q)]
        BY <1>1, <2>1, <2>2, <3>2
      <4>3. 0 .. faults \subseteq 0 .. faults + 1
        BY <1>1
      <4> QED
        BY <2>1, <2>3, <3>2, <4>1, <4>2, <4>3 DEF Carries, FlowOf
    <3> QED
      BY <3>1, <3>2
  <2> QED
    BY <2>1, <2>4, <2>5, WaitKeepsUp
<1> QED
  BY <1>3, <1>4, <1>5, Zenon

\* The provider's answer is for the one refresh that waits for the flow, which takes
\* it to its writes; until then one token more may be missing.
LEMMA ProviderRefreshesKeepsUp ==
  ASSUME RecordsInv, RecordsInv', RefreshesDoNotOverlap, UpstreamInv, NEW r \in Requests,
         NEW rotates \in BOOLEAN, ProviderRefreshes(r, rotates)
  PROVE  UpstreamInv'
PROOF
<1> DEFINE req   == requests[r]
           flow  == FlowOf(r)
           fresh == IF rotates THEN provider[flow] + 1 ELSE req.sent
           kept  == [refreshToken |-> fresh, expiresIn |-> Never]
           next  == Rotation(req.token, req.grant, req.scopes, kept,
                             UpstreamAccessTokenExpiresAt(kept))
<1>1. /\ mem \in Store /\ requests \in [Requests -> RequestStates]
      /\ provider \in [Flows -> Nat] /\ Slacks \in [Flows -> Nat] /\ faults \in Nat
      /\ \A f \in Flows : Slacks[f] = Slack(f) /\ Slack(f) \in faults .. faults + 1
  BY UpstreamFacts
<1>2. /\ req.at = "provider"
      /\ provider' = IF rotates THEN [provider EXCEPT ![flow] = fresh] ELSE provider
      /\ requests' = [requests EXCEPT ![r] = next]
      /\ UNCHANGED <<mem, disk, faults>>
  BY DEF ProviderRefreshes
<1>3. /\ flow \in Flows /\ Slacks[flow] = faults
      /\ \A q \in Requests \ {r} : IsRefresh(requests[q]) =>
           FlowOf(q) \in Flows /\ FlowOf(q) # flow
  BY <1>2, NoneIsRotating
<1>4. /\ req.grant \in Grants /\ mem.grants[req.grant] # None
      /\ flow = mem.grants[req.grant].flow
  BY <1>2, RefreshesBelong DEF IsRefresh, FlowOf
<1>5. next.at = "rotation" /\ next.grant = req.grant /\ next.upstream.refreshToken = fresh
  BY DEF Rotation
<1>6. requests'[r] = next /\ \A q \in Requests \ {r} : requests'[q] = requests[q]
  BY <1>1, <1>2
<1>7. /\ provider'[flow] - fresh \in 0 .. faults
      /\ provider'[flow] \in provider[flow] .. provider[flow] + 1
  <2>1. CASE rotates
    <3>1. provider'[flow] = fresh /\ fresh = provider[flow] + 1 /\ fresh \in Nat
      BY <1>1, <1>2, <1>3, <2>1
    <3> QED
      BY <1>1, <1>3, <3>1
  <2>2. CASE ~rotates
    <3>1. provider' = provider /\ fresh = mem.grants[req.grant].upstream.refreshToken
      BY <1>2, <2>2 DEF UpstreamInv, Carries
    <3>2. provider[flow] - mem.grants[req.grant].upstream.refreshToken \in 0 .. faults
      BY <1>3, <1>4 DEF UpstreamInv, KeepsUp
    <3> QED
      BY <1>1, <1>3, <3>1, <3>2
  <2> QED
    BY <2>1, <2>2
<1> HIDE DEF next, kept, fresh
<1>8. \A e \in Flows : e # flow => provider'[e] = provider[e]
  BY <1>1, <1>2
<1>9. ASSUME NEW e \in Flows
      PROVE  /\ provider[e] <= provider'[e]
             /\ provider'[e] + Slacks[e] <= provider[e] + Slack(e)'
  <2>1. CASE e = flow
    <3>1. IsRotating(e)'
      BY <1>2, <1>4, <1>5, <1>6, <2>1 DEF IsRotating, FlowOf
    <3>2. Slack(e)' = faults + 1 /\ Slacks[e] = faults
      BY <1>1, <1>2, <1>3, <2>1, <3>1 DEF Slack
    <3> QED
      BY <1>1, <1>7, <2>1, <3>2
  <2>2. CASE e # flow
    <3>1. IsRotating(e) => IsRotating(e)'
      <4> SUFFICES ASSUME NEW q \in Requests, requests[q].at = "rotation", FlowOf(q) = e
                   PROVE  IsRotating(e)'
        BY DEF IsRotating
      <4>1. q # r
        BY <1>2
      <4> QED
        BY <1>2, <1>6, <4>1 DEF IsRotating, FlowOf
    <3>2. Slack(e) <= Slack(e)' /\ Slack(e)' \in Nat
      BY <1>1, <1>2, <3>1 DEF Slack
    <3> QED
      BY <1>1, <1>8, <2>2, <3>2
  <2> QED
    BY <2>1, <2>2
<1>10. ASSUME NEW q \in Requests
       PROVE  Carries(mem', provider', faults', requests'[q])
  <2>1. CASE q = r
    BY <1>2, <1>4, <1>5, <1>6, <1>7, <2>1 DEF Carries
  <2>2. CASE q # r /\ ~IsRefresh(requests[q])
    BY <1>6, <2>2, OthersCarryNothing
  <2>3. CASE q # r /\ IsRefresh(requests[q])
    <3>1. Carries(mem, provider, faults, requests[q])
      BY DEF UpstreamInv
    <3>2. provider'[FlowOf(q)] = provider[FlowOf(q)]
      BY <1>3, <1>8, <2>3
    <3> QED
      BY <1>2, <1>6, <2>3, <3>1, <3>2 DEF Carries, FlowOf
  <2> QED
    BY <2>1, <2>2, <2>3
<1> QED
  BY <1>2, <1>9, <1>10, WaitKeepsUp

\* Every step keeps up.
LEMMA StepKeepsUpstream ==
  ASSUME RecordsInv, RecordsInv', RefreshesDoNotOverlap, RefreshesDoNotOverlap',
         UpstreamInv, [Next]_vars
  PROVE  UpstreamInv'
PROOF
<1>1. /\ faults \in Nat /\ provider \in [Flows -> Nat] /\ Slacks \in [Flows -> Nat]
      /\ \A f \in Flows : Slacks[f] = Slack(f) /\ Slack(f) \in faults .. faults + 1
  BY UpstreamFacts
<1>2. ASSUME NEW r \in Requests,
             \/ \E client \in Clients : RegisterClient(r, client)
             \/ \E flow \in Flows, client \in Clients, requested \in SUBSET Scopes :
                  StartAuthorization(r, flow, client, requested)
             \/ \E flow \in Flows, hasCode \in BOOLEAN : HandleCallback(r, flow, hasCode)
             \/ \E code \in Codes, upstream \in FirstUpstreamTokens :
                  IssueAuthorizationCode(r, code, upstream)
             \/ \E code \in Codes, client \in Clients : RedeemCode(r, code, client)
             \/ \E grant \in Grants, token \in Tokens : IssueTokens(r, grant, token)
      PROVE  UpstreamInv'
  BY <1>2, FlowsKeepUp, IssueAuthorizationCodeKeepsUp, IssueTokensKeepsUp, Zenon
<1>3. ASSUME NEW r \in Requests,
             \/ ProviderRefuses(r)
             \/ \E token \in Tokens, client \in Clients, requested \in SUBSET Scopes :
                  StartRefresh(r, token, client, requested)
             \/ \E rotates \in BOOLEAN : ProviderRefreshes(r, rotates)
             \/ ProviderAnswerLost(r)
             \/ \E token \in Tokens : RotateTokens(r, token)
      PROVE  UpstreamInv'
  BY <1>3, RefreshesKeepUp, ProviderRefreshesKeepsUp, RotateTokensKeepsUp, Zenon
<1>4. CASE Restart
  <2>1. /\ faults' = faults + 1 /\ mem' = disk /\ disk' = disk /\ provider' = provider
        /\ \A q \in Requests : requests'[q] = Idle
    BY <1>4 DEF Restart
  <2>2. ASSUME NEW f \in Flows
        PROVE  /\ provider[f] <= provider'[f]
               /\ provider'[f] + Slacks[f] <= provider[f] + Slack(f)'
    <3>1. Slack(f)' \in Nat /\ faults + 1 <= Slack(f)'
      BY <1>1, <2>1 DEF Slack
    <3> QED
      BY <1>1, <2>1, <3>1
  <2>3. \A q \in Requests : Carries(mem', provider', faults', requests'[q])
    BY <2>1, OthersCarryNothing, OthersAreCurrent
  <2> QED
    BY <2>1, <2>2, <2>3, WaitKeepsUp
<1>5. CASE Tick \/ UNCHANGED vars
  <2>1. UNCHANGED <<mem, disk, requests, provider, faults>>
    BY <1>5 DEF Tick, vars
  <2>2. \A f : Slack(f)' = Slack(f)
    BY <2>1 DEF Slack, IsRotating, FlowOf
  <2>3. \A f \in Flows : /\ provider[f] <= provider'[f]
                         /\ provider'[f] + Slacks[f] <= provider[f] + Slack(f)'
    BY <1>1, <2>1, <2>2
  <2>4. \A q \in Requests : Carries(mem', provider', faults', requests'[q])
    BY <2>1 DEF UpstreamInv
  <2> QED
    BY <2>1, <2>3, <2>4, WaitKeepsUp
<1> QED
  BY <1>2, <1>3, <1>4, <1>5, Zenon DEF Next

-----------------------------------------------------------------------------
\* The theorems, of clients that refresh a grant once at a time.

\* At first nothing is stored and nobody waits.
LEMMA InitSequential == Init => SequentialInv
PROOF
<1> SUFFICES ASSUME Init PROVE SequentialInv
  OBVIOUS
<1>1. mem = EmptyState /\ disk = EmptyState /\ \A r \in Requests : requests[r] = Idle
  BY DEF Init
<1>2. StoredTokens(EmptyState) = {} /\ \A g \in Grants : EmptyState.grants[g] = None
  BY DEF EmptyState, StoredTokens
<1>3. OrderInv
  <2>1. Orderly(EmptyState)
    BY <1>2 DEF Orderly, ParentsStored, GrandparentsRetired, GrantsUsable
  <2> QED
    BY <1>1, <2>1, NarrowsReflexive, OthersAreCurrent DEF OrderInv
<1>4. RefreshesDoNotOverlap
  BY <1>1 DEF RefreshesDoNotOverlap, Idle
<1>5. UpstreamInv
  <2>1. \A c \in Codes : EmptyState.authorizationCodes[c] = None
    BY DEF EmptyState
  <2>2. \A r \in Requests : Carries(mem, provider, faults, requests[r])
    BY <1>1, OthersCarryNothing, OthersAreCurrent
  <2> QED
    BY <1>1, <1>2, <2>1, <2>2 DEF UpstreamInv, KeepsUp
<1> QED
  BY <1>3, <1>4, <1>5, InitRecords DEF SequentialInv

\* Every step of such clients keeps the invariant, and scopes on the file only narrow.
LEMMA StepKeepsSequential ==
  SequentialInv /\ [Next /\ RefreshesDoNotOverlap']_vars
    => SequentialInv' /\ Narrows(disk, disk')
PROOF
<1> SUFFICES ASSUME SequentialInv, [Next /\ RefreshesDoNotOverlap']_vars
             PROVE  SequentialInv' /\ Narrows(disk, disk')
  OBVIOUS
<1>1. RecordsInv /\ RefreshesDoNotOverlap /\ OrderInv /\ UpstreamInv
  BY DEF SequentialInv
<1>2. [Next]_vars /\ RefreshesDoNotOverlap'
  BY <1>1 DEF RefreshesDoNotOverlap, vars
<1>3. RecordsInv'
  BY <1>1, <1>2, StepKeepsRecords
<1>4. OrderInv' /\ Narrows(disk, disk')
  BY <1>1, <1>2, StepKeepsOrder
<1>5. UpstreamInv'
  BY <1>1, <1>2, <1>3, StepKeepsUpstream
<1> QED
  BY <1>2, <1>3, <1>4, <1>5 DEF SequentialInv

\* Once the token issued for it has been used, a refresh token is retired for good,
\* when refreshes of a grant do not overlap.
THEOREM SuccessorRetiresForGood == SequentialSpec => []SuccessorRetires
PROOF
<1>1. SequentialInv => SuccessorRetires
  BY DEF SequentialInv, OrderInv, Orderly, GrandparentsRetired, SuccessorRetires
<1> QED
  BY <1>1, InitSequential, StepKeepsSequential, PTL DEF SequentialSpec

\* A grant that ever had a refresh token has an active one, in memory and on the file,
\* after every write, failed write and crash, when its refreshes do not overlap.
THEOREM ClientsAreNeverLockedOut == SequentialSpec => []NeverLockedOut
PROOF
<1>1. SequentialInv => NeverLockedOut
  BY DEF SequentialInv, OrderInv, Orderly, GrantsUsable, NeverLockedOut
<1> QED
  BY <1>1, InitSequential, StepKeepsSequential, PTL DEF SequentialSpec

\* Whatever faults strike, and whenever, a grant misses no more than one refresh token
\* of the provider for each, in memory and on the file, when its refreshes do not
\* overlap.
THEOREM FaultsCostOneTokenEach == SequentialSpec => []OneUpstreamTokenPerFault
PROOF
<1>1. SequentialInv => OneUpstreamTokenPerFault
  <2> SUFFICES ASSUME SequentialInv, NEW s \in {mem, disk}, NEW g \in Grants,
                      s.grants[g] # None
               PROVE  LET flow == s.grants[g].flow IN
                      provider[flow] - s.grants[g].upstream.refreshToken \in 0 .. Slack(flow)
    BY DEF OneUpstreamTokenPerFault
  <2>1. RecordsInv /\ UpstreamInv
    BY DEF SequentialInv
  <2>2. s \in Store /\ KeepsUp(s, provider, Slacks)
    BY <2>1, UpstreamFacts DEF UpstreamInv
  <2>3. s.grants[g].flow \in Flows
    BY <2>2, HoldersTyped
  <2> QED
    BY <2>1, <2>2, <2>3, UpstreamFacts DEF KeepsUp
<1> QED
  BY <1>1, InitSequential, StepKeepsSequential, PTL DEF SequentialSpec

\* A grant that a refresh has narrowed is never widened again on the file, when its
\* refreshes do not overlap, not even by a restart.
THEOREM NarrowedStaysNarrow == SequentialSpec => ScopesNeverWiden
PROOF
<1>1. Narrows(disk, disk') =>
        \A g \in Grants :
          /\ disk.grants[g] # None
          /\ disk'.grants[g] # None
          => disk'.grants[g].scopes \subseteq disk.grants[g].scopes
  BY DEF Narrows
<1> QED
  BY <1>1, InitSequential, StepKeepsSequential, PTL DEF SequentialSpec, ScopesNeverWiden
=============================================================================
