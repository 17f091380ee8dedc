--------------------------- MODULE AuthDurability ---------------------------
\* AuthCore implements AuthLedger: the file of the store is the ledger.
EXTENDS AuthCore

\* The one key of a table whose record belongs to the flow, or None.
KeyFor(flow, table) ==
  LET keys == {k \in DOMAIN table : table[k] # None /\ table[k].flow = flow} IN
  IF keys = {} THEN None ELSE CHOOSE k \in keys : TRUE

ConsumedFlows ==
  {f \in Flows : disk.pendingStates[f] # None /\ disk.pendingStates[f].used}

SpentFlows ==
  {f \in Flows : \E c \in Codes :
     /\ disk.authorizationCodes[c] # None
     /\ disk.authorizationCodes[c].flow = f
     /\ disk.authorizationCodes[c].used}

Owner ==
  [t \in Tokens |->
     IF disk.accessTokens[t] = None THEN None ELSE disk.accessTokens[t].grant]

Ledger ==
  INSTANCE AuthLedger WITH
    consumed <- ConsumedFlows,
    codeOf   <- [f \in Flows |-> KeyFor(f, disk.authorizationCodes)],
    spent    <- SpentFlows,
    grantOf  <- [f \in Flows |-> KeyFor(f, disk.grants)],
    owner    <- Owner

\* The file is an append-only ledger of consumed states, spent codes and granted
\* tokens: no crash, failed write or overlap of requests ever takes an entry
\* back, changes it or enters it before what it rests on (authStore.ts, which has
\* no operation that deletes; the order of the writes in authCore.ts and state.ts).
FileIsLedger == Ledger!Spec
=============================================================================
