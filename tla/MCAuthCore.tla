----------------------------- MODULE MCAuthCore ----------------------------
\* Instances of AuthCore for TLC; the cfg files give the sets and the bounds.
EXTENDS AuthDurability, TLC

\* Every client may ask for every scope of the instance.
AllScopes == [c \in Clients |-> Scopes]

\* Identifiers of one kind are interchangeable, also in the mapping to the ledger:
\* KeyFor picks from at most one key.
Symmetry ==
  Permutations(Flows) \cup Permutations(Codes) \cup Permutations(Grants)
    \cup Permutations(Tokens) \cup Permutations(Requests)
=============================================================================
