---------------------------- MODULE AuthLedger -----------------------------
(***************************************************************************)
(* What the authorization server promises of the file it keeps, whatever   *)
(* happens to the process: a ledger that is only ever added to. A consumed *)
(* state stays consumed, a spent code stays spent, and the code of a flow, *)
(* the grant of a flow and the grant of a token are written once and never *)
(* change. A flow has a code only when its state is consumed, and a grant  *)
(* only when that code is spent.                                           *)
(*                                                                         *)
(* One persisted write may carry several additions: those of earlier       *)
(* writes that failed reach the file with the next one that succeeds.      *)
(***************************************************************************)
CONSTANTS Flows, Codes, Grants, Tokens, None

VARIABLES
  consumed,  \* flows whose state is used
  codeOf,    \* the authorization code of each flow
  spent,     \* flows whose code is used
  grantOf,   \* the grant of each flow
  owner      \* the grant of each token pair

ledger == <<consumed, codeOf, spent, grantOf, owner>>

\* The new table g keeps every entry of the old one f.
Keeps(f, g) == \A x \in DOMAIN f : f[x] # None => g[x] = f[x]

Entered(f) == {x \in DOMAIN f : f[x] # None}

Coherent ==
  /\ Entered(codeOf) \subseteq consumed
  /\ spent \subseteq Entered(codeOf)
  /\ Entered(grantOf) \subseteq spent
  /\ \A t \in Entered(owner) : \E f \in Flows : grantOf[f] = owner[t]
  /\ \A e, f \in Flows : codeOf[e] = codeOf[f] => e = f \/ codeOf[e] = None
  /\ \A e, f \in Flows : grantOf[e] = grantOf[f] => e = f \/ grantOf[e] = None

Init ==
  /\ consumed = {}
  /\ codeOf = [f \in Flows |-> None]
  /\ spent = {}
  /\ grantOf = [f \in Flows |-> None]
  /\ owner = [t \in Tokens |-> None]

Add ==
  /\ consumed' \in SUBSET Flows
  /\ codeOf' \in [Flows -> Codes \cup {None}]
  /\ spent' \in SUBSET Flows
  /\ grantOf' \in [Flows -> Grants \cup {None}]
  /\ owner' \in [Tokens -> Grants \cup {None}]
  /\ consumed \subseteq consumed'
  /\ spent \subseteq spent'
  /\ Keeps(codeOf, codeOf')
  /\ Keeps(grantOf, grantOf')
  /\ Keeps(owner, owner')
  /\ Coherent'

Spec == Init /\ [][Add]_ledger
=============================================================================
