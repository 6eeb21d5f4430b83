--------------------------- MODULE FinanceTables ---------------------------
(***************************************************************************)
(* What the requests of the finance service share: the committed expense   *)
(* accounts and their links to warehouses, and the workers that serve      *)
(* requests.                                                               *)
(***************************************************************************)
EXTENDS Integers, FiniteSets, TLC

CONSTANTS
  Workers,        \* requests served at the same time
  Warehouses,     \* warehouse ids; 0 in a request means that none was given
  Numbers,        \* number ids of accounts
  Labels,         \* name and account type of an account
  FirstAccounts,  \* rows of ware_expense_accounts at the start
  FirstLinks,     \* rows of ware_expense_account_warehouses at the start
  MaxCalls        \* bound: requests

VARIABLES
  accounts,  \* id -> committed row of ware_expense_accounts
  links,     \* id -> committed row of ware_expense_account_warehouses
  busy,      \* the workers that serve a request
  calls      \* requests begun so far

tables == <<accounts, links>>
server == <<busy, calls>>

Account == [number : Numbers, label : Labels, disabled : BOOLEAN]
Link == [account : Nat, warehouse : Warehouses \cup {0}, ops : BOOLEAN]

ASSUME FinanceAssumption ==
  /\ Warehouses \subseteq Nat \ {0}
  /\ MaxCalls \in Nat
  /\ IsFiniteSet(DOMAIN FirstAccounts) /\ IsFiniteSet(DOMAIN FirstLinks)
  /\ \A a \in DOMAIN FirstAccounts :
       a \in Nat \ {0} /\ FirstAccounts[a] \in Account
  /\ \A l \in DOMAIN FirstLinks :
       /\ l \in Nat \ {0} /\ FirstLinks[l] \in Link
       /\ FirstLinks[l].account \in DOMAIN FirstAccounts

\* The unique index on number_id, and one link for every account.
ASSUME FirstRowsAssumption ==
  /\ \A a, b \in DOMAIN FirstAccounts :
       FirstAccounts[a].number = FirstAccounts[b].number => a = b
  /\ \A a \in DOMAIN FirstAccounts :
       \E l \in DOMAIN FirstLinks : FirstLinks[l].account = a
  /\ \A l, m \in DOMAIN FirstLinks :
       FirstLinks[l].account = FirstLinks[m].account => l = m

NoRows == [id \in {} |-> <<>>]

OneRow(id, row) == [i \in {id} |-> row]

\* What a table holds when the written rows have taken their places in it.
Over(written, table) ==
  [i \in DOMAIN written \cup DOMAIN table |->
     IF i \in DOMAIN written THEN written[i] ELSE table[i]]

\* FromWarehouse and FromAccount of the link query: 0 adds no condition.
OfWarehouse(w) == {l \in DOMAIN links : w = 0 \/ links[l].warehouse = w}
OfAccount(a) == {l \in DOMAIN links : a = 0 \/ links[l].account = a}

Accept(p) ==
  /\ p \notin busy
  /\ calls < MaxCalls
  /\ busy' = busy \cup {p}
  /\ calls' = calls + 1

Release(p) ==
  /\ busy' = busy \ {p}
  /\ UNCHANGED calls

FinanceInit ==
  /\ accounts = FirstAccounts
  /\ links = FirstLinks
  /\ busy = {}
  /\ calls = 0
=============================================================================
