--------------------------- MODULE BalanceHistory ---------------------------
(***************************************************************************)
(* Rows of ware_balance_account_histories.  wareBalanceAccountHistImpl's   *)
(* Create looks up the account, looks for a balance of that day, and       *)
(* inserts one or updates the one it found.  Every statement commits by    *)
(* itself, as in its only caller, the test of the package.                 *)
(***************************************************************************)
EXTENDS FinanceTables

CONSTANTS
  Amounts,
  MaxTime,         \* bound: the last instant a balance is for
  DayLength,       \* instants in a day
  JakartaShift,    \* from the clock of the database to Asia/Jakarta
  CallerShift,     \* from the clock of the database to the location of "at"
  None,
  BalanceRequests  \* the calls that may be made

VARIABLES
  balances,  \* id -> row
  bal        \* worker -> its call and what it has found

balanceVars == <<balances, bal>>

Times == 0 .. MaxTime
BalanceRequest == [account : Nat, amount : Amounts, at : Times]

ASSUME BalanceAssumption ==
  /\ MaxTime \in Nat /\ DayLength \in Nat \ {0}
  /\ JakartaShift \in Nat /\ CallerShift \in Nat
  /\ BalanceRequests \subseteq BalanceRequest
  /\ None \notin Nat

\* DATE(at AT TIME ZONE 'Asia/Jakarta') of a stored row.
StoredDay(t) == (t + JakartaShift) \div DayLength
Days == 0 .. StoredDay(MaxTime)

\* Mutant: the day in the zone of the database.
AskedDayUTC(t) == t \div DayLength

\* at.Format("2006-01-02") of the argument.
AskedDay(t) == (t + CallerShift) \div DayLength

Balance ==
  [account : Nat, warehouse : Nat, amount : Amounts, at : Times]

\* The zero value of a struct that no row was scanned into.
NoLink == [account |-> 0, warehouse |-> 0, ops |-> FALSE]

NoBalanceWork ==
  [pc |-> "idle", req |-> <<>>, link |-> NoLink, found |-> None]

BReq(p) == bal[p].req
AtB(p, pc) == bal[p].pc = pc

\* FromWarehouse(0) and FromAccount(0) add no condition, so without a link the
\* rows of every account of that day are looked at.
BalancesOf(link, day) ==
  {i \in DOMAIN balances : /\ link.warehouse \in {0, balances[i].warehouse}
                           /\ link.account \in {0, balances[i].account}
                           /\ StoredDay(balances[i].at) = day}

\* The unique index ware_account_at.
Taken(account, at, but) ==
  \E i \in DOMAIN balances \ {but} :
    balances[i].account = account /\ balances[i].at = at

-----------------------------------------------------------------------------
BeginBalance(p, r) ==
  /\ Accept(p)
  /\ bal' = [bal EXCEPT ![p] =
               [NoBalanceWork EXCEPT !.pc = "account", !.req = r]]
  /\ UNCHANGED <<tables, balances>>

\* A statement fails (on the unique index, or on the key of account 0), or the
\* caller or the server dies.
EndBalance(p) ==
  /\ ~AtB(p, "idle")
  /\ bal' = [bal EXCEPT ![p] = NoBalanceWork]
  /\ Release(p)
  /\ UNCHANGED <<tables, balances>>

\* Find leaves the zero value when there is no row, which is no error.
FindAccount(p) ==
  LET found == {links[l] : l \in OfAccount(BReq(p).account)}
  IN  /\ AtB(p, "account")
      /\ \E l \in IF found = {} THEN {NoLink} ELSE found :
           bal' = [bal EXCEPT ![p].pc = "balance", ![p].link = l]
      /\ UNCHANGED <<tables, balances, server>>

FoundThen(i) == IF i = None THEN "create" ELSE "update"

FindBalance(p) ==
  LET found == BalancesOf(bal[p].link, AskedDay(BReq(p).at))
  IN  /\ AtB(p, "balance")
      /\ \E i \in IF found = {} THEN {None} ELSE found :
           bal' = [bal EXCEPT ![p].pc = FoundThen(i), ![p].found = i]
      /\ UNCHANGED <<tables, balances, server>>

\* "create if doesn't exist"
CreateBalance(p) ==
  LET link == bal[p].link
  IN  /\ AtB(p, "create")
      /\ ~Taken(link.account, BReq(p).at, 0)
      /\ balances' = Over(OneRow(Cardinality(DOMAIN balances) + 1,
           [account |-> link.account, warehouse |-> link.warehouse,
            amount |-> BReq(p).amount, at |-> BReq(p).at]), balances)
      /\ bal' = [bal EXCEPT ![p] = NoBalanceWork]
      /\ Release(p)
      /\ UNCHANGED tables

\* Mutant: WHERE warehouse_id = ?
RowsInWarehouse(p) ==
  {i \in DOMAIN balances : balances[i].warehouse = bal[p].link.warehouse}

\* Mutant: WHERE id = ?
RowsById(p) == {bal[p].found}

\* WHERE id = ? AND warehouse_id = ?
RowsToUpdate(p) ==
  {i \in {bal[p].found} : balances[i].warehouse = bal[p].link.warehouse}

UpdateBalance(p) ==
  LET rows == RowsToUpdate(p)
  IN  /\ AtB(p, "update")
      /\ \A i \in rows : ~Taken(balances[i].account, BReq(p).at, i)
      /\ balances' = Over([i \in rows |->
           [balances[i] EXCEPT !.amount = BReq(p).amount, !.at = BReq(p).at]], balances)
      /\ bal' = [bal EXCEPT ![p] = NoBalanceWork]
      /\ Release(p)
      /\ UNCHANGED tables

BalanceInit ==
  /\ balances = NoRows
  /\ bal = [p \in Workers |-> NoBalanceWork]

BalanceStep(p) ==
  FindAccount(p) \/ FindBalance(p) \/ CreateBalance(p) \/ UpdateBalance(p)

BalanceNext ==
  \E p \in Workers :
    \/ \E r \in BalanceRequests : BeginBalance(p, r)
    \/ BalanceStep(p)
    \/ EndBalance(p)

-----------------------------------------------------------------------------
BalanceTypeOK ==
  /\ \A i \in DOMAIN balances : i \in Nat \ {0} /\ balances[i] \in Balance
  /\ \A p \in Workers :
       /\ bal[p].pc \in {"idle", "account", "balance", "create", "update"}
       /\ ~AtB(p, "idle") => BReq(p) \in BalanceRequest
       /\ bal[p].link \in Link
       /\ AtB(p, "update") => bal[p].found \in DOMAIN balances
=============================================================================
