--------------------------- MODULE FinanceService ---------------------------
(***************************************************************************)
(* The finance service: expense accounts, their expenses and their         *)
(* balances over one database.  Its requests meet in the rows they share   *)
(* and in the workers that serve them.                                     *)
(***************************************************************************)
EXTENDS ExpenseAccounts, ExpenseHistory, BalanceHistory

vars == <<tables, server, accountVars, historyVars, balanceVars>>

Init == FinanceInit /\ AccountsInit /\ HistoryInit /\ BalanceInit

Next ==
  \/ AccountsNext /\ UNCHANGED <<historyVars, balanceVars>>
  \/ HistoryNext /\ UNCHANGED <<accountVars, balanceVars>>
  \/ BalanceNext /\ UNCHANGED <<accountVars, historyVars>>

Spec == Init /\ [][Next]_vars

\* A request that has begun is carried on: no statement of it waits for ever to
\* be sent.
Serve(p) ==
  \/ AccountStep(p) /\ UNCHANGED <<historyVars, balanceVars>>
  \/ HistoryStep(p) /\ UNCHANGED <<accountVars, balanceVars>>
  \/ BalanceStep(p) /\ UNCHANGED <<accountVars, historyVars>>
  \/ EndBalance(p) /\ UNCHANGED <<accountVars, historyVars>>

FairSpec == Spec /\ \A p \in Workers : WF_vars(Serve(p))

-----------------------------------------------------------------------------
\* The three components and the server are typed; a worker serves one request
\* at a time, and whatever a request has loaded still exists, because nothing
\* deletes rows.
TypeOK ==
  /\ AccountsTypeOK /\ HistoryTypeOK /\ BalanceTypeOK
  /\ calls \in 0 .. MaxCalls
  /\ \A p \in Workers :
       Cardinality({c \in {acct[p].pc} \X {1} \cup {hist[p].pc} \X {2}
                             \cup {bal[p].pc} \X {3} : c[1] # "idle"})
         = IF p \in busy THEN 1 ELSE 0

\* Every account belongs to exactly one warehouse and every link has its
\* account, whatever fails between the two inserts of createWarehouse-
\* ExpenseAccountImpl.Create: they are one transaction, and an edit moves
\* neither end of a link.
AccountsAndLinksPair ==
  /\ \A l \in DOMAIN links : links[l].account \in DOMAIN accounts
  /\ \A a \in DOMAIN accounts :
       Cardinality({l \in DOMAIN links : links[l].account = a}) = 1

\* Whatever creates and edits overlap, no two accounts get one number id: the
\* edit does not look for it at all, and the create only before its insert.
NumbersUnique ==
  LET Seen(p) == Over(acct[p].accounts, accounts)
  IN  \A p \in Workers : \A a, b \in DOMAIN Seen(p) :
        Seen(p)[a].number = Seen(p)[b].number => a = b

\* What ExpenseAccountEdit answers is what it has committed, in both tables, when
\* it was told the warehouse: name, number and the flag of the link.
EditIsWhole ==
  [][\A p \in Workers :
       (CommitAccount(p) /\ AReq(p).kind = "edit" /\ AReq(p).warehouse # 0) =>
         LET l == acct[p].link
             a == links[l].account
         IN  /\ accounts'[a].number = AReq(p).number
             /\ accounts'[a].label = AReq(p).label
             /\ links'[l] = [links[l] EXCEPT !.ops = AReq(p).ops]]_vars

\* Overlapping edits of an expense never mix: every row is wholly one edit, or
\* one add, by a user who was allowed that type, for an account that is linked
\* to that warehouse.  (An edit checks neither of the two.)
RowsAreRequested ==
  \A i \in DOMAIN histories : \E r \in ExpenseRequests :
    \/ r.kind = "edit" /\ r.id = i /\ histories[i] = Edited(r, histories[i])
    \/ /\ r.kind = "add"
       /\ r.from = Admin \/ r.type \in CanCreate[r.from]
       /\ \E l \in OfAccount(r.account) \cap OfWarehouse(r.warehouse) :
            histories[i] =
              [warehouse |-> links[l].warehouse, account |-> links[l].account,
               by |-> r.user, type |-> r.type, content |-> r.content]

\* A call for an account that nobody has never changes the balance of one that
\* some warehouse has, although its search runs over all of them.
UnknownTouchesNothing ==
  [][\A p \in Workers :
       (CreateBalance(p) \/ UpdateBalance(p)) /\ bal[p].link = NoLink =>
         \A i \in DOMAIN balances :
           balances[i].warehouse # 0 => balances'[i] = balances[i]]_vars

\* Every request ends, whatever numbers and rows others hold: one that holds a
\* number id waits for nothing any more, and an edit that finds its rows locked
\* gives up (NOWAIT in GetByQuery).
RequestsEnd == \A p \in Workers : p \in busy ~> p \notin busy

-----------------------------------------------------------------------------
\* "warehouse already have operational expense account"
\* (warehouse_mutations/create_account.go:110): a warehouse has one at most.
OneOpsAccount ==
  \A l, m \in DOMAIN links :
    links[l].ops /\ links[m].ops /\ links[l].warehouse = links[m].warehouse
      => l = m

\* "need admin permission for update" (warehouse_mutations/expense_hist.go:133):
\* only an administrator turns the type of a row into or out of the types that
\* need one.
AdminTypesByAdmin ==
  [][\A p \in Workers : CommitExpense(p) =>
       \A i \in DOMAIN histories :
         (histories'[i].type # histories[i].type
            /\ {histories[i].type, histories'[i].type} \cap AdminTypes # {}) =>
           HReq(p).from = Admin]_vars

\* "can't change warehouse expense" (warehouse_mutations/expense_hist.go:124):
\* only an administrator moves a row to another warehouse.
MovedByAdmin ==
  [][\A p \in Workers : CommitExpense(p) =>
       \A i \in DOMAIN histories :
         histories'[i].warehouse # histories[i].warehouse =>
           HReq(p).from = Admin]_vars

\* "per day" (warehouse_models/expense.go:173): an account has at most one
\* balance of a day.
OnePerDay ==
  \A i, j \in DOMAIN balances :
    /\ balances[i].account = balances[j].account
    /\ StoredDay(balances[i].at) = StoredDay(balances[j].at)
    => i = j

BalanceAccounts == {FirstLinks[l].account : l \in DOMAIN FirstLinks} \cup {0}

\* One call after the other, on Jakarta's clock, the rows of the accounts there
\* are from the start are one balance per account and day, which each call of
\* Create replaces.
Promise == INSTANCE DailyBalance WITH
  Accounts <- BalanceAccounts,
  balance <- [k \in BalanceAccounts \X Days |->
                LET found == {i \in DOMAIN balances :
                                /\ balances[i].account = k[1]
                                /\ StoredDay(balances[i].at) = k[2]}
                IN  IF found = {} THEN None
                    ELSE balances[CHOOSE i \in found : TRUE].amount]

ImplementsDailyBalance == Promise!Spec
=============================================================================
