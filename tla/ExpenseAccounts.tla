-------------------------- MODULE ExpenseAccounts --------------------------
(***************************************************************************)
(* Transactions of the finance service that create, edit and disable       *)
(* expense accounts.  A transaction stages its writes and publishes them   *)
(* at COMMIT (READ COMMITTED).  Ids come from sequences, which a ROLLBACK  *)
(* does not give back.                                                     *)
(***************************************************************************)
EXTENDS FinanceTables

CONSTANTS
  Matches,         \* <<n, m>>: m contains n, so that m LIKE %n%
  AccountRequests  \* the requests that may arrive

VARIABLES
  lastAccount,  \* the last id the sequence of accounts has given away
  lastLink,     \* the same for links
  acct          \* worker -> its request and what it has staged

sequences == <<lastAccount, lastLink>>
accountVars == <<sequences, acct>>

AccountRequest ==
  [kind : {"create", "edit", "disable"}, warehouse : Warehouses \cup {0},
   account : Nat, number : Numbers, label : Labels, ops : BOOLEAN]

ASSUME AccountsAssumption ==
  /\ Matches \subseteq Numbers \X Numbers
  /\ AccountRequests \subseteq AccountRequest

NoAccountWork ==
  [pc |-> "idle", req |-> <<>>, link |-> 0, held |-> {},
   accounts |-> NoRows, links |-> NoRows]

AReq(p) == acct[p].req
AtA(p, pc) == acct[p].pc = pc
GotoA(p, pc) == acct' = [acct EXCEPT ![p].pc = pc] /\ UNCHANGED server

OpsLinks(w) == {l \in OfWarehouse(w) : links[l].ops}

\* Rows that another transaction has locked or written.
Row(table, id) == <<table, id>>
RowsOf(l) == {Row("link", l), Row("account", links[l].account)}
HeldElsewhere(p) == UNION {acct[q].held : q \in Workers \ {p}}

\* Mutant: number_id has no unique index.
NoHolders(p, n) == {}

\* The unique index makes a write of number n wait for a transaction that has
\* an uncommitted row with it, or has moved a committed row away from it.
NumberHolders(p, n) ==
  {q \in Workers \ {p} :
     \E a \in DOMAIN acct[q].accounts :
       \/ acct[q].accounts[a].number = n
       \/ a \in DOMAIN accounts /\ accounts[a].number = n}

NumberTaken(n, but) ==
  \E a \in DOMAIN accounts \ {but} : accounts[a].number = n

-----------------------------------------------------------------------------
BeginAccount(p, r) ==
  /\ Accept(p)
  /\ acct' = [acct EXCEPT ![p] =
       [NoAccountWork EXCEPT !.pc = IF r.kind = "create" THEN "number" ELSE "load",
                             !.req = r]]
  /\ UNCHANGED <<tables, sequences>>

\* Mutant: the error leaves the transaction open.
RefuseOnly(p) ==
  /\ acct' = [acct EXCEPT ![p].pc = "idle"]
  /\ Release(p)

\* An error is returned to db.Transaction: ROLLBACK.
RefuseAccount(p) ==
  /\ acct' = [acct EXCEPT ![p] = NoAccountWork]
  /\ Release(p)

\* Mutant: the statements are not one transaction.
FailHalfway(p) ==
  /\ ~AtA(p, "idle")
  /\ accounts' = Over(acct[p].accounts, accounts)
  /\ links' = Over(acct[p].links, links)
  /\ acct' = [acct EXCEPT ![p] = NoAccountWork]
  /\ Release(p)
  /\ UNCHANGED sequences

\* A statement fails, the request is cancelled or the server dies.
FailAccount(p) ==
  /\ ~AtA(p, "idle")
  /\ RefuseAccount(p)
  /\ UNCHANGED <<tables, sequences>>

\* checkNumberID
CheckNumber(p) ==
  /\ AtA(p, "number")
  /\ IF \E l \in OfWarehouse(AReq(p).warehouse) :
          <<AReq(p).number, accounts[links[l].account].number>> \in Matches
     THEN RefuseAccount(p)
     ELSE GotoA(p, IF AReq(p).ops THEN "ops" ELSE "insert")
  /\ UNCHANGED <<tables, sequences>>

\* Mutant: no check.
SkipOps(p) ==
  /\ AtA(p, "ops")
  /\ GotoA(p, "insert")
  /\ UNCHANGED <<tables, sequences>>

\* checkOpsAccount
CheckOps(p) ==
  /\ AtA(p, "ops")
  /\ IF OpsLinks(AReq(p).warehouse) # {}
     THEN RefuseAccount(p)
     ELSE GotoA(p, "insert")
  /\ UNCHANGED <<tables, sequences>>

InsertAccount(p) ==
  LET id == lastAccount + 1
      r == AReq(p)
  IN  /\ AtA(p, "insert")
      /\ NumberHolders(p, r.number) = {}
      /\ lastAccount' = id
      /\ IF NumberTaken(r.number, 0)
         THEN RefuseAccount(p)
         ELSE /\ acct' = [acct EXCEPT
                   ![p].pc = "link",
                   ![p].held = {Row("account", id)},
                   ![p].accounts = OneRow(id,
                     [number |-> r.number, label |-> r.label, disabled |-> FALSE])]
              /\ UNCHANGED server
      /\ UNCHANGED <<tables, lastLink>>

InsertLink(p) ==
  LET id == lastLink + 1
      r == AReq(p)
  IN  /\ AtA(p, "link")
      /\ lastLink' = id
      /\ \E a \in DOMAIN acct[p].accounts :
           acct' = [acct EXCEPT
             ![p].pc = "commit",
             ![p].held = @ \cup {Row("link", id)},
             ![p].links = OneRow(id,
               [account |-> a, warehouse |-> r.warehouse, ops |-> r.ops])]
      /\ UNCHANGED <<tables, lastAccount, server>>

-----------------------------------------------------------------------------
NextOf(r) == CASE r.kind = "disable" -> "disable"
               [] r.kind = "edit" /\ r.ops -> "own"
               [] OTHER -> "account"

\* Mutant: the id of the account for that of the link row.
LockByAccount(p, l) ==
  acct' = [acct EXCEPT ![p].link = links[l].account, ![p].held = RowsOf(l),
                       ![p].pc = NextOf(AReq(p))]

LockRows(p, l) ==
  acct' = [acct EXCEPT ![p].link = l, ![p].held = RowsOf(l),
                       ![p].pc = NextOf(AReq(p))]

\* GetByQuery with FOR UPDATE NOWAIT over the join locks the link and its
\* account, or fails at once.
LoadAccount(p) ==
  LET found == {l \in OfWarehouse(AReq(p).warehouse) :
                  links[l].account = AReq(p).account}
  IN  /\ AtA(p, "load")
      /\ \/ found = {} /\ RefuseAccount(p)
         \/ \E l \in found : IF RowsOf(l) \cap HeldElsewhere(p) = {}
                             THEN LockRows(p, l) /\ UNCHANGED server
                             ELSE RefuseAccount(p)
      /\ UNCHANGED <<tables, sequences>>

\* Update of an account that shall be an ops account looks for an ops link of
\* that same account.  The row is read into another type, for which the
\* statement itself may fail: that is FailAccount.
CheckOwnOps(p) ==
  /\ AtA(p, "own")
  /\ IF OpsLinks(AReq(p).warehouse) \cap OfAccount(links[acct[p].link].account) # {}
     THEN RefuseAccount(p)
     ELSE GotoA(p, "account")
  /\ UNCHANGED <<tables, sequences>>

SaveAccount(p) ==
  LET a == links[acct[p].link].account
      r == AReq(p)
  IN  /\ AtA(p, "account")
      /\ NumberHolders(p, r.number) = {}
      /\ IF NumberTaken(r.number, a)
         THEN RefuseAccount(p)
         ELSE /\ acct' = [acct EXCEPT
                   ![p].pc = "saveLink",
                   ![p].accounts = OneRow(a,
                     [accounts[a] EXCEPT !.number = r.number, !.label = r.label])]
              /\ UNCHANGED server
      /\ UNCHANGED <<tables, sequences>>

\* Mutant: the id of the link row for the id of the account.
LinksById(p) ==
  {l \in DOMAIN links : /\ links[l].warehouse = AReq(p).warehouse
                        /\ links[l].account = acct[p].link}

\* UPDATE ... WHERE warehouse_id = ? AND account_id = ?: here 0 is a condition
\* like any other.
LinksToSave(p) ==
  {l \in DOMAIN links : /\ links[l].warehouse = AReq(p).warehouse
                        /\ links[l].account = links[acct[p].link].account}

SaveLink(p) ==
  /\ AtA(p, "saveLink")
  /\ acct' = [acct EXCEPT
       ![p].pc = "commit",
       ![p].links = [l \in LinksToSave(p) |->
                       [links[l] EXCEPT !.ops = AReq(p).ops]]]
  /\ UNCHANGED <<tables, sequences, server>>

\* Disabled updates the account whose id is that of the loaded link row; the
\* UPDATE waits for whoever holds that row.
SaveDisabled(p) ==
  LET target == {acct[p].link} \cap DOMAIN accounts
      rows == {Row("account", a) : a \in target}
  IN  /\ AtA(p, "disable")
      /\ rows \cap HeldElsewhere(p) = {}
      /\ acct' = [acct EXCEPT
           ![p].pc = "commit",
           ![p].held = @ \cup rows,
           ![p].accounts = [a \in target |->
                              [accounts[a] EXCEPT !.disabled = TRUE]]]
      /\ UNCHANGED <<tables, sequences, server>>

CommitAccount(p) ==
  /\ AtA(p, "commit")
  /\ accounts' = Over(acct[p].accounts, accounts)
  /\ links' = Over(acct[p].links, links)
  /\ acct' = [acct EXCEPT ![p] = NoAccountWork]
  /\ Release(p)
  /\ UNCHANGED sequences

-----------------------------------------------------------------------------
LastId(table) == IF DOMAIN table = {} THEN 0
                 ELSE CHOOSE i \in DOMAIN table : \A j \in DOMAIN table : j <= i

AccountsInit ==
  /\ lastAccount = LastId(FirstAccounts)
  /\ lastLink = LastId(FirstLinks)
  /\ acct = [p \in Workers |-> NoAccountWork]

AccountStep(p) ==
  \/ CheckNumber(p) \/ CheckOps(p) \/ InsertAccount(p) \/ InsertLink(p)
  \/ LoadAccount(p) \/ CheckOwnOps(p) \/ SaveAccount(p) \/ SaveLink(p)
  \/ SaveDisabled(p)
  \/ CommitAccount(p)

AccountsNext ==
  \E p \in Workers :
    \/ \E r \in AccountRequests : BeginAccount(p, r)
    \/ AccountStep(p)
    \/ FailAccount(p)

-----------------------------------------------------------------------------
IsTable(table, type) ==
  \A i \in DOMAIN table : i \in Nat \ {0} /\ table[i] \in type

AccountsTypeOK ==
  /\ IsTable(accounts, Account) /\ IsTable(links, Link)
  /\ lastAccount \in Nat /\ lastLink \in Nat
  /\ \A p \in Workers :
       /\ acct[p].pc \in {"idle", "number", "ops", "insert", "link", "load",
                          "own", "account", "saveLink", "disable", "commit"}
       /\ ~AtA(p, "idle") => AReq(p) \in AccountRequest
       /\ acct[p].link \in DOMAIN links \cup {0}
       /\ IsTable(acct[p].accounts, Account) /\ IsTable(acct[p].links, Link)
=============================================================================
