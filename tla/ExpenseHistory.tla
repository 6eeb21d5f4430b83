--------------------------- MODULE ExpenseHistory ---------------------------
(***************************************************************************)
(* Rows of ware_expense_histories: ExpenseHistoryAdd and                   *)
(* ExpenseHistoryEdit of the finance service, each one transaction.  An    *)
(* edit reads the row without a lock, checks who may change what, and      *)
(* saves the whole row.                                                    *)
(***************************************************************************)
EXTENDS FinanceTables

CONSTANTS
  Admin,           \* the team type of administrators
  Teams,           \* all team types
  AdminTypes,      \* ExpenseType.NeedAdminPermission
  Types,           \* all expense types
  CanCreate,       \* team type -> the types that it may create
  Contents,        \* amount, note and time
  ExpenseRequests  \* the requests that may arrive

VARIABLES
  histories,    \* id -> committed row of ware_expense_histories
  lastHistory,  \* the last id the sequence has given away
  hist          \* worker -> its request, what it has read and written

historyVars == <<histories, lastHistory, hist>>

ExpenseRequest ==
  [kind : {"add", "edit"}, id : Nat, from : Teams, user : Nat,
   warehouse : Nat, account : Nat, type : Types, content : Contents]
Expense ==
  [warehouse : Nat, account : Nat, by : Nat, type : Types, content : Contents]

ASSUME HistoryAssumption ==
  /\ Admin \in Teams
  /\ AdminTypes \subseteq Types
  /\ CanCreate \in [Teams -> SUBSET Types]
  /\ ExpenseRequests \subseteq ExpenseRequest

NoExpenseWork == [pc |-> "idle", req |-> <<>>, read |-> <<>>, wrote |-> NoRows]

HReq(p) == hist[p].req
AtH(p, pc) == hist[p].pc = pc

MayCreate(r) == r.from = Admin \/ r.type \in CanCreate[r.from]

\* Mutant: the account of the request in place of the one that was found.
AddedAsAsked(r, link) ==
  [warehouse |-> r.warehouse, account |-> r.account, by |-> r.user,
   type |-> r.type, content |-> r.content]

Added(r, link) ==
  [warehouse |-> link.warehouse, account |-> link.account, by |-> r.user,
   type |-> r.type, content |-> r.content]

\* Mutant: whoever may edit may move.
MayMoveAlways(r, old) == TRUE

MayMove(r, old) == old.warehouse # r.warehouse => r.from = Admin

\* Mutant: only the new type is looked at.
MayRetypeTo(r, old) ==
  (old.type # r.type /\ r.type \in AdminTypes) => r.from = Admin

MayRetype(r, old) ==
  (old.type # r.type /\ {old.type, r.type} \cap AdminTypes # {}) =>
    r.from = Admin

\* Every field of the row is assigned, so the saved row is the request.
Edited(r, old) ==
  [old EXCEPT !.warehouse = r.warehouse, !.account = r.account, !.by = r.user,
              !.type = r.type, !.content = r.content]

-----------------------------------------------------------------------------
BeginExpense(p, r) ==
  /\ Accept(p)
  /\ hist' = [hist EXCEPT ![p] =
       [NoExpenseWork EXCEPT !.pc = IF r.kind = "add" THEN "account" ELSE "load",
                             !.req = r]]
  /\ UNCHANGED <<tables, histories, lastHistory>>

\* The request is refused, a statement fails or the server dies: ROLLBACK.
RollBackExpense(p) ==
  /\ ~AtH(p, "idle")
  /\ hist' = [hist EXCEPT ![p] = NoExpenseWork]
  /\ Release(p)
  /\ UNCHANGED <<tables, histories, lastHistory>>

\* GetAccount: the first of the links that the conditions let through.
GetAccount(p) ==
  LET found == OfAccount(HReq(p).account) \cap OfWarehouse(HReq(p).warehouse)
  IN  /\ AtH(p, "account")
      /\ \/ found = {} /\ RollBackExpense(p)
         \/ /\ \E l \in found :
                 hist' = [hist EXCEPT ![p].pc = "create", ![p].read = links[l]]
            /\ UNCHANGED <<tables, histories, lastHistory, server>>

NewId == lastHistory + 1

CreateExpense(p) ==
  /\ AtH(p, "create")
  /\ \/ ~MayCreate(HReq(p)) /\ RollBackExpense(p)
     \/ /\ MayCreate(HReq(p))
        /\ lastHistory' = lastHistory + 1
        /\ hist' = [hist EXCEPT ![p].pc = "commit",
                      ![p].wrote = OneRow(NewId, Added(HReq(p), hist[p].read))]
        /\ UNCHANGED <<tables, histories, server>>

\* GetExpense: First without FOR UPDATE, of committed rows.
GetExpense(p) ==
  LET id == HReq(p).id
  IN  /\ AtH(p, "load")
      /\ \/ id \notin DOMAIN histories /\ RollBackExpense(p)
         \/ /\ id \in DOMAIN histories
            /\ hist' = [hist EXCEPT ![p].pc = "save", ![p].read = histories[id]]
            /\ UNCHANGED <<tables, histories, lastHistory, server>>

WrittenElsewhere(p) == UNION {DOMAIN hist[q].wrote : q \in Workers \ {p}}

MayEdit(p) ==
  MayMove(HReq(p), hist[p].read) /\ MayRetype(HReq(p), hist[p].read)

\* Update: the checks use the row as it was read, and the UPDATE of all its
\* columns waits for a transaction that has written the row.
UpdateExpense(p) ==
  LET id == HReq(p).id
  IN  /\ AtH(p, "save")
      /\ \/ ~MayEdit(p) /\ RollBackExpense(p)
         \/ /\ MayEdit(p)
            /\ id \notin WrittenElsewhere(p)
            /\ hist' = [hist EXCEPT ![p].pc = "commit",
                          ![p].wrote = OneRow(id, Edited(HReq(p), hist[p].read))]
            /\ UNCHANGED <<tables, histories, lastHistory, server>>

CommitExpense(p) ==
  /\ AtH(p, "commit")
  /\ histories' = Over(hist[p].wrote, histories)
  /\ hist' = [hist EXCEPT ![p] = NoExpenseWork]
  /\ Release(p)
  /\ UNCHANGED <<tables, lastHistory>>

HistoryInit ==
  /\ histories = NoRows
  /\ lastHistory = 0
  /\ hist = [p \in Workers |-> NoExpenseWork]

HistoryStep(p) ==
  \/ GetAccount(p) \/ CreateExpense(p)
  \/ GetExpense(p) \/ UpdateExpense(p)
  \/ CommitExpense(p)

HistoryNext ==
  \E p \in Workers :
    \/ \E r \in ExpenseRequests : BeginExpense(p, r)
    \/ HistoryStep(p)
    \/ RollBackExpense(p)

-----------------------------------------------------------------------------
HistoryTypeOK ==
  /\ lastHistory \in Nat
  /\ \A i \in DOMAIN histories : i \in 1 .. lastHistory /\ histories[i] \in Expense
  /\ \A p \in Workers :
       /\ hist[p].pc \in {"idle", "account", "create", "load", "save", "commit"}
       /\ ~AtH(p, "idle") => HReq(p) \in ExpenseRequest
       /\ AtH(p, "create") => hist[p].read \in Link
       /\ AtH(p, "save") => /\ hist[p].read \in Expense
                            /\ HReq(p).id \in DOMAIN histories
       /\ \A i \in DOMAIN hist[p].wrote :
            /\ hist[p].wrote[i] \in Expense
            /\ i \in 1 .. lastHistory
            /\ i \in DOMAIN histories <=> HReq(p).kind = "edit"
=============================================================================
