----------------------------- MODULE ChangeLog -----------------------------
(***************************************************************************)
(* CreateStockChangeLog: the stock changes an inventory transaction stands *)
(* for, computed from the tables the rest of the platform maintains.       *)
(*                                                                         *)
(* db is a snapshot of those tables:                                       *)
(*   tx       transaction id -> [warehouse, created, arrived, createdBy,   *)
(*            verifiedBy]; days and user ids are naturals, 0 is SQL NULL   *)
(*   item     rows of inv_tx_items      [id, tx, sku, count, price]        *)
(*   problem  rows of inv_item_problems [id, item, count]                  *)
(*   cost     rows of restock_costs     [id, tx, fee]                      *)
(*   cancel   rows of inv_timestamps with status 'cancel' [id, tx, at, by] *)
(*   transfer transfer id -> [outbound, inbound]                           *)
(***************************************************************************)
EXTENDS Integers, FiniteSets, SequencesExt

\* The change types by the fields their query reads.
DebitTypes  == {"ORDER_ACCEPTED", "TRANSFER_OUT", "TRANSFER_IN_CANCELED",
                "STOCK_PROBLEM"}
CreditTypes == {"RESTOCK_ACCEPTED", "RETURN_ACCEPTED", "STOCK_FOUND_BACK",
                "TRANSFER_IN", "TRANSFER_OUT_CANCELED"}
ChangeTypes == DebitTypes \cup CreditTypes \cup {"ORDER_CANCELED"}

Sign(type) == IF type \in DebitTypes THEN -1 ELSE 1

\* What stage two of the chain hands on: a StockChange event, no event and no
\* error, or an error.
Failed  == [tag |-> "error", day |-> 0, changes |-> <<>>]
Nothing == [tag |-> "nil",   day |-> 0, changes |-> <<>>]
StockChange(day, changes) ==
  [tag |-> "event", day |-> day, changes |-> changes]

CancelsOf(db, tx) == {c \in db.cancel : c.tx = tx}

-----------------------------------------------------------------------------
\* The first query: "Find(&timetx)".  No row leaves the zero time; NULL in
\* "arrived" cannot be scanned into a time.Time.
TimeUnreadable(db, tx, type) ==
  type \in CreditTypes /\ tx \in DOMAIN db.tx /\ db.tx[tx].arrived = 0

TimesOf(db, tx, type) ==
  IF type = "ORDER_CANCELED"
  THEN IF CancelsOf(db, tx) = {} THEN {0} ELSE {c.at : c \in CancelsOf(db, tx)}
  ELSE IF tx \notin DOMAIN db.tx THEN {0}
  ELSE IF type \in DebitTypes THEN {db.tx[tx].created}
  ELSE {db.tx[tx].arrived}

-----------------------------------------------------------------------------
\* The second query.  Its left joins give one row for every combination of an
\* item with a problem row of the item and a cost row of the transaction.
NoProblem == [id |-> 0, count |-> 0]
NoCost    == [id |-> 0, fee |-> 0]

ProblemsOf(db, item) ==
  LET found == {p \in db.problem : p.item = item.id}
  IN  IF found = {} THEN {NoProblem}
      ELSE {[id |-> p.id, count |-> p.count] : p \in found}

CostsOf(db, tx) ==
  LET found == {c \in db.cost : c.tx = tx}
  IN  IF found = {} THEN {NoCost} ELSE {[id |-> c.id, fee |-> c.fee] : c \in found}

ItemsOf(db, tx) == {i \in db.item : i.tx = tx}

Joined(i, problems, costs) ==
  {[item |-> i, problem |-> p, cost |-> c] : p \in problems, c \in costs}

JoinRows(db, tx) ==
  UNION {Joined(i, ProblemsOf(db, i), CostsOf(db, tx)) : i \in ItemsOf(db, tx)}

\* Mutant: the cancellation of an order gives back the broken pieces as well.
CountOfOrder(row, type) ==
  Sign(type) * (IF type \in {"STOCK_PROBLEM", "ORDER_CANCELED"} THEN row.item.count
                ELSE row.item.count - row.problem.count)

\* Columns change_count and change_amount: a reported problem keeps the whole
\* count of the item, every other type subtracts the problem's count.
CountOf(row, type) ==
  Sign(type) * (IF type = "STOCK_PROBLEM" THEN row.item.count
                ELSE row.item.count - row.problem.count)

\* Mutant: the amount is not reduced by the problem.
AmountOfAll(row, type) ==
  Sign(type) * row.item.count * (row.item.price + row.cost.fee)

AmountOf(row, type) ==
  CountOf(row, type) * (row.item.price + row.cost.fee)

\* Column actor_id; a NULL is scanned as 0.
ActorOf(db, tx, type) ==
  IF type = "ORDER_CANCELED"
  THEN IF CancelsOf(db, tx) = {} THEN 0
       ELSE (CHOOSE c \in CancelsOf(db, tx) : TRUE).by
  ELSE IF type \in DebitTypes THEN db.tx[tx].createdBy
  ELSE db.tx[tx].verifiedBy

ChangedRows(db, tx, type) ==
  {r \in JoinRows(db, tx) : tx \in DOMAIN db.tx /\ CountOf(r, type) # 0}

\* "more than one row returned by a subquery used as an expression"
ActorAmbiguous(db, tx, type) ==
  /\ type = "ORDER_CANCELED"
  /\ Cardinality(CancelsOf(db, tx)) > 1
  /\ ChangedRows(db, tx, type) # {}

ChangeOf(db, msg, tx, type, row) ==
  [sku       |-> row.item.sku,
   warehouse |-> db.tx[tx].warehouse,
   actor     |-> ActorOf(db, tx, type),
   tx        |-> tx,
   count     |-> CountOf(row, type),
   amount    |-> AmountOf(row, type),
   ext       |-> msg]

\* The event of the selected rows.  The query has no ORDER BY, so they come in
\* any order.
Logged(db, msg, tx, type) ==
  {StockChange(day, [i \in 1 .. Len(order) |->
                       ChangeOf(db, msg, tx, type, order[i])]) :
     day \in TimesOf(db, tx, type),
     order \in SetToSeqs(ChangedRows(db, tx, type))}

\* Every result the call may return.
CreateStockChangeLog(db, msg, tx, type) ==
  IF TimeUnreadable(db, tx, type) \/ ActorAmbiguous(db, tx, type) THEN {Failed}
  ELSE IF ChangedRows(db, tx, type) # {} THEN Logged(db, msg, tx, type)
  ELSE IF type \in {"RESTOCK_ACCEPTED", "RETURN_ACCEPTED"} THEN {Nothing}
  ELSE {Failed}
=============================================================================
