---------------------------- MODULE StockTables ----------------------------
(***************************************************************************)
(* The PostgreSQL tables that the stock event handler and PrepareSkus      *)
(* share: daily_sku_histories, the rows of skus (of which only the row     *)
(* lock matters here) and the stock that the rows of invertory_histories   *)
(* without a transaction add up to.                                        *)
(*                                                                         *)
(* The *_count columns are modelled.  Every statement moves the *_amount   *)
(* columns by the same expression with the amount in place of the count.   *)
(***************************************************************************)
EXTENDS Integers, FiniteSets

CONSTANTS
  Skus,          \* the ids of the rows of table skus
  SkuNames,      \* every sku id an event may name, known or not
  Warehouses,    \* warehouse ids
  MaxDay,        \* bound: the last day modelled; 0 is the zero time
  Processes,     \* server processes that hold a database transaction
  None           \* no process

ASSUME TablesAssumption ==
  /\ Skus \subseteq SkuNames
  /\ MaxDay \in Nat \ {0}
  /\ None \notin Processes

VARIABLES
  daily,     \* daily_sku_histories: the committed row of every key
  skuLock,   \* the process whose transaction holds FOR UPDATE on a skus row
  stock      \* -sum(count) over invertory_histories of a sku, tx_id null

tables == <<daily, skuLock, stock>>

Days == 0 .. MaxDay

\* Unique key (t, sku_id, warehouse_id); only known skus ever get a row.
Keys == Days \X Skus \X Warehouses

Row == [used : BOOLEAN, start : Int, end : Int, diff : Int]

NoRow == [used |-> FALSE, start |-> 0, end |-> 0, diff |-> 0]

NewRow(start, end, diff) ==
  [used |-> TRUE, start |-> start, end |-> end, diff |-> diff]

\* Mutants: the new row opens after the change;
\* a prepared row opens at zero; a transaction keeps its locks.
InsertedAfter(init, count) == NewRow(init, init + count, count)

PreparedFromZero(init) == NewRow(0, init, 0)

KeepLocks(p) == skuLock

\* The INSERT of the event handler when the key is new: the day starts where
\* the stock stood before this change.
InsertedRow(init, count) == NewRow(init - count, init, count)

\* Its ON CONFLICT DO UPDATE: the start of the day is left alone.
UpdatedRow(row, count) ==
  NewRow(row.start, row.end + count, row.diff + count)

\* The INSERT of PrepareSkus; diff_stock_count takes its column default.
PreparedRow(init) == NewRow(init, init, 0)

\* What a transaction that has staged the rows "staged" reads: its own
\* uncommitted rows over the committed ones (READ COMMITTED).
Visible(staged, key) ==
  IF staged[key].used THEN staged[key] ELSE daily[key]

NoRows == [key \in Keys |-> NoRow]

\* COMMIT publishes the staged rows, and COMMIT and ROLLBACK drop the locks.
PublishRows(staged) == [key \in Keys |-> Visible(staged, key)]

ReleaseLocks(p) ==
  [s \in Skus |-> IF skuLock[s] = p THEN None ELSE skuLock[s]]

TablesInit ==
  /\ daily = NoRows
  /\ skuLock = [s \in Skus |-> None]
  /\ stock = [s \in Skus |-> 0]

TablesTypeOK ==
  /\ daily \in [Keys -> Row]
  /\ skuLock \in [Skus -> Processes \cup {None}]
  /\ stock \in [Skus -> Int]
=============================================================================
