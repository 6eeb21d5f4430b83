---------------------------- MODULE PrepareSkus ----------------------------
(***************************************************************************)
(* The RPC PrepareSkus: in one transaction it locks the skus it is given   *)
(* and opens today's daily_sku_histories row of each one that has none.    *)
(* It competes with the event handler for the sku locks.                   *)
(***************************************************************************)
EXTENDS StockTables

CONSTANTS
  Preparers,      \* PrepareSkus calls served at the same time
  SkuBatches,     \* the lists of ids, as sets, that a call may carry
  SkuWarehouse,   \* column warehouse_id of skus
  MaxCalls        \* bound: calls of one prepare-stat job, whose list is finite

ASSUME PrepareAssumption ==
  /\ Preparers \subseteq Processes
  /\ SkuBatches \subseteq SUBSET SkuNames
  /\ SkuWarehouse \in [Skus -> Warehouses]
  /\ MaxCalls \in Nat

VARIABLES
  today,   \* the day of time.Now() in Asia/Jakarta
  prep,    \* preparer -> its open transaction
  calls    \* calls made so far

prepareVars == <<today, prep, calls>>

PrepareIdle == [pc |-> "idle", want |-> {}, locked |-> {}, rows |-> NoRows]

PreparerState ==
  [pc : {"idle", "select", "insert"}, want : SUBSET Skus,
   locked : SUBSET Skus, rows : [Keys -> Row]]

PrepareTypeOK ==
  /\ today \in Days /\ calls \in 0 .. MaxCalls
  /\ prep \in [Preparers -> PreparerState]

\* Whoever holds a row that the SELECT has not yet locked.
PreparerWaitsFor(p) ==
  IF prep[p].pc = "select"
  THEN UNION {{skuLock[s]} \ {None, p} : s \in prep[p].want}
  ELSE {}

-----------------------------------------------------------------------------
NextDay ==
  /\ today < MaxDay
  /\ today' = today + 1
  /\ UNCHANGED <<prep, calls, tables>>

\* WHERE id IN (...): ids without a row are passed over.
BeginPrepare(p, batch) ==
  /\ prep[p].pc = "idle"
  /\ calls < MaxCalls
  /\ calls' = calls + 1
  /\ prep' = [prep EXCEPT ![p] =
       [PrepareIdle EXCEPT !.pc = "select", !.want = batch \cap Skus]]
  /\ UNCHANGED <<today, tables>>

\* Mutant: a plain SELECT, which waits for nobody.
ReadRow(p) ==
  /\ prep[p].pc = "select"
  /\ \E s \in prep[p].want :
       prep' = [prep EXCEPT ![p].want = @ \ {s}, ![p].locked = @ \cup {s}]
  /\ UNCHANGED <<today, calls, tables>>

\* SELECT ... FOR UPDATE without ORDER BY locks the rows in the order in which
\* the scan meets them, and waits at the first that is taken.
LockRow(p) ==
  /\ prep[p].pc = "select"
  /\ \E s \in prep[p].want :
       /\ skuLock[s] \in {None, p}
       /\ skuLock' = [skuLock EXCEPT ![s] = p]
       /\ prep' = [prep EXCEPT ![p].want = @ \ {s}, ![p].locked = @ \cup {s}]
  /\ UNCHANGED <<today, calls, daily, stock>>

EndSelect(p) ==
  /\ prep[p].pc = "select"
  /\ prep[p].want = {}
  /\ prep' = [prep EXCEPT ![p].pc = "insert"]
  /\ UNCHANGED <<today, calls, tables>>

\* Mutant: DO UPDATE in place of DO NOTHING.
InsertOrResetDay(p) ==
  /\ prep[p].pc = "insert"
  /\ \E s \in prep[p].locked :
       prep' = [prep EXCEPT
         ![p].locked = @ \ {s},
         ![p].rows = [@ EXCEPT ![<<today, s, SkuWarehouse[s]>>] =
                        PreparedRow(stock[s])]]
  /\ UNCHANGED <<today, calls, tables>>

\* INSERT ... ON CONFLICT DO NOTHING, one locked sku after the other.
InsertDay(p) ==
  /\ prep[p].pc = "insert"
  /\ \E s \in prep[p].locked :
       LET key == <<today, s, SkuWarehouse[s]>>
       IN  prep' = [prep EXCEPT
             ![p].locked = @ \ {s},
             ![p].rows = IF daily[key].used THEN @
                         ELSE [@ EXCEPT ![key] = PreparedRow(stock[s])]]
  /\ UNCHANGED <<today, calls, tables>>

CommitPrepare(p) ==
  /\ prep[p].pc = "insert"
  /\ prep[p].locked = {}
  /\ daily' = PublishRows(prep[p].rows)
  /\ skuLock' = ReleaseLocks(p)
  /\ prep' = [prep EXCEPT ![p] = PrepareIdle]
  /\ UNCHANGED <<today, calls, stock>>

\* A statement fails or the server dies: ROLLBACK.  The caller logs the error
\* and goes on with its next batch.
AbortPrepare(p) ==
  /\ prep[p].pc # "idle"
  /\ prep' = [prep EXCEPT ![p] = PrepareIdle]
  /\ skuLock' = ReleaseLocks(p)
  /\ UNCHANGED <<today, calls, daily, stock>>

-----------------------------------------------------------------------------
PrepareInit ==
  /\ today = 1
  /\ calls = 0
  /\ prep = [p \in Preparers |-> PrepareIdle]

PrepareStep(p) ==
  \/ LockRow(p) \/ EndSelect(p) \/ InsertDay(p) \/ CommitPrepare(p)

PrepareNext ==
  \/ NextDay
  \/ \E p \in Preparers :
       \/ \E batch \in SkuBatches : BeginPrepare(p, batch)
       \/ PrepareStep(p)
       \/ AbortPrepare(p)
=============================================================================
