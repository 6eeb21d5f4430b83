--------------------------- MODULE MCStockService --------------------------
(***************************************************************************)
(* Instances of StockService for TLC: one database and, per question, the  *)
(* messages that raise it.                                                 *)
(***************************************************************************)
EXTENDS StockService

MCDb ==
  [tx |-> (1 :> [warehouse |-> 1, created |-> 1, arrived |-> 1,
                 createdBy |-> 1, verifiedBy |-> 1] @@
           2 :> [warehouse |-> 1, created |-> 1, arrived |-> 0,
                 createdBy |-> 1, verifiedBy |-> 0] @@
           3 :> [warehouse |-> 1, created |-> 1, arrived |-> 1,
                 createdBy |-> 1, verifiedBy |-> 0] @@
           4 :> [warehouse |-> 1, created |-> 1, arrived |-> 1,
                 createdBy |-> 1, verifiedBy |-> 1]),
   \* tx 1: two skus; tx 2: not arrived; tx 3: one sku, nobody verified it;
   \* tx 4: the only item is a problem altogether
   item |-> {[id |-> 11, tx |-> 1, sku |-> "A", count |-> 2, price |-> 1],
             [id |-> 12, tx |-> 1, sku |-> "B", count |-> 1, price |-> 3],
             [id |-> 21, tx |-> 2, sku |-> "A", count |-> 1, price |-> 2],
             [id |-> 22, tx |-> 2, sku |-> "B", count |-> 1, price |-> 2],
             [id |-> 31, tx |-> 3, sku |-> "A", count |-> 1, price |-> 2],
             [id |-> 41, tx |-> 4, sku |-> "A", count |-> 1, price |-> 2]},
   problem |-> {[id |-> 1, item |-> 41, count |-> 1]},
   cost |-> {[id |-> 1, tx |-> 1, fee |-> 1]},
   cancel |-> {[id |-> 1, tx |-> 2, at |-> 1, by |-> 1]},
   transfer |-> (1 :> [outbound |-> 2, inbound |-> 4])]

About(kind, ref) == [kind |-> kind, ref |-> ref, day |-> 0, changes |-> <<>>]

Sent(day, changes) ==
  [kind |-> "StockChange", ref |-> 0, day |-> day, changes |-> changes]

Given(sku, count, amount, ext) ==
  [sku |-> sku, warehouse |-> 1, actor |-> 1, tx |-> 9, count |-> count,
   amount |-> amount, ext |-> ext]

\* What the inventory service moved before it published a message.
MCMoves ==
  [m \in Messages |-> [s \in Skus |->
     MapThenSumSet(LAMBDA i : ResultOf(m).changes[i].count,
                   {i \in DOMAIN ResultOf(m).changes :
                      ResultOf(m).changes[i].sku = s})]]

MCExtIds == {"m1", "m2", "m3", "m4", "m5", "m6", "m7", "x", "y"}

\* Two orders of the same two skus: every order of locks, duplicates, faults.
OrderEvents ==
  "m1" :> About("OrderAccepted", 1) @@ "m2" :> About("OrderAccepted", 2)

\* StockChange events as other services send them: the same external id and
\* amount twice in one message and in another, and an unknown sku after a known
\* one; and one message for each other way out of the switch and the inserts.
MessageEvents ==
  "m1" :> Sent(1, <<Given("A", 1, 5, "x"), Given("A", 1, 5, "x")>>) @@
  "m2" :> Sent(1, <<Given("B", 1, 5, "x"), Given("A", 2, 5, "x")>>) @@
  "m3" :> Sent(1, <<Given("B", 1, 5, "y"), Given("X", 1, 5, "x")>>) @@
  "m4" :> About("StockFoundBack", 3) @@             \* no actor: CHECK fails
  "m5" :> About("RestockAccepted", 4) @@            \* nothing arrived: no event
  "m6" :> About("TransferWarehouseCanceled", 1) @@  \* NULL arrived, error lost
  "m7" :> [kind |-> "Malformed", ref |-> 0, day |-> 0, changes |-> <<>>]

PrepareEvents == "m1" :> About("OrderAccepted", 1)

TransferEvents ==
  "m1" :> About("TransferWarehouseCreated", 1) @@
  "m2" :> About("TransferWarehouseAccepted", 1) @@
  "m3" :> About("TransferWarehouseCanceled", 1)

MCSkuWarehouse == [s \in Skus |-> 1]
MCBatches == {{"A", "B"}, {"B", "X"}}
NoBatches == {{}}

\* Nothing tells two requests apart.
HandlerSymmetry == Permutations(Handlers)
=============================================================================
