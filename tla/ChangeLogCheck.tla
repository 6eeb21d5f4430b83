--------------------------- MODULE ChangeLogCheck --------------------------
(***************************************************************************)
(* CreateStockChangeLog against what an inventory transaction means, over  *)
(* every small content of the tables it joins: two items of transaction 1, *)
(* with reported problems, restock costs and cancel stamps or without.     *)
(* The service computes every event from the tables as it finds them, so   *)
(* between an accepted order, or a transfer, and its cancellation the      *)
(* other services may book problems, costs, cancel stamps and an arrival.  *)
(***************************************************************************)
EXTENDS ChangeLog

CONSTANTS
  MaxCount,    \* bound: pieces of an item
  MaxPrice,    \* bound: price of a piece
  MaxJoined,   \* bound: problem rows of an item, cost and cancel rows
  MaxRows      \* bound: rows of the join

ASSUME CheckAssumption == {MaxCount, MaxPrice, MaxJoined, MaxRows} \subseteq Nat

VARIABLES
  db,       \* the tables now
  type,     \* the type of the last call, or "none"
  result,   \* what it answered
  past      \* history: the acceptance that was booked upon, or NoPast

vars == <<db, type, result, past>>

Tx == 1
Items == {11, 12}
Skus == {"A", "B"}
Fields == {"count", "amount"}

ProblemRows(problems) ==
  UNION {{[id |-> n, item |-> i, count |-> 1] : n \in 1 .. problems[i]} : i \in Items}
CostRows(costs)     == {[id |-> n, tx |-> Tx, fee |-> 1] : n \in 1 .. costs}
CancelRows(cancels) == {[id |-> n, tx |-> Tx, at |-> 1, by |-> n] : n \in 1 .. cancels}

Snapshot(item, problems, costs, cancels, arrived) ==
  [tx       |-> [t \in {Tx} |-> [warehouse |-> 1, created |-> 1,
                   arrived |-> arrived, createdBy |-> 1, verifiedBy |-> 1]],
   item     |-> {[id |-> i, tx |-> Tx, sku |-> item[i].sku,
                  count |-> item[i].count, price |-> item[i].price] : i \in Items},
   problem  |-> ProblemRows(problems),
   cost     |-> CostRows(costs),
   cancel   |-> CancelRows(cancels),
   transfer |-> <<>>]

\* What the other services may make of the tables d: the items stay.
Booked(d, problems, costs, cancels, arrived) ==
  [d EXCEPT !.tx[Tx].arrived = arrived, !.problem = ProblemRows(problems),
            !.cost = CostRows(costs), !.cancel = CancelRows(cancels)]

Small(d) == Cardinality(JoinRows(d, Tx)) <= MaxRows

ItemContents == [sku : Skus, count : 1 .. MaxCount, price : 0 .. MaxPrice]

NoPast == [type |-> "none", db |-> <<>>, taken |-> <<>>]

Init ==
  /\ \E item \in [Items -> ItemContents], problems \in [Items -> 0 .. MaxJoined],
        costs, cancels \in 0 .. MaxJoined, arrived \in 0 .. 1 :
       /\ db = Snapshot(item, problems, costs, cancels, arrived)
       /\ Small(db)
  /\ type = "none"
  /\ result = Nothing
  /\ past = NoPast

Undoes == [ORDER_CANCELED |-> "ORDER_ACCEPTED",
           TRANSFER_OUT_CANCELED |-> "TRANSFER_OUT"]

LogTotal(r, sku, field) ==
  MapThenSumSet(LAMBDA i : r.changes[i][field],
                {i \in DOMAIN r.changes : r.changes[i].sku = sku})

Call(t) ==
  /\ type = "none"
  /\ past.type # "none" => t \in DOMAIN Undoes /\ Undoes[t] = past.type
  /\ type' = t
  /\ result' \in CreateStockChangeLog(db, "m", Tx, t)
  /\ UNCHANGED <<db, past>>

\* Between an acceptance and its cancellation the other services change the
\* tables.  An order or a transfer just accepted has neither been canceled nor
\* arrived, and the acceptance reads neither.
Book ==
  /\ type \in {Undoes[t] : t \in DOMAIN Undoes}
  /\ result.tag = "event"
  /\ db.cancel = {} /\ db.tx[Tx].arrived = 0
  /\ \E problems \in [Items -> 0 .. MaxJoined], costs, cancels \in 0 .. MaxJoined,
        arrived \in 0 .. 1 :
       LET booked == Booked(db, problems, costs, cancels, arrived)
       IN  Small(booked) /\ db' = booked
  /\ past' = [type  |-> type,
              db    |-> db,
              taken |-> [sku \in Skus |->
                          [field \in Fields |-> LogTotal(result, sku, field)]]]
  /\ type' = "none"
  /\ result' = Nothing

Next == Book \/ \E t \in ChangeTypes : Call(t)

Spec == Init /\ [][Next]_vars

-----------------------------------------------------------------------------
\* The pieces of an item that are not broken, for a type, in the tables d.
Pieces(d, i, t) ==
  i.count - (IF t = "STOCK_PROBLEM" THEN 0
             ELSE MapThenSumSet(LAMBDA p : p.count,
                                {p \in d.problem : p.item = i.id}))

\* The joins repeat a row when an item has several problems or the transaction
\* several cost rows; nothing in the query aggregates them.
NoFanOut(d) ==
  /\ \A i \in d.item : Cardinality({p \in d.problem : p.item = i.id}) <= 1
  /\ Cardinality(d.cost) <= 1

Fee(d) == IF d.cost = {} THEN 0 ELSE 1

SkuItems(d, sku) == {i \in d.item : i.sku = sku}

\* The change log moves, per sku, the pieces of the transaction that are not
\* broken, and their price with the restock fee, in the direction of the type.
TotalsMatchTransaction ==
  result.tag = "event" /\ NoFanOut(db) =>
    \A sku \in Skus :
      /\ LogTotal(result, sku, "count")
           = Sign(type) * MapThenSumSet(LAMBDA i : Pieces(db, i, type), SkuItems(db, sku))
      /\ LogTotal(result, sku, "amount")
           = Sign(type) * MapThenSumSet(
               LAMBDA i : Pieces(db, i, type) * (i.price + Fee(db)), SkuItems(db, sku))

-----------------------------------------------------------------------------
\* What an order, or a transfer, and its cancellation move together.
Left(sku, field) == past.taken[sku][field] + LogTotal(result, sku, field)

\* The pieces of an item that were reported broken since the acceptance.
BrokenSince(i) == Pieces(past.db, i, past.type) - Pieces(db, i, type)

\* No problem of the sku's items and no cost was booked since the acceptance.
SameRows(sku) ==
  /\ past.db.cost = db.cost
  /\ \A i \in SkuItems(db, sku) : ProblemsOf(past.db, i) = ProblemsOf(db, i)

\* A cancellation that reads the tables anew gives back all that was taken of a
\* sku whose rows are as they were, also where joined rows repeat and whatever
\* was booked for the other sku.  Where an item has at most one problem and the
\* transaction one cost, it gives back what was taken but for the pieces
\* reported broken in between, at their price.
CancelGivesBack ==
  past.type # "none" /\ result.tag = "event" =>
    \A sku \in Skus :
      /\ SameRows(sku) => \A field \in Fields : Left(sku, field) = 0
      /\ NoFanOut(past.db) /\ NoFanOut(db) =>
           /\ Left(sku, "count")
                = -MapThenSumSet(LAMBDA i : BrokenSince(i), SkuItems(db, sku))
           /\ past.db.cost = db.cost =>
                Left(sku, "amount")
                  = -MapThenSumSet(LAMBDA i : BrokenSince(i) * (i.price + Fee(db)),
                                   SkuItems(db, sku))
=============================================================================
