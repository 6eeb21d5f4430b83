-------------------------- MODULE OutboundQueries --------------------------
(***************************************************************************)
(* The outbound RPCs (v2/outbound): what leaves a warehouse, as a list, in *)
(* detail, by product and by order.  They write nothing; each action below *)
(* is one statement of a handler and what the handler does with its rows.  *)
(* A filter of a message is 0, "" or {} when it is not given.              *)
(***************************************************************************)
EXTENDS ServiceTables

\* Ids are sequences of the database, which start at 1, and tables are finite.
ASSUME OutboundAssumption ==
  \A i \in DOMAIN History :
    /\ {r.id : r \in History[i].txs \cup History[i].orders} \subseteq Nat \ {0}
    /\ \A rows \in {History[i].orders, History[i].customers, History[i].variants, History[i].skus} :
         IsFiniteSet(rows)

-----------------------------------------------------------------------------
\* OutboundList: one operator per filter of the chain.

OutboundTypes(f) ==
  CASE f.type = "transfer_out" -> {"transfer_out"}
    [] f.type = "order" -> {"order"}
    [] f.type = "" -> {"adj_out", "order", "transfer_out"}

Searched(d, f, t) ==
  CASE f.search = "receipt" /\ f.q # "" -> t.receipt \in Like[f.q] \/ t.ext \in Like[f.q]
    [] f.search = "sku" /\ f.skus # {} -> \E i \in ItemsOf(d, {t.id}) : i.sku \in f.skus
    [] OTHER -> TRUE

OfShipment(f, t) ==
  CASE f.shipment = "" -> TRUE
    [] f.shipment = "send" -> t.shipped
    [] f.shipment = "unsend" -> ~t.shipped

OfMarketplaces == {"shopee", "tiktok", "lazada", "custom", "mengantar", "tokopedia"}

AsksForOrders(f) ==
  f.markets # {} \/ f.shop # 0 \/ (f.q # "" /\ f.search = "shopname")

\* orderQuery, the subquery of EXISTS; with a shop it does not mention t.
OrderQuery(d, f, t) ==
  IF f.shop # 0 THEN {o \in d.orders : o.shop = f.shop}
  ELSE {o \in d.orders :
          /\ o.tx = t.id
          /\ \E s \in WithIds(d.shops, {o.shop}) :
               /\ f.markets = {} \/ s.type \in f.markets
               /\ f.q = "" \/ f.search # "shopname" \/ s.name \in Like[f.q]}

Created(f, t) == t.created > f.after /\ (f.until = 0 \/ t.created <= f.until)

\* What the chain lets through for the warehouse that asks.
Listed(d, f, warehouse) ==
  {t \in d.txs :
     /\ t.warehouse = warehouse
     /\ t.type \in OutboundTypes(f)
     /\ f.deleted \/ ~t.deleted
     /\ f.team = 0 \/ t.team = f.team
     /\ f.user = 0 \/ t.by = f.user
     /\ Searched(d, f, t)
     /\ f.status = {} \/ t.status \in f.status
     /\ f.shipping = {} \/ t.shipping \in f.shipping
     /\ OfShipment(f, t)
     /\ AsksForOrders(f) => OrderQuery(d, f, t) # {}
     /\ Created(f, t)}

\* Sorting by the deadline joins the orders, so a transaction appears once per
\* order that has a deadline.  The default is the id, always downwards.
ListRows(d, f, warehouse) ==
  LET txs == Listed(d, f, warehouse)
      way == IF f.asc THEN -1 ELSE 1
  IN  CASE f.sort = "deadline" ->
             {[tx |-> p[1], order |-> p[2].id, key |-> way * p[2].deadline] :
                p \in {p \in txs \X d.orders : p[2].tx = p[1].id /\ p[2].deadline # 0}}
        [] f.sort = "created" -> {[tx |-> t, order |-> 0, key |-> way * t.created] : t \in txs}
        [] OTHER -> {[tx |-> t, order |-> 0, key |-> t.id] : t \in txs}

\* SetPaginationQuery counts before the sorting step has joined anything.
CountList(w) ==
  /\ At(w, "list", "start")
  /\ IF \/ ~MayRead(w)
        \/ From(w) # "WAREHOUSE"
        \/ AsksForOrders(Pay(w)) /\ Pay(w).shop = 0 /\ ~(Pay(w).markets \subseteq OfMarketplaces)
     THEN Refuse(w)
     ELSE Keep(w, "count", Cardinality(Listed(Db, Pay(w), TeamOf(w))), "page")

\* Sorting by the time of the order ends in "null lasts", which is not SQL.
PageList(w) ==
  /\ At(w, "list", "page")
  /\ IF Pay(w).sort = "mp_created" THEN Refuse(w)
     ELSE \E page \in Pages(ListRows(Db, Pay(w), TeamOf(w)), Pay(w).page) :
            Keep(w, "page", page, "items")

ListedIds(w) == {r.tx.id : r \in Got(w).page}

ItemsOfList(w) ==
  /\ At(w, "list", "items")
  /\ Keep(w, "items", ItemsOf(Db, ListedIds(w)), "orders")

OrdersOfList(w) ==
  /\ At(w, "list", "orders")
  /\ Keep(w, "orders", {o \in Db.orders : o.tx \in ListedIds(w)}, "customers")

\* itemMap keeps one row per transaction and its Extra the last order; a
\* customer of any order of the transaction is written into that Extra.
CustomersOfList(w) ==
  /\ At(w, "list", "customers")
  /\ LET got == Got(w)
         customers == {c \in Db.customers : c.order \in Ids(got.orders)}
         TxOf(c) == (CHOOSE o \in got.orders : o.id = c.order).tx
     IN  \E row \in LastWins(got.page, LAMBDA r : r.tx.id),
            extra \in LastWins(got.orders, LAMBDA o : o.tx),
            who \in LastWins(customers, TxOf) :
           Answer(w, {[tx       |-> r.tx,
                       items    |-> {i \in got.items : i.tx = r.tx.id},
                       order    |-> IF r = row[r.tx.id] /\ r.tx.id \in DOMAIN extra
                                    THEN {extra[r.tx.id]} ELSE {},
                       customer |-> IF r = row[r.tx.id] /\ r.tx.id \in DOMAIN who
                                    THEN {who[r.tx.id]} ELSE {}] : r \in got.page})

-----------------------------------------------------------------------------
\* OutboundDetail: one transaction, the first of those found.

OfCancel(cancel, t) == (t.status = "cancel") = cancel

FindDetail(w) ==
  /\ At(w, "detail", "start")
  /\ LET p == Pay(w)
         found == {t \in Db.txs :
                     /\ IF p.search = "txid" THEN t.id = p.tx
                        ELSE p.q \in {t.ext, t.receipt}
                     /\ From(w) = "WAREHOUSE" => t.warehouse = TeamOf(w)
                     /\ OfCancel(p.cancel, t)}
     IN  IF ~MayRead(w) \/ p.search \notin {"txid", "receipt"} \/ found = {} THEN Refuse(w)
         ELSE LET t == CHOOSE t \in found : \A u \in found : t.id <= u.id
              IN  IF p.all THEN Keep(w, "tx", t, "items")
                  ELSE Answer(w, {[tx |-> t, items |-> {}, order |-> {}]})

ItemsOfDetail(w) ==
  /\ At(w, "detail", "items")
  /\ Keep(w, "items", ItemsOf(Db, {Got(w).tx.id}), "order")

OrderOfDetail(w) ==
  /\ At(w, "detail", "order")
  /\ LET t == Got(w).tx
         orders == {o \in Db.orders : o.tx = t.id}
     IN  IF t.type # "order" \/ orders = {} THEN Refuse(w)
         ELSE Answer(w, {[tx |-> t, items |-> Got(w).items,
                          order |-> {CHOOSE o \in orders : \A u \in orders : o.id <= u.id}]})

-----------------------------------------------------------------------------
\* OutboundDetailIDs: the check of the warehouse and the data it guards are two
\* statements.

\* The warehouses of the transactions that exist must be the caller's.
AccessError(w, ids) == \E t \in WithIds(Db.txs, ids) : t.warehouse # TeamOf(w)

CheckDetailIDs(w) ==
  /\ At(w, "detail_ids", "start")
  /\ IF ~MayRead(w) \/ AccessError(w, Pay(w).txs) THEN Refuse(w)
     ELSE Keep(w, "checked", WithIds(Db.txs, Pay(w).txs), "load")

LoadDetailIDs(w) ==
  /\ At(w, "detail_ids", "load")
  /\ LET txs == {t \in WithIds(Db.txs, Pay(w).txs) : Pay(w).cancel \/ OfCancel(FALSE, t)}
     IN  IF \E t \in txs : t.type # "order" THEN Refuse(w)
         ELSE IF Pay(w).all THEN Keep(w, "txs", txs, "items")
              ELSE Answer(w, {[tx |-> t, items |-> {}, order |-> {}] : t \in txs})

ItemsOfDetailIDs(w) ==
  /\ At(w, "detail_ids", "items")
  /\ Keep(w, "items", ItemsOf(Db, Ids(Got(w).txs)), "orders")

\* Mutant: what was asked for must have been found.
OrdersOfAskedIDs(w) ==
  /\ At(w, "detail_ids", "orders")
  /\ \E order \in LastWins({o \in Db.orders : o.tx \in Ids(Got(w).txs)}, LAMBDA o : o.tx) :
       IF Pay(w).txs \subseteq DOMAIN order
       THEN Answer(w, {[tx |-> t, items |-> {i \in Got(w).items : i.tx = t.id},
                        order |-> {order[t.id]}] : t \in Got(w).txs})
       ELSE Panic(w)

\* A transaction whose order is not found is a nil pointer.
OrdersOfDetailIDs(w) ==
  /\ At(w, "detail_ids", "orders")
  /\ \E order \in LastWins({o \in Db.orders : o.tx \in Ids(Got(w).txs)}, LAMBDA o : o.tx) :
       IF Ids(Got(w).txs) \subseteq DOMAIN order
       THEN Answer(w, {[tx |-> t, items |-> {i \in Got(w).items : i.tx = t.id},
                        order |-> {order[t.id]}] : t \in Got(w).txs})
       ELSE Panic(w)

-----------------------------------------------------------------------------
\* OutboundByProduct: the ordered variations of a warehouse, summed.

OrderLines(d, f) ==
  {j \in d.lines \X d.orders :
     LET o == j[2]
     IN  /\ j[1].order = o.id
         /\ o.tx # 0
         /\ f.team = 0 \/ o.team = f.team
         /\ f.shop = 0 \/ o.shop = f.shop
         /\ o.created >= f.after
         /\ f.until = 0 \/ o.created <= f.until
         /\ f.warehouse = 0 \/ \E t \in WithIds(d.txs, {o.tx}) :
              /\ t.warehouse = f.warehouse
              /\ t.status \in IF f.status = {} THEN {"waiting"} ELSE f.status}

ByProduct(d, f) ==
  LET joined == OrderLines(d, f)
      Line(j) == j[1]
      Group(v, p) == {j \in joined : Line(j).variation = v /\ Line(j).product = p}
  IN  {[variation |-> k[1], product |-> k[2], txs |-> Cardinality(Group(k[1], k[2])),
        key |-> MapThenSumSet(LAMBDA j : Line(j).count, Group(k[1], k[2]))] :
         k \in {<<Line(j).variation, Line(j).product>> : j \in joined}}

CountByProduct(w) ==
  /\ At(w, "by_product", "start")
  /\ IF From(w) # "WAREHOUSE" \/ ~MayRead(w) THEN Refuse(w)
     ELSE IF ~Pay(w).timed THEN Panic(w)
     ELSE Keep(w, "count", Cardinality(ByProduct(Db, Pay(w))), "page")

PageByProduct(w) ==
  /\ At(w, "by_product", "page")
  /\ \E page \in Pages(ByProduct(Db, Pay(w)), Pay(w).page) : Keep(w, "page", page, "skus")

Variations(w) == {r.variation : r \in Got(w).page}

SkusByProduct(w) ==
  /\ At(w, "by_product", "skus")
  /\ Keep(w, "skus", {s \in Db.skus : s.variant \in Variations(w) /\ s.warehouse = Pay(w).warehouse},
          "variants")

\* Both maps keep one row per variation, the last of the page.
VariantsByProduct(w) ==
  /\ At(w, "by_product", "variants")
  /\ LET Variation(r) == r.variation
         found == WithIds(Db.variants, Variations(w))
     IN  \E row \in LastWins(Got(w).page, Variation),
            sku \in LastWins(Got(w).skus, LAMBDA s : s.variant) :
           Answer(w, {[row     |-> r,
                       sku     |-> IF r = row[r.variation] /\ r.variation \in DOMAIN sku
                                   THEN {sku[r.variation]} ELSE {},
                       variant |-> IF r = row[r.variation]
                                   THEN WithIds(found, {r.variation}) ELSE {}] :
                        r \in Got(w).page})

-----------------------------------------------------------------------------
\* OrderDetailSearch: orders that left a warehouse or may come back to it, with
\* their two transactions and their customer.

OrderSearched(d, f, o) ==
  CASE f.search = "receipt" -> o.receipt \in Like[f.q] \/ o.retReceipt \in Like[f.q]
    [] f.search = "ref" -> o.ref \in Like[f.q]
    [] f.search = "customer" -> \E c \in d.customers :
         /\ c.order = o.id
         /\ f.q = "" \/ c.name \in Like[f.q]
         /\ f.city = "" \/ c.city \in Like[f.city]
    [] f.search = "txid" -> f.tx \in {o.tx, o.ret}
    [] OTHER -> TRUE

OrdersFound(d, f) ==
  {o \in d.orders :
     /\ \/ \E i \in d.teamInfos : i.team = o.team /\ i.warehouse = f.warehouse
        \/ \E t \in WithIds(d.txs, {o.tx, o.ret}) : t.warehouse = f.warehouse
     /\ OrderSearched(d, f, o)
     /\ f.status = "" \/ o.status = f.status}

SearchOrders(w) ==
  /\ At(w, "order_search", "start")
  /\ LET found == OrdersFound(Db, Pay(w))
     IN  \E orders \in kSubset(Min({Pay(w).limit, Cardinality(found)}), found) :
           Keep(w, "orders", orders, "txs")

\* PreloadTransaction, for the transactions sent and then for those returned.
TxsOfOrders(w) ==
  /\ At(w, "order_search", "txs")
  /\ Keep(w, "txs", WithIds(Db.txs, {o.tx : o \in Got(w).orders}), "items")

ItemsOfOrders(w) ==
  /\ At(w, "order_search", "items")
  /\ Keep(w, "items", ItemsOf(Db, Ids(Got(w).txs)), "returns")

ReturnsOfOrders(w) ==
  /\ At(w, "order_search", "returns")
  /\ Keep(w, "returns", WithIds(Db.txs, {o.ret : o \in Got(w).orders}), "returned")

\* Mutant: the second preload takes the ids of the first.
ItemsAgain(w) ==
  /\ At(w, "order_search", "returned")
  /\ Keep(w, "returned", ItemsOf(Db, Ids(Got(w).txs)), "customers")

ReturnedItems(w) ==
  /\ At(w, "order_search", "returned")
  /\ Keep(w, "returned", ItemsOf(Db, Ids(Got(w).returns)), "customers")

\* proto.Merge of the addresses of an order: an empty field of the last one
\* leaves what an earlier one has set.
Latest(rows, last, field) ==
  LET set == {r[field] : r \in rows} \ {""}
  IN  IF last[field] # "" \/ set = {} THEN {last[field]} ELSE set

Merged(rows) ==
  UNION {[id : {last.id}, order : {last.order}, name : Latest(rows, last, "name"),
          city : Latest(rows, last, "city")] : last \in rows}

\* The detail of a transaction goes to the last order that has it.
Detail(txs, items, last, o, id) ==
  {[tx |-> t, items |-> {i \in items : i.tx = t.id}] :
     t \in {t \in WithIds(txs, {id}) : last[id] = o}}

CustomersOfOrders(w) ==
  /\ At(w, "order_search", "customers")
  /\ LET got == Got(w)
         shown == UNION {Merged({c \in Db.customers : c.order = o.id}) : o \in got.orders}
     IN  \E sent \in LastWins(got.orders, LAMBDA o : o.tx),
            back \in LastWins(got.orders, LAMBDA o : o.ret),
            who \in LastWins(shown, LAMBDA c : c.order) :
           Answer(w, {[order    |-> o,
                       outbound |-> Detail(got.txs, got.items, sent, o, o.tx),
                       inbound  |-> Detail(got.returns, got.returned, back, o, o.ret),
                       customer |-> {who[i] : i \in {o.id} \cap DOMAIN who}] : o \in got.orders})

-----------------------------------------------------------------------------
OutboundStep(w) ==
  \/ CountList(w) \/ PageList(w) \/ ItemsOfList(w) \/ OrdersOfList(w) \/ CustomersOfList(w)
  \/ FindDetail(w) \/ ItemsOfDetail(w) \/ OrderOfDetail(w)
  \/ CheckDetailIDs(w) \/ LoadDetailIDs(w) \/ ItemsOfDetailIDs(w) \/ OrdersOfDetailIDs(w)
  \/ CountByProduct(w) \/ PageByProduct(w) \/ SkusByProduct(w) \/ VariantsByProduct(w)
  \/ SearchOrders(w) \/ TxsOfOrders(w) \/ ItemsOfOrders(w) \/ ReturnsOfOrders(w)
  \/ ReturnedItems(w) \/ CustomersOfOrders(w)
=============================================================================
