------------------------- MODULE MCWarehouseService ------------------------
(***************************************************************************)
(* An instance of WarehouseService for TLC: three contents of the tables   *)
(* that other services write, and the requests of a behaviour: every read  *)
(* alone, for each way through its filters and its maps, and the writes in *)
(* small mixes.                                                            *)
(***************************************************************************)
EXTENDS WarehouseService

Sku(product, variant, warehouse, team) ==
  [product |-> product, variant |-> variant, warehouse |-> warehouse, team |-> team]

SkuRow(s, stock) == s @@ [id |-> s, stock |-> stock]

Pen == Sku(1, 11, 1, 5)
Cup == Sku(2, 21, 1, 6)
Box == Sku(3, 31, 2, 5)
Gone == Sku(4, 41, 1, 5)  \* of no row

Tx(id, type, warehouse, team, status) ==
  [id |-> id, type |-> type, warehouse |-> warehouse, team |-> team, by |-> 9,
   status |-> status, deleted |-> FALSE, shipped |-> id = 2, shipping |-> 1,
   receipt |-> "R", ext |-> "E", created |-> id]

Order(id, tx, shop, deadline) ==
  [id |-> id, tx |-> tx, ret |-> 0, team |-> 5, shop |-> shop, deadline |-> deadline,
   created |-> id, status |-> "sent", receipt |-> "R", retReceipt |-> "", ref |-> "E"]

Address(id, order) == [id |-> id, order |-> order, name |-> "ann", city |-> "oslo"]

Moved(id, tx, sku, rack) == [id |-> id, tx |-> tx, sku |-> sku, rack |-> rack, count |-> 1]

\* Transactions 1 and 2 have an order and an address each, 7 has two orders, 3
\* has none, 4 is of another warehouse and has come back to it with 11; 8 is yet
\* to get its order and moved a sku that is no longer there, 9 put one on a rack
\* that is no longer there.  The stock of product 4 has no product row, that of
\* product 5 a team without a row.
First ==
  [txs |-> {Tx(1, "order", 1, 5, "waiting"), Tx(2, "order", 1, 6, "waiting"),
            Tx(3, "adj_out", 1, 5, "waiting"), Tx(4, "order", 2, 5, "waiting"),
            Tx(7, "order", 1, 5, "waiting"), Tx(8, "order", 1, 5, "waiting"),
            Tx(9, "transfer_out", 1, 5, "cancel"), Tx(11, "return", 2, 5, "waiting")},
   items |-> {[id |-> 1, tx |-> 1, sku |-> Pen, count |-> 2],
              [id |-> 2, tx |-> 1, sku |-> Cup, count |-> 1],
              [id |-> 3, tx |-> 2, sku |-> Pen, count |-> 1],
              [id |-> 4, tx |-> 11, sku |-> Box, count |-> 1]},
   orders |-> {Order(1, 1, 1, 5), Order(2, 2, 2, 6), [Order(4, 4, 2, 0) EXCEPT !.ret = 11],
               Order(71, 7, 1, 3), Order(72, 7, 2, 4), Order(8, 0, 2, 0)},
   customers |-> {Address(1, 1), Address(2, 2), Address(3, 71), Address(4, 72),
                  [Address(5, 72) EXCEPT !.name = "", !.city = "rome"], Address(6, 8)},
   shops |-> {[id |-> 1, type |-> "shopee", name |-> "pen"],
              [id |-> 2, type |-> "tiktok", name |-> "cup"]},
   lines |-> {[order |-> 1, variation |-> 11, product |-> 1, count |-> 2],
              [order |-> 1, variation |-> 21, product |-> 2, count |-> 1],
              [order |-> 2, variation |-> 11, product |-> 1, count |-> 1]},
   teamInfos |-> {[team |-> 5, warehouse |-> 1, user |-> 9],
                  [team |-> 6, warehouse |-> 99, user |-> 9],
                  [team |-> 7, warehouse |-> Null, user |-> 9],
                  [team |-> 8, warehouse |-> 0, user |-> 0],
                  [team |-> 9, warehouse |-> 1, user |-> 77]},
   skus |-> {SkuRow(Pen, 2), SkuRow(Cup, 0), SkuRow(Box, 3)},
   variants |-> {[id |-> 11, product |-> 1, ref |-> "va"],
                 [id |-> 21, product |-> 2, ref |-> "vb"],
                 [id |-> 31, product |-> 3, ref |-> "vc"],
                 [id |-> 41, product |-> 1, ref |-> "vd"]},
   products |-> {[id |-> 1, name |-> "pen", ref |-> "r1", user |-> 9, image |-> TRUE, team |-> 5],
                 [id |-> 2, name |-> "cup", ref |-> "r2", user |-> 8, image |-> TRUE, team |-> 6],
                 [id |-> 3, name |-> "box", ref |-> "r3", user |-> 9, image |-> TRUE, team |-> 5],
                 [id |-> 5, name |-> "lid", ref |-> "r5", user |-> 9, image |-> TRUE, team |-> 7]},
   racks |-> {[id |-> 1, name |-> "a"], [id |-> 2, name |-> "b"], [id |-> 3, name |-> "c"]},
   placements |-> {[sku |-> Pen, rack |-> 1, count |-> 2], [sku |-> Cup, rack |-> 2, count |-> 1],
                   [sku |-> Box, rack |-> 3, count |-> 1]},
   hists |-> {Moved(1, 1, Pen, 1), Moved(2, 1, Cup, 2), Moved(3, 4, Box, 3),
              Moved(4, 8, Gone, 1), Moved(5, 9, Pen, 9), Moved(6, 1, Pen, 2)},
   stocks |-> {[product |-> 1, warehouse |-> 1, stock |-> 2],
               [product |-> 2, warehouse |-> 1, stock |-> 1],
               [product |-> 4, warehouse |-> 1, stock |-> 1],
               [product |-> 3, warehouse |-> 1, stock |-> 0],
               [product |-> 5, warehouse |-> 1, stock |-> 1]},
   teams |-> {[id |-> 5, name |-> "pen"], [id |-> 6, name |-> "cup"]},
   users |-> {[id |-> 9]}]

\* Order 1 comes back with transaction 5, order 8 gets transaction 8, a
\* transaction 6 of the other warehouse is made, and one more history row of
\* transaction 2.
Second ==
  [First EXCEPT
     !.txs = @ \cup {Tx(5, "return", 1, 5, "waiting"), Tx(6, "order", 2, 5, "waiting")},
     !.items = @ \cup {[id |-> 5, tx |-> 5, sku |-> Pen, count |-> 1]},
     !.orders = (@ \ {Order(1, 1, 1, 5), Order(8, 0, 2, 0)}) \cup
                {[Order(1, 1, 1, 5) EXCEPT !.ret = 5], Order(8, 8, 2, 0), Order(6, 6, 1, 0)},
     !.hists = @ \cup {Moved(7, 2, Pen, 1)}]

\* Transaction 2 is cancelled, the other warehouse loses the image of its
\* product and the variant of its sku, and a deleted transaction appears.
Third ==
  [Second EXCEPT
     !.txs = (@ \ {Tx(2, "order", 1, 6, "waiting")}) \cup
             {Tx(2, "order", 1, 6, "cancel"), [Tx(10, "order", 1, 5, "waiting") EXCEPT !.deleted = TRUE]},
     !.variants = @ \ {[id |-> 31, product |-> 3, ref |-> "vc"]},
     !.products = {[p EXCEPT !.image = p.id # 3] : p \in @}]

MCHistory == <<First, Second, Third>>

Texts == {"R", "E", "pen", "cup", "box", "va", "vb", "r1", "r2", "ann", "oslo", "north", "a"}

MCLike == [q \in Texts \cup {"", "none"} |-> IF q = "" THEN Texts \cup {""} ELSE {q} \ {"none"}]

-----------------------------------------------------------------------------
Call(kind, from, team, pay) ==
  [kind |-> kind, source |-> [from |-> from, team |-> team], pay |-> pay]

Mine(kind, pay) == Call(kind, "WAREHOUSE", 1, pay)

Page1 == [page |-> 1, limit |-> 2]

List(f) == f @@ [type |-> "", search |-> "", q |-> "", skus |-> {}, deleted |-> FALSE,
                 team |-> 0, user |-> 0, status |-> {}, shipping |-> {}, shipment |-> "",
                 markets |-> {}, shop |-> 0, after |-> 0, until |-> 0, sort |-> "",
                 asc |-> FALSE, page |-> Page1]

Lists ==
  {[page |-> Page1], [page |-> [page |-> 2, limit |-> 2]],
   [type |-> "transfer_out"], [deleted |-> TRUE], [team |-> 6], [user |-> 8],
   [type |-> "order", sort |-> "deadline", asc |-> TRUE], [sort |-> "mp_created"],
   [sort |-> "created", status |-> {"waiting"}, after |-> 1, until |-> 3],
   [search |-> "receipt", q |-> "E", shipping |-> {1}], [search |-> "sku", skus |-> {Cup}],
   [shipment |-> "send"], [shipment |-> "unsend", markets |-> {"tiktok"}],
   [markets |-> {"mastodon"}], [search |-> "shopname", q |-> "pen"], [shop |-> 1]}

Details ==
  {[search |-> s, tx |-> i, q |-> "R", cancel |-> c, all |-> TRUE] :
     s \in {"txid", "receipt"}, i \in {1, 2, 3}, c \in BOOLEAN}
  \cup {[search |-> "name", tx |-> 1, q |-> "", cancel |-> FALSE, all |-> TRUE],
        [search |-> "txid", tx |-> 4, q |-> "", cancel |-> FALSE, all |-> FALSE]}

Search(f) == f @@ [warehouse |-> 1, search |-> "", q |-> "", city |-> "", tx |-> 0,
                   status |-> "", limit |-> 2]

Searches ==
  {[limit |-> 9], [search |-> "receipt", q |-> "R"], [search |-> "ref", q |-> "none"],
   [search |-> "customer", q |-> "ann", city |-> "oslo"], [search |-> "txid", tx |-> 5],
   [status |-> "sent", warehouse |-> 2]}

Products(f) == f @@ [warehouse |-> 1, rack |-> 0, team |-> 0, user |-> 0, q |-> "",
                     search |-> "", ref |-> "", empty |-> FALSE, page |-> Page1]

ProductFilters ==
  {[rack |-> 1], [team |-> 6], [empty |-> TRUE], [warehouse |-> 2],
   [user |-> 9, q |-> "pen"], [user |-> 9, q |-> "va", search |-> "sku", ref |-> "variant"],
   [user |-> 9, q |-> "r1", search |-> "sku"], [page |-> [page |-> 1, limit |-> 1]]}

Reads ==
  {Mine("list", List(f)) : f \in Lists} \cup {Call("list", "SELLING", 1, List([team |-> 0]))}
  \cup {Mine("detail", p) : p \in Details}
  \cup {Call("detail", "ADMIN", 9, p) : p \in {p \in Details : p.tx = 4}}
  \cup {Mine("detail_ids", [txs |-> s, cancel |-> FALSE, all |-> a]) :
          s \in {{1, 2}, {1, 6}, {7}, {3}, {1, 10}}, a \in BOOLEAN}
  \cup {Mine("detail_ids", [txs |-> {2, 10}, cancel |-> TRUE, all |-> TRUE])}
  \cup {Mine("by_product", [team |-> 0, shop |-> s, after |-> 0, until |-> u, warehouse |-> 1,
                            status |-> {}, timed |-> t, page |-> Page1]) :
          s \in {0, 1}, u \in {0, 1}, t \in BOOLEAN}
  \cup {Mine("order_search", Search(f)) : f \in Searches}
  \cup {Mine("placements", [tx |-> i]) : i \in {1, 2, 4, 5, 8, 9}}
  \cup {Call("placements", "WAREHOUSE", 2, [tx |-> 4]), Call("placements", "WAREHOUSE", 3, [tx |-> 1])}
  \cup {Mine("placement_ids", [txs |-> s]) : s \in {{1, 2}, {1, 6}, {8}, {9}, {4}}}
  \cup {Call("placement_ids", "WAREHOUSE", 2, [txs |-> {4}])}
  \cup {Mine("product_list", Products(f)) : f \in ProductFilters}
  \cup {Call("product_list", "WAREHOUSE", 3, Products([rack |-> 1])),
        Call("by_product", "SELLING", 1, [timed |-> TRUE])}
  \cup {Mine("sku_list", [warehouse |-> 1, racks |-> {1, 2}, teams |-> {5, 6}, page |-> Page1]),
        Mine("sku_list", [warehouse |-> 2, racks |-> {3}, teams |-> {5}, page |-> Page1])}
  \cup {Mine("sku_ids", [skus |-> s, warehouse |-> v]) : s \in {{Pen, Cup}, {Pen, Box}}, v \in {0, 1}}
  \cup {Mine("selling_teams", [warehouse |-> 1, q |-> q, page |-> Page1]) : q \in {"", "pen"}}
  \cup {Mine("team_racks", [warehouse |-> 1, teams |-> {5, 6}, q |-> q]) : q \in {"", "a"}}
  \cup {Mine("return_info", [team |-> i]) : i \in {4, 5, 6, 7, 8, 9}}

-----------------------------------------------------------------------------
Flat(fix) == [fixed |-> TRUE, fix |-> fix, percent |-> 0, max |-> 0]

Rated == [fixed |-> FALSE, fix |-> 0, percent |-> 2, max |-> 5000]

Store(id, user, name, fee, open) ==
  [id |-> id, user |-> user, name |-> name, fee |-> fee, open |-> open]

MCTimes == "08:00" :> "08:00" @@ "9:00" :> "09:00"

\* A warehouse 4 without a team: the next team to be made but one meets it.
MCTeams == 1 :> [name |-> "north"] @@ 2 :> [name |-> "south"]

MCWarehouses ==
  1 :> [name |-> "north", fee |-> Rated, open |-> "08:00", deleted |-> FALSE] @@
  2 :> [name |-> "south", fee |-> Flat(0), open |-> "", deleted |-> FALSE] @@
  4 :> [name |-> "old", fee |-> Flat(100), open |-> "", deleted |-> TRUE]

MCOwners == {[team |-> 1, user |-> 9]}

Creates ==
  {Mine("create", Store(0, 8, "east", Rated, "9:00")),
   Mine("create", Store(0, 7, "west", Flat(100), "9 am")),
   Mine("create", Store(0, 0, "none", Rated, ""))}

OnOne(kind) == Mine(kind, Store(1, 0, "new", Flat(100), "24:00"))

WarehouseReads ==
  {Mine("warehouse_detail", [id |-> 1]), Mine("warehouse_ids", [ids |-> {1, 2, 5}]),
   Mine("warehouse_list", [q |-> "north"]), Mine("fee", [id |-> 1, value |-> 1000]),
   Mine("fee", [id |-> 2, value |-> 1000]), Mine("fee", [id |-> 4, value |-> 1000]),
   Mine("warehouse_detail", [id |-> 3])}

Replace(tx, order, texts) ==
  [tx |-> tx, team |-> 5, order |-> order,
   notes |-> {[type |-> "common", text |-> t] : t \in texts} \cup {[type |-> "return", text |-> "r"]}]

MCNotes ==
  {[id |-> 1, tx |-> 1, type |-> "common", order |-> 0, text |-> "old"],
   [id |-> 2, tx |-> 1, type |-> "common", order |-> 71, text |-> "of 71"],
   [id |-> 3, tx |-> 1, type |-> "broken", order |-> 0, text |-> "broken"],
   [id |-> 4, tx |-> 3, type |-> "legacy", order |-> 0, text |-> "legacy"]}

NoteCalls ==
  {Call("note_create", "SELLING", 5, Replace(1, 0, {"x"})),
   Call("note_create", "ADMIN", 0, Replace(1, 0, {"y", "z"})),
   Call("note_create", "SELLING", 5, Replace(1, 71, {"v"}))}

MCBlacklist == {Cup}

Blacklisting ==
  {Mine("blacklist_add", [skus |-> {Pen, Gone}]), Mine("blacklist_remove", [skus |-> {Cup}]),
   Mine("blacklist", [skus |-> {Pen, Cup, Gone}])}

MCLoads ==
  {{r} : r \in Reads \cup WarehouseReads}
  \cup {Creates, {OnOne("update"), OnOne("delete"), Mine("warehouse_list", [q |-> ""])}}
  \cup {NoteCalls, {Call("note_create", "SELLING", 6, Replace(1, 0, {"x"}))},
        {Call("note_list", "SELLING", 5, [tx |-> 1, team |-> 0, order |-> 0]),
         Call("note_create", "SELLING", 5, Replace(1, 0, {}))},
        {Call("note_list", "SELLING", 5, [tx |-> 3, team |-> 0, order |-> 0])},
        {Call("note_list", "SELLING", 6, [tx |-> 1, team |-> 0, order |-> 71])}}
  \cup {Blacklisting, {Call("blacklist", "WAREHOUSE", 2, [skus |-> {Box}])},
        {Call("blacklist_add", "WAREHOUSE", 2, [skus |-> {Pen}])},
        {Call("blacklist_remove", "WAREHOUSE", 2, [skus |-> {Pen}])}}

\* Lists by shop.
ShopLoads ==
  {{Mine("list", List([shop |-> s, page |-> [page |-> p, limit |-> 2]]))} : s, p \in {1, 2}}

\* What the theorems about WarehouseService presume of the tables holds here.
ASSUME ContentsAssumption == KeysAreUnique /\ LinesAgree /\ RowsStay
=============================================================================
