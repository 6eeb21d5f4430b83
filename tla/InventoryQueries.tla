------------------------- MODULE InventoryQueries --------------------------
(***************************************************************************)
(* The inventory RPCs (v2/inventory) but for PrepareSkus: lists of skus,   *)
(* where a transaction has put or taken them, and the blacklist.  One      *)
(* action per statement; only the blacklist is written.  The id of a sku   *)
(* is a record of what SkuID.Extract finds in it.                          *)
(***************************************************************************)
EXTENDS ServiceTables

CONSTANT FirstBlacklist  \* ids of skus with is_blacklisted at the start

VARIABLE blacklist       \* ids of skus with is_blacklisted

HistsOf(d, txs) == {h \in d.hists : h.tx \in txs}

ProductsOf(variants) == {v.product : v \in variants}

\* Image[0] of a product without an image, or of no product.
HasImage(products, id) == \E p \in WithIds(products, {id}) : p.image

-----------------------------------------------------------------------------
\* Placements of one transaction.

CheckPlacements(w) ==
  /\ At(w, "placements", "start")
  /\ IF MayRead(w) /\ \E t \in WithIds(Db.txs, {Pay(w).tx}) : t.warehouse = TeamOf(w)
     THEN Keep(w, "checked", WithIds(Db.txs, {Pay(w).tx}), "hists")
     ELSE Refuse(w)

HistsOfPlacements(w) ==
  /\ At(w, "placements", "hists")
  /\ Keep(w, "hists", HistsOf(Db, {Pay(w).tx}), "racks")

RacksOfPlacements(w) ==
  /\ At(w, "placements", "racks")
  /\ Keep(w, "racks", WithIds(Db.racks, {h.rack : h \in Got(w).hists}), "variants")

VariantsOfPlacements(w) ==
  /\ At(w, "placements", "variants")
  /\ Keep(w, "variants", WithIds(Db.variants, {h.sku.variant : h \in Got(w).hists}), "products")

\* One entry of a sku's racks per history row; a rack that is gone has no name.
RackEntries(hists, racks) ==
  {[hist |-> h.id, rack |-> h.rack, count |-> h.count,
    name |-> {r.name : r \in WithIds(racks, {h.rack})}] : h \in hists}

ProductsOfPlacements(w) ==
  /\ At(w, "placements", "products")
  /\ LET got == Got(w)
         products == WithIds(Db.products, ProductsOf(got.variants))
         On(sku) == {h \in got.hists : h.sku = sku}
     IN  IF \E v \in got.variants : ~HasImage(products, v.product) THEN Panic(w)
         ELSE Answer(w, {[tx |-> Pay(w).tx, sku |-> s, product |-> s.product,
                          racks |-> RackEntries(On(s), got.racks),
                          variant |-> WithIds(got.variants, {s.variant})] :
                           s \in {h.sku : h \in got.hists}})

-----------------------------------------------------------------------------
\* PlacementsIDs: the same of many transactions, which fails where Placements
\* leaves a part empty.

CheckPlacementsIDs(w) ==
  /\ At(w, "placement_ids", "start")
  /\ IF ~MayRead(w) \/ \E t \in WithIds(Db.txs, Pay(w).txs) : t.warehouse # TeamOf(w)
     THEN Refuse(w)
     ELSE Keep(w, "checked", WithIds(Db.txs, Pay(w).txs), "hists")

HistsOfIDs(w) ==
  /\ At(w, "placement_ids", "hists")
  /\ Keep(w, "hists", HistsOf(Db, Pay(w).txs), "skus")

SkusOfIDs(w) ==
  /\ At(w, "placement_ids", "skus")
  /\ Keep(w, "skus", WithIds(Db.skus, {h.sku : h \in Got(w).hists}), "racks")

RacksOfIDs(w) ==
  /\ At(w, "placement_ids", "racks")
  /\ Keep(w, "racks", WithIds(Db.racks, {h.rack : h \in Got(w).hists}), "variants")

VariantsOfIDs(w) ==
  /\ At(w, "placement_ids", "variants")
  /\ Keep(w, "variants", WithIds(Db.variants, {h.sku.variant : h \in Got(w).hists}), "products")

\* histToPlacementDetail of every transaction; the product id of the answer is
\* the id of the variant.
ProductsOfIDs(w) ==
  /\ At(w, "placement_ids", "products")
  /\ LET got == Got(w)
         products == WithIds(Db.products, ProductsOf(got.variants))
         skuless == {h \in got.hists : h.sku \notin Ids(got.skus)}
         missing == skuless \cup {h \in got.hists : \/ h.rack \notin Ids(got.racks)
                                                    \/ h.sku.variant \notin Ids(got.variants)}
         On(t, sku) == {h \in got.hists : h.tx = t /\ h.sku = sku}
     IN  \/ missing # {} /\ Refuse(w)
         \/ /\ \E h \in got.hists \ skuless, v \in got.variants :
                 v.id = h.sku.variant /\ ~HasImage(products, v.product)
            /\ Panic(w)
         \/ /\ missing = {}
            /\ \A v \in got.variants : HasImage(products, v.product)
            /\ Answer(w, {[tx |-> k[1], sku |-> k[2], product |-> k[2].variant,
                           racks |-> RackEntries(On(k[1], k[2]), got.racks),
                           variant |-> WithIds(got.variants, {k[2].variant})] :
                            k \in {<<h.tx, h.sku>> : h \in got.hists}})

-----------------------------------------------------------------------------
\* ProductList.  The pattern of q has lost the warehouse of the reference.

SearchedProduct(d, f, s) ==
  f.user # 0 /\ f.q # "" =>
    /\ \E p \in WithIds(d.products, {s.product}) :
         /\ p.user = f.user
         /\ CASE f.search = "sku" /\ f.ref = "variant" -> TRUE
              [] f.search = "sku" /\ f.ref # "variant" -> p.ref \in Like[f.q]
              [] f.search # "sku" -> p.name \in Like[f.q]
    /\ f.search = "sku" /\ f.ref = "variant" =>
         \E v \in WithIds(d.variants, {s.variant}) : v.ref \in Like[f.q]

ProductRows(d, f) ==
  {[sku |-> s, key |-> s.stock] : s \in
     {s \in d.skus :
        /\ s.warehouse = f.warehouse
        /\ f.rack = 0 \/ \E l \in d.placements : l.sku = s.id /\ l.rack = f.rack
        /\ f.team = 0 \/ s.team = f.team
        /\ SearchedProduct(d, f, s)
        /\ f.empty => s.stock <= 0}}

CountProducts(w) ==
  /\ At(w, "product_list", "start")
  /\ IF MayRead(w) THEN Keep(w, "count", Cardinality(ProductRows(Db, Pay(w))), "page")
     ELSE Refuse(w)

PageProducts(w) ==
  /\ At(w, "product_list", "page")
  /\ \E page \in Pages(ProductRows(Db, Pay(w)), Pay(w).page) : Keep(w, "page", page, "products")

ProductsOfPage(w) ==
  /\ At(w, "product_list", "products")
  /\ LET products == WithIds(Db.products, {r.sku.product : r \in Got(w).page})
     IN  IF \E p \in products : ~p.image THEN Panic(w)
         ELSE Keep(w, "products", products, "variants")

VariantsOfPage(w) ==
  /\ At(w, "product_list", "variants")
  /\ LET variants == WithIds(Db.variants, {r.sku.variant : r \in Got(w).page})
     IN  Answer(w, {[sku |-> r.sku, product |-> WithIds(Got(w).products, {r.sku.product}),
                     variant |-> WithIds(variants, {r.sku.variant})] : r \in Got(w).page})

-----------------------------------------------------------------------------
\* SkuList and SkuByIDs.

SkuRows(d, f) ==
  {[sku |-> s, key |-> 0] : s \in
     {s \in d.skus : /\ s.warehouse = f.warehouse
                     /\ \E l \in d.placements : l.rack \in f.racks /\ l.sku = s.id
                     /\ s.team \in f.teams}}

CountSkus(w) ==
  /\ At(w, "sku_list", "start")
  /\ Keep(w, "count", Cardinality(SkuRows(Db, Pay(w))), "page")

PageSkus(w) ==
  /\ At(w, "sku_list", "page")
  /\ \E page \in Pages(SkuRows(Db, Pay(w)), Pay(w).page) : Keep(w, "page", page, "products")

ProductsOfSkus(w) ==
  /\ At(w, "sku_list", "products")
  /\ LET skus == {r.sku : r \in Got(w).page}
         products == WithIds(Db.products, {s.product : s \in skus})
     IN  IF \E p \in products : ~p.image THEN Panic(w)
         ELSE Answer(w, {[sku |-> s, product |-> WithIds(products, {s.product})] : s \in skus})

SkusByIDs(w) ==
  /\ At(w, "sku_ids", "start")
  /\ Keep(w, "skus", {s \in WithIds(Db.skus, Pay(w).skus) :
                        Pay(w).warehouse = 0 \/ s.warehouse = Pay(w).warehouse}, "products")

ProductsByIDs(w) ==
  /\ At(w, "sku_ids", "products")
  /\ LET products == WithIds(Db.products, {s.product : s \in Got(w).skus})
     IN  IF \E p \in products : ~p.image THEN Panic(w)
         ELSE Keep(w, "products", products, "variants")

VariantsByIDs(w) ==
  /\ At(w, "sku_ids", "variants")
  /\ LET variants == WithIds(Db.variants, {s.variant : s \in Got(w).skus})
     IN  Answer(w, {[sku |-> s, product |-> WithIds(Got(w).products, {s.product}),
                     variant |-> WithIds(variants, {s.variant})] : s \in Got(w).skus})

-----------------------------------------------------------------------------
\* The blacklist.  Ids of no sku change no row.

ReadBlacklist(w) ==
  /\ At(w, "blacklist", "start")
  /\ LET skus == WithIds(Db.skus, Pay(w).skus)
     IN  Keep(w, "skus", {[sku |-> s, listed |-> s.id \in blacklist] : s \in skus}, "variants")

\* Preload("Variant"): a sku without its variant is a nil pointer.
VariantsOfBlacklist(w) ==
  /\ At(w, "blacklist", "variants")
  /\ LET variants == WithIds(Db.variants, {r.sku.variant : r \in Got(w).skus})
     IN  IF \E r \in Got(w).skus : r.sku.variant \notin Ids(variants) THEN Panic(w)
         ELSE Answer(w, {[sku |-> r.sku, listed |-> r.listed,
                          variant |-> WithIds(variants, {r.sku.variant})] : r \in Got(w).skus})

AddToBlacklist(w) ==
  /\ At(w, "blacklist_add", "start")
  /\ IF TeamOf(w) # 1 THEN Refuse(w) /\ UNCHANGED blacklist
     ELSE /\ blacklist' = blacklist \cup (Pay(w).skus \cap Ids(Db.skus))
          /\ Answer(w, {})

RemoveFromBlacklist(w) ==
  /\ At(w, "blacklist_remove", "start")
  /\ IF TeamOf(w) # 1 THEN Refuse(w) /\ UNCHANGED blacklist
     ELSE /\ blacklist' = blacklist \ (Pay(w).skus \cap Ids(Db.skus))
          /\ Answer(w, {})

-----------------------------------------------------------------------------
InventoryInit == blacklist = FirstBlacklist

InventoryRead(w) ==
  \/ CheckPlacements(w) \/ HistsOfPlacements(w) \/ RacksOfPlacements(w)
  \/ VariantsOfPlacements(w) \/ ProductsOfPlacements(w)
  \/ CheckPlacementsIDs(w) \/ HistsOfIDs(w) \/ SkusOfIDs(w) \/ RacksOfIDs(w)
  \/ VariantsOfIDs(w) \/ ProductsOfIDs(w)
  \/ CountProducts(w) \/ PageProducts(w) \/ ProductsOfPage(w) \/ VariantsOfPage(w)
  \/ CountSkus(w) \/ PageSkus(w) \/ ProductsOfSkus(w)
  \/ SkusByIDs(w) \/ ProductsByIDs(w) \/ VariantsByIDs(w)
  \/ ReadBlacklist(w) \/ VariantsOfBlacklist(w)

InventoryStep(w) ==
  \/ InventoryRead(w) /\ UNCHANGED blacklist
  \/ AddToBlacklist(w) \/ RemoveFromBlacklist(w)
=============================================================================
