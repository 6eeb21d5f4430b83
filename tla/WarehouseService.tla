-------------------------- MODULE WarehouseService -------------------------
(***************************************************************************)
(* The RPCs of v2 on one database: the outbound and inventory queries, the *)
(* warehouses and the notes of transactions, served by several workers     *)
(* while other services write the tables that are only read here.          *)
(***************************************************************************)
EXTENDS OutboundQueries, InventoryQueries, WarehouseLists, TransactionNotes

vars == <<tableVars, blacklist, registryVars, noteVars>>

Init == TablesInit /\ InventoryInit /\ RegistryInit /\ NotesInit

\* What a worker does next with its call.
Serve(w) ==
  \/ (OutboundStep(w) \/ ListStep(w)) /\ UNCHANGED <<blacklist, registryVars, noteVars>>
  \/ InventoryStep(w) /\ UNCHANGED <<registryVars, noteVars>>
  \/ RegistryStep(w) /\ UNCHANGED <<blacklist, noteVars>>
  \/ NotesStep(w) /\ UNCHANGED <<blacklist, registryVars>>

Fail(w) ==
  \/ FailCreate(w) /\ UNCHANGED <<blacklist, noteVars>>
  \/ FailNotes(w) /\ UNCHANGED <<blacklist, registryVars>>

Between(w) == (Accept(w) \/ Return(w)) /\ UNCHANGED <<blacklist, registryVars, noteVars>>

Next ==
  \/ \E w \in Workers : Serve(w) \/ Fail(w) \/ Between(w)
  \/ Change /\ UNCHANGED <<blacklist, registryVars, noteVars>>

Spec == Init /\ [][Next]_vars

\* A handler runs until it returns: no statement waits for ever.
Finish(w) == Return(w) /\ UNCHANGED <<blacklist, registryVars, noteVars>>

FairSpec == Spec /\ \A w \in Workers : WF_vars(Serve(w) \/ Finish(w))

-----------------------------------------------------------------------------
(* What the tables hold all the time, and at some time. *)

Moments == DOMAIN History

Ever(Rows_(_)) == UNION {Rows_(History[i]) : i \in Moments}

Always(Rows_(_)) == {r \in Ever(Rows_) : \A i \in Moments : r \in Rows_(History[i])}

\* A part of an answer has every row that was there all the time, and no row
\* that never was.
Joined(part, Rows_(_)) == Always(Rows_) \subseteq part /\ part \subseteq Ever(Rows_)

\* A part for which the answer has room for one row only.
One(Rows_(_)) == Cardinality(Ever(Rows_)) <= 1

JoinedOne(part, Rows_(_)) == One(Rows_) => Joined(part, Rows_)

OrdersOfTx(id, d) == {o \in d.orders : o.tx = id}

AddressesOf(orders, d) == {c \in d.customers : c.order \in Ids(orders)}

\* An order whose transactions are of no other order.
Unshared(o) ==
  \A i \in Moments : \A p \in History[i].orders :
    p.id # o.id => {p.tx, p.ret} \cap {o.tx, o.ret} \subseteq {0}

-----------------------------------------------------------------------------
(* Properties. *)

\* The type invariant of the calls, the warehouses and the notes.
TypeOK ==
  /\ now \in Moments /\ load \subseteq UNION Loads
  /\ \A w \in {w \in Workers : call[w] # Idle} :
       /\ call[w].answer.tag \in {"none", "ok", "error", "panic", "lost"}
       /\ (call[w].pc = "done") = (call[w].answer.tag # "none")
  /\ blacklist \subseteq Ids(Ever(LAMBDA d : d.skus)) \cup FirstBlacklist
  /\ \A i \in DOMAIN warehouses : warehouses[i].open \in {Times[s] : s \in DOMAIN Times} \cup {""}
  /\ DOMAIN teams \subseteq 0 .. teamSeq /\ Ids(notes) \subseteq 0 .. noteSeq
  /\ \A n \in notes \ FirstNotes : n.type \in NoteTypes

Answered(w, kind) == At(w, kind, "done") /\ call[w].answer.tag = "ok"

Data(w) == call[w].answer.data

ItemsJoined(t) == Joined(t.items, LAMBDA d : ItemsOf(d, {t.tx.id}))

\* The order of a transaction, and its customer where it has one order: an
\* address that its order always had, and none that no order of it ever had.
OrderJoined(r) == JoinedOne(r.order, LAMBDA d : OrdersOfTx(r.tx.id, d))

CustomerJoined(r) ==
  LET Orders(d) == OrdersOfTx(r.tx.id, d)
      Addresses(d) == AddressesOf(Ever(Orders), d)
  IN  One(Orders) /\ One(Addresses) =>
        /\ Always(LAMBDA d : AddressesOf(Orders(d), d)) \subseteq r.customer
        /\ r.customer \subseteq Ever(Addresses)

VariationJoined(r, warehouse) ==
  LET v == r.row.variation
  IN  /\ JoinedOne(r.variant, LAMBDA d : WithIds(d.variants, {v}))
      /\ JoinedOne(r.sku, LAMBDA d : {s \in d.skus : s.variant = v /\ s.warehouse = warehouse})

SearchJoined(r) ==
  /\ Joined({t.tx : t \in r.outbound}, LAMBDA d : WithIds(d.txs, {r.order.tx}))
  /\ Joined({t.tx : t \in r.inbound}, LAMBDA d : WithIds(d.txs, {r.order.ret}))
  /\ \A t \in r.outbound \cup r.inbound : ItemsJoined(t)
  /\ JoinedOne(Ids(r.customer), LAMBDA d : Ids(AddressesOf({r.order}, d)))

\* A transaction is listed, or detailed, with its own items, order and
\* customer, whatever was committed between the statements that read them.
OutboundJoined(w) ==
  /\ Answered(w, "list") =>
       \A r \in Data(w) : ItemsJoined(r) /\ OrderJoined(r) /\ CustomerJoined(r)
  /\ \A kind \in {"detail", "detail_ids"} :
       Answered(w, kind) /\ Pay(w).all => \A r \in Data(w) : ItemsJoined(r) /\ OrderJoined(r)
  /\ Answered(w, "by_product") => \A r \in Data(w) : VariationJoined(r, Pay(w).warehouse)
  /\ Answered(w, "order_search") => \A r \in Data(w) : Unshared(r.order) => SearchJoined(r)

RacksJoined(r) ==
  /\ Joined({e.hist : e \in r.racks},
            LAMBDA d : {h.id : h \in {h \in d.hists : h.tx = r.tx /\ h.sku = r.sku}})
  /\ \A e \in r.racks : Joined(e.name, LAMBDA d : {k.name : k \in WithIds(d.racks, {e.rack})})

VariantJoined(r) == Joined(r.variant, LAMBDA d : WithIds(d.variants, {r.sku.variant}))

ProductJoined(r) == Joined(r.product, LAMBDA d : WithIds(d.products, {r.sku.product}))

\* A sku is shown with its own racks, product and variant, and a transaction
\* with the skus that it moved.
InventoryJoined(w) ==
  /\ Answered(w, "placements") \/ Answered(w, "placement_ids") =>
       \A r \in Data(w) : RacksJoined(r) /\ VariantJoined(r)
  /\ Answered(w, "placements") => \A r \in Data(w) : r.product = r.sku.product
  /\ \A kind \in {"product_list", "sku_list", "sku_ids"} :
       Answered(w, kind) => \A r \in Data(w) : ProductJoined(r)
  /\ \A kind \in {"product_list", "sku_ids", "blacklist"} :
       Answered(w, kind) => \A r \in Data(w) : VariantJoined(r)

\* The parts of an answer belong together and none of them is missing: what
\* the maps of the handlers put under a row is what the tables have for it.
PartsBelongTogether == \A w \in Workers : OutboundJoined(w) /\ InventoryJoined(w)

-----------------------------------------------------------------------------
\* The rows that the handler of a kind follows from one table to the next.

Whole(d, skus) ==
  \A s \in skus : /\ HasImage(d.products, s.product)
                  /\ \E v \in WithIds(d.variants, {s.variant}) : v.product = s.product

SkusMoved(d, txs) == {h.sku : h \in HistsOf(d, txs)}

SkusAsked(d, kind, p) ==
  IF kind \in {"sku_ids", "blacklist"} THEN WithIds(d.skus, p.skus)
  ELSE {s \in d.skus : s.warehouse = p.warehouse}

Complete(d, w) ==
  LET p == Pay(w)
      kind == call[w].kind
      Mine(txs) == \A t \in WithIds(d.txs, txs) : t.warehouse = TeamOf(w)
  IN  CASE kind = "list" ->
             From(w) = "WAREHOUSE" /\ p.sort # "mp_created" /\ p.markets \subseteq OfMarketplaces
        [] kind = "by_product" -> From(w) = "WAREHOUSE" /\ p.timed
        [] kind = "detail_ids" ->
             /\ Mine(p.txs)
             /\ \A t \in WithIds(d.txs, p.txs) : t.type = "order" /\ OrdersOfTx(t.id, d) # {}
        [] kind = "placements" ->
             Mine({p.tx}) /\ p.tx \in Ids(d.txs) /\ Whole(d, SkusMoved(d, {p.tx}))
        [] kind = "placement_ids" ->
             /\ Mine(p.txs) /\ Whole(d, SkusMoved(d, p.txs))
             /\ SkusMoved(d, p.txs) \subseteq Ids(d.skus)
             /\ {h.rack : h \in HistsOf(d, p.txs)} \subseteq Ids(d.racks)
        [] kind \in {"product_list", "sku_list", "sku_ids", "blacklist"} ->
             Whole(d, SkusAsked(d, kind, p))
        [] OTHER -> kind \in {"order_search", "selling_teams", "team_racks"}

\* A call that may read and whose rows are complete in every content of the
\* tables is answered: neither an error nor a nil pointer comes from the tables
\* having changed between two of its statements.
CompleteIsAnswered ==
  \A w \in Workers :
    /\ call[w].pc = "done" /\ MayRead(w)
    /\ \A i \in Moments : Complete(History[i], w)
    => call[w].answer.tag = "ok"

-----------------------------------------------------------------------------
\* What a create answers is what the tables have: with the id, when it could be
\* sent or not, the team, the warehouse and its one owner; with an error, none
\* of them, so that a new try is safe after an error of a statement only.
CreateAnswersBook ==
  \A w \in Workers : At(w, "create", "done") =>
    LET id == IF "team" \in DOMAIN Got(w) THEN Got(w).team ELSE 0
        ownersOf == {o.user : o \in {o \in owners : o.team = id}}
    IN  IF call[w].answer.tag \in {"ok", "lost"}
        THEN /\ call[w].answer.data = id
             /\ id \in DOMAIN teams /\ teams[id].name = Pay(w).name
             /\ id \in DOMAIN warehouses
             /\ ownersOf = {Pay(w).user}
        ELSE id \notin DOMAIN teams /\ ownersOf = {}

\* The warehouses implement the book of WarehouseBook, whose contents are those
\* of the messages and of the rows there are at the start.
Row(r) == [name |-> r.name, fee |-> r.fee, open |-> r.open]

Entry(row, id, teams_, owners_) ==
  [row |-> Row(row), team |-> id \in DOMAIN teams_,
   owners |-> {o.user : o \in {o \in owners_ : o.team = id}}, deleted |-> row.deleted]

Asked(kinds) == {r.pay : r \in {r \in UNION Loads : r.kind \in kinds}}

BookContents ==
  {Columns(p) : p \in Asked({"create", "update"})}
  \cup {Row(FirstWarehouses[i]) : i \in DOMAIN FirstWarehouses}

BookUsers == {p.user : p \in Asked({"create"})}

FirstBook ==
  [i \in DOMAIN FirstWarehouses |-> Entry(FirstWarehouses[i], i, FirstTeams, FirstOwners)]

Book == INSTANCE WarehouseBook WITH
  Contents <- BookContents, Users <- BookUsers,
  book <- [i \in DOMAIN warehouses |-> Entry(warehouses[i], i, teams, owners)]

ImplementsWarehouseBook == Book!Spec

-----------------------------------------------------------------------------
Commits(w) == At(w, "note_create", "commit") /\ call'[w].answer.tag = "ok"

\* Notes change only when a replace commits: it takes away common notes of its
\* transaction alone, and of its order alone where it names one, every one it
\* has seen, also those another replace was about to take, and puts the common
\* notes of its message there.
NotesReplacedWhole ==
  [][notes' # notes => \E w \in Workers :
       /\ Commits(w)
       /\ \A n \in notes \ notes' :
            /\ n.tx = Pay(w).tx /\ n.type = "common"
            /\ Pay(w).order \in {0, n.order}
       /\ \A n \in notes' \ notes : n.tx = Pay(w).tx
       /\ Got(w).seen \cap notes' = {}
       /\ {n.text : n \in notes' \ notes} =
            {n.text : n \in {n \in Pay(w).notes : n.type = "common"}}]_vars

\* Every call returns.
CallsEnd == \A w \in Workers : call[w] # Idle ~> call[w] = Idle

-----------------------------------------------------------------------------
\* "filter marketplace, shop, dan query": a list by shop shows the transactions
\* of orders of that shop.
ListIsOfShop ==
  \A w \in Workers : Answered(w, "list") /\ Pay(w).shop # 0 =>
    \A r \in Data(w) : \E i \in Moments : \E o \in OrdersOfTx(r.tx.id, History[i]) :
      o.shop = Pay(w).shop

-----------------------------------------------------------------------------
(* What the theorems about this module presume of the tables of other      *)
(* services; the instances for TLC assume them of theirs.                  *)

\* Ids are primary keys.
KeysAreUnique ==
  \A i \in DOMAIN History :
    /\ \A p, q \in History[i].products : p.id = q.id => p = q
    /\ \A u, v \in History[i].variants : u.id = v.id => u = v
    /\ \A t, u \in History[i].txs : t.id = u.id => t = u
    /\ \A o, p \in History[i].orders : o.id = p.id => o = p

\* The lines of orders name the product that a variation is of.
LinesAgree ==
  \A i \in DOMAIN History : \A k, l \in History[i].lines :
    k.variation = l.variation => k.product = l.product

\* A content of the tables has the row of a sku, whatever its stock is by then.
HasSku(d, s) ==
  \E u \in d.skus : /\ u.id = s.id /\ u.warehouse = s.warehouse
                    /\ u.product = s.product /\ u.variant = s.variant

\* The other services do not take away transactions, what was moved with them,
\* or skus, and the id of a sku keeps what it is made of.
RowsStay ==
  \A i, j \in DOMAIN History : i <= j =>
    /\ Ids(History[i].txs) \subseteq Ids(History[j].txs)
    /\ History[i].hists \subseteq History[j].hists
    /\ \A s \in History[i].skus : HasSku(History[j], s)
=============================================================================
