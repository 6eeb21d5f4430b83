------------------------ MODULE ServiceCalls_proofs ------------------------
(***************************************************************************)
(* The calls of WarehouseService: what a statement of a handler does with  *)
(* the call it belongs to, for any workers, any calls and any contents of  *)
(* the tables, which calls are answered, and with which parts.             *)
(***************************************************************************)
EXTENDS WarehouseService, FiniteSetTheorems, WellFoundedInduction, TLAPS

-----------------------------------------------------------------------------
(* Statements. *)

Tags == {"ok", "error", "panic", "lost"}

\* A statement keeps its rows and names the next one, or ends the call.
Goes(w) ==
  /\ call[w].pc # "done"
  /\ \/ \E name, rows, next : next # "done" /\ Keep(w, name, rows, next)
     \/ \E answer : answer.tag \in Tags /\ Ends(w, answer)

\* The ways to end a call.
LEMMA EndsGo ==
  ASSUME NEW w, call[w].pc # "done"
  PROVE  /\ \A data : Answer(w, data) => Goes(w)
         /\ Refuse(w) => Goes(w)
         /\ Panic(w) => Goes(w)
BY DEF Goes, Tags, Answer, Refuse, Panic

\* The statements of the outbound queries.
LEMMA OutboundGoes ==
  ASSUME NEW w, OutboundStep(w)
  PROVE  /\ Goes(w)
         /\ call[w].kind \in {"list", "detail", "detail_ids", "by_product", "order_search"}
<1>1. CASE CountList(w) \/ PageList(w) \/ ItemsOfList(w) \/ OrdersOfList(w)
  BY <1>1, EndsGo DEF CountList, PageList, ItemsOfList, OrdersOfList, Goes, At
<1>2. CASE CustomersOfList(w)
  BY <1>2, EndsGo DEF CustomersOfList, At
<1>3. CASE FindDetail(w) \/ ItemsOfDetail(w) \/ OrderOfDetail(w)
  BY <1>3, EndsGo DEF FindDetail, ItemsOfDetail, OrderOfDetail, Goes, At
<1>4. CASE CheckDetailIDs(w) \/ LoadDetailIDs(w) \/ ItemsOfDetailIDs(w) \/ OrdersOfDetailIDs(w)
  BY <1>4, EndsGo
     DEF CheckDetailIDs, LoadDetailIDs, ItemsOfDetailIDs, OrdersOfDetailIDs, Goes, At
<1>5. CASE CountByProduct(w) \/ PageByProduct(w) \/ SkusByProduct(w) \/ VariantsByProduct(w)
  BY <1>5, EndsGo DEF CountByProduct, PageByProduct, SkusByProduct, VariantsByProduct, Goes, At
<1>6. CASE SearchOrders(w) \/ TxsOfOrders(w) \/ ItemsOfOrders(w) \/ ReturnsOfOrders(w)
  BY <1>6, EndsGo DEF SearchOrders, TxsOfOrders, ItemsOfOrders, ReturnsOfOrders, Goes, At
<1>7. CASE ReturnedItems(w) \/ CustomersOfOrders(w)
  BY <1>7, EndsGo DEF ReturnedItems, CustomersOfOrders, Goes, At
<1> QED BY <1>1, <1>2, <1>3, <1>4, <1>5, <1>6, <1>7 DEF OutboundStep

\* The statements of the inventory queries and of the blacklist.
LEMMA InventoryGoes ==
  ASSUME NEW w, InventoryStep(w)
  PROVE  /\ Goes(w)
         /\ call[w].kind \in {"placements", "placement_ids", "product_list", "sku_list",
                              "sku_ids", "blacklist", "blacklist_add", "blacklist_remove"}
<1>1. CASE \/ CheckPlacements(w) \/ HistsOfPlacements(w) \/ RacksOfPlacements(w)
           \/ VariantsOfPlacements(w) \/ ProductsOfPlacements(w)
  BY <1>1, EndsGo DEF CheckPlacements, HistsOfPlacements, RacksOfPlacements,
     VariantsOfPlacements, ProductsOfPlacements, Goes, At
<1>2. CASE \/ CheckPlacementsIDs(w) \/ HistsOfIDs(w) \/ SkusOfIDs(w) \/ RacksOfIDs(w)
           \/ VariantsOfIDs(w) \/ ProductsOfIDs(w)
  BY <1>2, EndsGo DEF CheckPlacementsIDs, HistsOfIDs, SkusOfIDs, RacksOfIDs, VariantsOfIDs,
     ProductsOfIDs, Goes, At
<1>3. CASE \/ CountProducts(w) \/ PageProducts(w) \/ ProductsOfPage(w) \/ VariantsOfPage(w)
           \/ CountSkus(w) \/ PageSkus(w) \/ ProductsOfSkus(w)
  BY <1>3, EndsGo DEF CountProducts, PageProducts, ProductsOfPage, VariantsOfPage, CountSkus,
     PageSkus, ProductsOfSkus, Goes, At
<1>4. CASE \/ SkusByIDs(w) \/ ProductsByIDs(w) \/ VariantsByIDs(w)
           \/ ReadBlacklist(w) \/ VariantsOfBlacklist(w)
  BY <1>4, EndsGo DEF SkusByIDs, ProductsByIDs, VariantsByIDs, ReadBlacklist,
     VariantsOfBlacklist, Goes, At
<1>5. CASE AddToBlacklist(w) \/ RemoveFromBlacklist(w)
  BY <1>5, EndsGo DEF AddToBlacklist, RemoveFromBlacklist, Goes, At
<1> QED BY <1>1, <1>2, <1>3, <1>4, <1>5 DEF InventoryStep, InventoryRead

\* The statements of the lists of a warehouse and of the reads of the registry.
LEMMA ListGoes ==
  ASSUME NEW w, ListStep(w) \/ RegistryRead(w)
  PROVE  /\ Goes(w)
         /\ call[w].kind \in {"selling_teams", "team_racks", "return_info", "warehouse_detail",
                              "warehouse_ids", "warehouse_list", "fee"}
<1>1. CASE CountTeams(w) \/ PageTeams(w) \/ TeamRackList(w)
  BY <1>1, EndsGo DEF CountTeams, PageTeams, TeamRackList, Goes, At
<1>2. CASE ReadReturnInfo(w) \/ ReturnWarehouse(w) \/ ReturnUser(w)
  BY <1>2, EndsGo DEF ReadReturnInfo, ReturnWarehouse, ReturnUser, Goes, At
<1>3. CASE RegistryRead(w)
  BY <1>3, EndsGo DEF RegistryRead, WarehouseDetail, WarehouseIDs, WarehouseList,
     GetWarehouseFee, Goes, At
<1> QED BY <1>1, <1>2, <1>3 DEF ListStep

\* The statements of the registry that write.
LEMMA RegistryGoes ==
  ASSUME NEW w, CreateStep(w) \/ UpdateWarehouse(w) \/ DeleteWarehouse(w) \/ FailCreate(w)
  PROVE  Goes(w) /\ call[w].kind \in {"create", "update", "delete"}
<1>1. CASE InsertTeam(w) \/ InsertWarehouse(w) \/ InsertOwner(w)
  BY <1>1, EndsGo DEF InsertTeam, InsertWarehouse, InsertOwner, Goes, At
<1>2. CASE CommitCreate(w)
  BY <1>2, EndsGo DEF CommitCreate, Goes, At
<1>3. CASE SendCreated(w)
  BY <1>3 DEF SendCreated, Goes, Tags, At
<1>4. CASE FailCreate(w) \/ UpdateWarehouse(w) \/ DeleteWarehouse(w)
  BY <1>4, EndsGo DEF FailCreate, UpdateWarehouse, DeleteWarehouse, At
<1> QED BY <1>1, <1>2, <1>3, <1>4 DEF CreateStep

\* The statements about notes.
LEMMA NotesGo ==
  ASSUME NEW w, NotesStep(w) \/ FailNotes(w)
  PROVE  Goes(w) /\ call[w].kind \in {"note_create", "note_list"}
<1>1. CASE FindNotedTx(w) \/ StartDelete(w) \/ FinishDelete(w) \/ CommitNotes(w) \/ FailNotes(w)
  BY <1>1, EndsGo DEF FindNotedTx, StartDelete, FinishDelete, CommitNotes, FailNotes, Goes, At
<1>2. CASE InsertNotes(w)
  BY <1>2 DEF InsertNotes, Goes, At
<1>3. CASE FindListedTx(w) \/ ListNotes(w)
  BY <1>3, EndsGo DEF FindListedTx, ListNotes, Goes, At
<1> QED BY <1>1, <1>2, <1>3 DEF NotesStep, NoteWrite, NoteRead
-----------------------------------------------------------------------------
(* Calls. *)

\* A call that is served is one that a client makes, and it has its answer when
\* it is done.
Serving(c) ==
  /\ \E r \in UNION Loads : c.kind = r.kind /\ c.source = r.source /\ c.pay = r.pay
  /\ c.answer.tag \in Tags \cup {"none"}
  /\ (c.pc = "done") = (c.answer.tag # "none")

CallsInv ==
  /\ call = [w \in Workers |-> call[w]]
  /\ now \in DOMAIN History
  /\ load \subseteq UNION Loads
  /\ \A w \in Workers : call[w] # Idle => Serving(call[w])

\* A statement changes its own call alone, and of that neither the request nor
\* what it has read before.
LEMMA Gone ==
  ASSUME CallsInv, NEW w \in Workers, Goes(w)
  PROVE  /\ UNCHANGED <<now, load>>
         /\ call' = [v \in Workers |-> call'[v]]
         /\ \A v \in Workers \ {w} : call'[v] = call[v]
         /\ call'[w].kind = call[w].kind
         /\ call'[w].source = call[w].source
         /\ call'[w].pay = call[w].pay
         /\ call[w].pc # "done"
         /\ \/ /\ \E name, rows : call'[w].got = Put(call[w].got, name, rows)
               /\ call'[w].answer = call[w].answer /\ call'[w].pc # "done"
            \/ /\ call'[w].got = call[w].got
               /\ call'[w].answer.tag \in Tags /\ call'[w].pc = "done"
<1>1. call = [v \in Workers |-> call[v]]
  BY DEF CallsInv
<1>4. call[w].pc # "done"
  BY DEF Goes
<1>2. CASE \E name, rows, next : next # "done" /\ Keep(w, name, rows, next)
  <2>1. PICK name, rows, next : next # "done" /\ Keep(w, name, rows, next)
    BY <1>2
  <2> DEFINE c == [call[w] EXCEPT !.got = Put(@, name, rows), !.pc = next]
  <2>2. call' = [call EXCEPT ![w] = c] /\ UNCHANGED <<now, load>>
    BY <2>1 DEF Keep
  <2>3. call' = [v \in Workers |-> call'[v]] /\ \A v \in Workers \ {w} : call'[v] = call[v]
    BY <1>1, <2>2
  <2>4. call'[w] = c
    BY <1>1, <2>2
  <2>5. /\ c.kind = call[w].kind /\ c.source = call[w].source /\ c.pay = call[w].pay
        /\ c.got = Put(call[w].got, name, rows) /\ c.answer = call[w].answer /\ c.pc = next
    OBVIOUS
  <2> HIDE DEF c
  <2> QED BY <1>4, <2>1, <2>2, <2>3, <2>4, <2>5
<1>3. CASE \E answer : answer.tag \in Tags /\ Ends(w, answer)
  <2>1. PICK answer : answer.tag \in Tags /\ Ends(w, answer)
    BY <1>3
  <2> DEFINE c == [call[w] EXCEPT !.answer = answer, !.pc = "done"]
  <2>2. call' = [call EXCEPT ![w] = c] /\ UNCHANGED <<now, load>>
    BY <2>1 DEF Ends
  <2>3. call' = [v \in Workers |-> call'[v]] /\ \A v \in Workers \ {w} : call'[v] = call[v]
    BY <1>1, <2>2
  <2>4. call'[w] = c
    BY <1>1, <2>2
  <2>5. /\ c.kind = call[w].kind /\ c.source = call[w].source /\ c.pay = call[w].pay
        /\ c.got = call[w].got /\ c.answer = answer /\ c.pc = "done"
    OBVIOUS
  <2> HIDE DEF c
  <2> QED BY <1>4, <2>1, <2>2, <2>3, <2>4, <2>5
<1> QED BY <1>2, <1>3 DEF Goes

\* What a handler is entered with.
Entered(r) ==
  [kind |-> r.kind, source |-> r.source, pay |-> r.pay, pc |-> "start", got |-> NoRows,
   answer |-> NoAnswer]

\* What a step does with the calls: some statement of a call goes on, a call is
\* taken on or has returned, or none of it.
LEMMA CallStep ==
  ASSUME CallsInv, [Next]_vars
  PROVE  \/ UNCHANGED call
         \/ \E w \in Workers :
              /\ call' = [v \in Workers |-> call'[v]]
              /\ \A v \in Workers \ {w} : call'[v] = call[v]
              /\ \/ Goes(w) /\ call[w] # Idle
                 \/ call'[w] = Idle
                 \/ \E r \in load : call'[w] = Entered(r)
<1>1. call = [v \in Workers |-> call[v]]
  BY DEF CallsInv
<1>2. CASE UNCHANGED vars \/ Change
  BY <1>2 DEF vars, tableVars, Change
<1>3. CASE \E w \in Workers : Serve(w) \/ Fail(w)
  <2>1. PICK w \in Workers : Serve(w) \/ Fail(w)
    BY <1>3
  <2>2. Goes(w) /\ call[w].kind # "none"
    BY <2>1, OutboundGoes, InventoryGoes, ListGoes, RegistryGoes, NotesGo
       DEF Serve, Fail, RegistryStep
  <2>3. call[w] # Idle
    BY <2>2 DEF Idle
  <2> QED BY <2>2, <2>3, Gone
<1>4. CASE \E w \in Workers : Between(w)
  <2>1. PICK w \in Workers : Between(w)
    BY <1>4
  <2>2. CASE Return(w)
    <3>1. call' = [call EXCEPT ![w] = Idle]
      BY <2>2 DEF Return
    <3> QED BY <1>1, <3>1
  <2>3. CASE Accept(w)
    <3>1. PICK r \in load : call' = [call EXCEPT ![w] = Entered(r)]
      BY <2>3 DEF Accept, Entered
    <3>2. /\ call' = [v \in Workers |-> call'[v]]
          /\ \A v \in Workers \ {w} : call'[v] = call[v]
          /\ call'[w] = Entered(r)
      BY <1>1, <3>1
    <3> QED BY <3>2
  <2> QED BY <2>1, <2>2, <2>3 DEF Between
<1> QED BY <1>2, <1>3, <1>4 DEF Next

\* No client makes a call while another step is taken.
LEMMA LoadStep ==
  ASSUME CallsInv, [Next]_vars
  PROVE  load' \subseteq load /\ now' \in DOMAIN History
<1>1. CASE UNCHANGED vars
  BY <1>1 DEF vars, tableVars, CallsInv
<1>2. CASE Change
  <2>1. now \in 1 .. Len(History) /\ now < Len(History) /\ now' = now + 1 /\ load' = load
    BY <1>2 DEF Change, CallsInv
  <2> QED BY <2>1 DEF CallsInv
<1>3. CASE \E w \in Workers : Serve(w) \/ Fail(w)
  <2>1. PICK w \in Workers : Serve(w) \/ Fail(w)
    BY <1>3
  <2>2. Goes(w)
    BY <2>1, OutboundGoes, InventoryGoes, ListGoes, RegistryGoes, NotesGo
       DEF Serve, Fail, RegistryStep
  <2> QED BY <2>2, Gone DEF CallsInv
<1>4. CASE \E w \in Workers : Between(w)
  BY <1>4 DEF Between, Accept, Return, CallsInv
<1> QED BY <1>1, <1>2, <1>3, <1>4 DEF Next

\* Every step leaves the calls served.
LEMMA CallsNext ==
  ASSUME CallsInv, [Next]_vars
  PROVE  CallsInv'
<1>1. load' \subseteq load /\ now' \in DOMAIN History
  BY LoadStep
<1>2. CASE UNCHANGED call
  BY <1>1, <1>2 DEF CallsInv, Serving
<1>3. CASE \E w \in Workers :
             /\ call' = [v \in Workers |-> call'[v]]
             /\ \A v \in Workers \ {w} : call'[v] = call[v]
             /\ \/ Goes(w) /\ call[w] # Idle
                \/ call'[w] = Idle
                \/ \E r \in load : call'[w] = Entered(r)
  <2>1. PICK w \in Workers :
             /\ call' = [v \in Workers |-> call'[v]]
             /\ \A v \in Workers \ {w} : call'[v] = call[v]
             /\ \/ Goes(w) /\ call[w] # Idle
                \/ call'[w] = Idle
                \/ \E r \in load : call'[w] = Entered(r)
    BY <1>3
  <2>2. SUFFICES call'[w] # Idle => Serving(call'[w])
    BY <1>1, <2>1 DEF CallsInv
  <2>3. CASE Goes(w) /\ call[w] # Idle
    <3>1. Serving(call[w])
      BY <2>3 DEF CallsInv
    <3>2. \/ call'[w].answer = call[w].answer /\ call'[w].pc # "done" /\ call[w].pc # "done"
          \/ call'[w].answer.tag \in Tags /\ call'[w].pc = "done"
      BY <2>3, Gone
    <3> QED BY <2>3, <3>1, <3>2, Gone DEF Serving, Tags
  <2>4. CASE \E r \in load : call'[w] = Entered(r)
    <3>1. PICK r \in load : call'[w] = Entered(r)
      BY <2>4
    <3>2. r \in UNION Loads
      BY DEF CallsInv
    <3> QED BY <3>1, <3>2 DEF Serving, Entered, NoAnswer, Tags
  <2> QED BY <2>1, <2>3, <2>4
<1> QED BY <1>2, <1>3, CallStep

\* Before the first step nothing is served.
LEMMA CallsInit == Init => CallsInv
BY ServiceAssumption DEF Init, TablesInit, CallsInv

\* What is proved of the calls holds of every behaviour.
LEMMA CallsHold == Spec => []CallsInv
BY CallsInit, CallsNext, PTL DEF Spec
-----------------------------------------------------------------------------
(* What a statement leaves in its call. *)

\* What is put under a name is found there, and the rest stays.
LEMMA PutHas ==
  ASSUME NEW got, NEW name, NEW rows
  PROVE  /\ DOMAIN Put(got, name, rows) = DOMAIN got \cup {name}
         /\ Put(got, name, rows)[name] = rows
         /\ \A n \in DOMAIN got \ {name} : Put(got, name, rows)[n] = got[n]
BY DEF Put

\* The call after a statement that keeps its rows.
LEMMA Kept ==
  ASSUME CallsInv, NEW w \in Workers, NEW name, NEW rows, NEW next, Keep(w, name, rows, next)
  PROVE  /\ call'[w].got = Put(call[w].got, name, rows) /\ call'[w].pc = next
         /\ call'[w].kind = call[w].kind /\ call'[w].source = call[w].source
         /\ call'[w].pay = call[w].pay /\ call'[w].answer = call[w].answer
         /\ DOMAIN call'[w].got = DOMAIN call[w].got \cup {name}
         /\ call'[w].got[name] = rows
         /\ \A n \in DOMAIN call[w].got \ {name} : call'[w].got[n] = call[w].got[n]
<1> DEFINE c == [call[w] EXCEPT !.got = Put(@, name, rows), !.pc = next]
<1>1. call = [v \in Workers |-> call[v]]
  BY DEF CallsInv
<1>2. call' = [call EXCEPT ![w] = c]
  BY DEF Keep
<1>3. call'[w] = c
  BY <1>1, <1>2
<1>4. /\ c.got = Put(call[w].got, name, rows) /\ c.pc = next /\ c.kind = call[w].kind
      /\ c.source = call[w].source /\ c.pay = call[w].pay /\ c.answer = call[w].answer
  OBVIOUS
<1> HIDE DEF c
<1> DEFINE g == Put(call[w].got, name, rows)
<1>5. /\ DOMAIN g = DOMAIN call[w].got \cup {name} /\ g[name] = rows
      /\ \A n \in DOMAIN call[w].got \ {name} : g[n] = call[w].got[n]
  BY DEF Put
<1> HIDE DEF g
<1>6. c.got = g
  BY <1>4 DEF g
<1> QED BY <1>3, <1>4, <1>5, <1>6 DEF g

\* The call after a statement that ends it.
LEMMA Ended ==
  ASSUME CallsInv, NEW w \in Workers, NEW answer, Ends(w, answer)
  PROVE  /\ call'[w].answer = answer /\ call'[w].pc = "done" /\ call'[w].got = call[w].got
         /\ call'[w].kind = call[w].kind /\ call'[w].source = call[w].source
         /\ call'[w].pay = call[w].pay
<1> DEFINE c == [call[w] EXCEPT !.answer = answer, !.pc = "done"]
<1>1. call = [v \in Workers |-> call[v]]
  BY DEF CallsInv
<1>2. call' = [call EXCEPT ![w] = c]
  BY DEF Ends
<1>3. call'[w] = c
  BY <1>1, <1>2
<1> QED BY <1>3

\* A call that is refused or panics has no data.
LEMMA Unanswered ==
  ASSUME CallsInv, NEW w \in Workers, Refuse(w) \/ Panic(w)
  PROVE  /\ call'[w].answer.tag \in {"error", "panic"} /\ call'[w].pc = "done"
         /\ call'[w].got = call[w].got /\ call'[w].kind = call[w].kind
         /\ call'[w].source = call[w].source /\ call'[w].pay = call[w].pay
<1>1. CASE Refuse(w)
  BY <1>1, Ended DEF Refuse
<1>2. CASE Panic(w)
  BY <1>2, Ended DEF Panic
<1> QED BY <1>1, <1>2

\* Every set of rows with numbers has a first one.
LEMMA FirstRow ==
  ASSUME NEW rows, rows # {}, \A t \in rows : t.id \in Nat
  PROVE  \E t \in rows : \A u \in rows : t.id <= u.id
<1> DEFINE ids == {t.id : t \in rows}
<1>1. ids \subseteq Nat /\ ids # {}
  OBVIOUS
<1>2. PICK i \in ids : \A j \in ids : <<j, i>> \notin OpToRel(<, Nat)
  <2> HIDE DEF ids
  <2> QED BY <1>1, NatLessThanWellFounded, WFMin
<1>3. \A j \in ids : i <= j
  <2> SUFFICES ASSUME NEW j \in ids, j < i PROVE FALSE
    BY <1>1
  <2>1. <<j, i>> \in {s \in Nat \X Nat : s[1] < s[2]}
    BY <1>1
  <2>2. <<j, i>> \in OpToRel(<, Nat)
    BY <2>1 DEF OpToRel
  <2> QED BY <1>2, <2>2
<1>4. PICK t \in rows : t.id = i
  BY <1>2
<1> QED BY <1>3, <1>4

AnsweredIn(c) == c.pc = "done" /\ c.answer.tag = "ok"

-----------------------------------------------------------------------------
(* A call whose rows are complete is answered. *)

\* A call that may read and whose rows are complete in every content.
Sure(w) == MayRead(w) /\ \A i \in Moments : Complete(History[i], w)

\* What such a call has read is still what the tables ask of it.
AbleDetailIDs(c, d) ==
  c.pc \in {"items", "orders"} =>
    /\ "txs" \in DOMAIN c.got
    /\ \A t \in c.got.txs : t.id \in c.pay.txs \cap Ids(d.txs)

AblePlacements(c, d) ==
  /\ c.pc \in {"racks", "variants", "products"} =>
       /\ "hists" \in DOMAIN c.got
       /\ \A h \in c.got.hists : h \in d.hists /\ h.tx = c.pay.tx
  /\ c.pc = "products" =>
       /\ "variants" \in DOMAIN c.got
       /\ \A v \in c.got.variants : \E h \in c.got.hists : v.product = h.sku.product

AblePlacementIDs(c, d) ==
  /\ c.pc \in {"skus", "racks", "variants", "products"} =>
       /\ "hists" \in DOMAIN c.got
       /\ \A h \in c.got.hists : h \in d.hists /\ h.tx \in c.pay.txs
  /\ c.pc \in {"racks", "variants", "products"} =>
       /\ "skus" \in DOMAIN c.got
       /\ \A h \in c.got.hists : h.sku \in Ids(c.got.skus)
  /\ c.pc \in {"variants", "products"} =>
       /\ "racks" \in DOMAIN c.got
       /\ \A h \in c.got.hists : h.rack \in Ids(c.got.racks)
  /\ c.pc = "products" =>
       /\ "variants" \in DOMAIN c.got
       /\ \A h \in c.got.hists : h.sku.variant \in Ids(c.got.variants)
       /\ \A v \in c.got.variants : \E h \in c.got.hists : v.product = h.sku.product

AblePage(c, d) ==
  c.pc = "products" =>
    /\ "page" \in DOMAIN c.got
    /\ \A r \in c.got.page : HasSku(d, r.sku) /\ r.sku.warehouse = c.pay.warehouse

AbleSkus(c, d) ==
  c.pc = "products" =>
    /\ "skus" \in DOMAIN c.got
    /\ \A s \in c.got.skus : HasSku(d, s) /\ s.id \in c.pay.skus

AbleBlacklist(c, d) ==
  c.pc = "variants" =>
    /\ "skus" \in DOMAIN c.got
    /\ \A r \in c.got.skus : HasSku(d, r.sku) /\ r.sku.id \in c.pay.skus

Able(c, d) ==
  /\ c.answer.tag \in {"none", "ok"}
  /\ c.kind = "detail_ids" => AbleDetailIDs(c, d)
  /\ c.kind = "placements" => AblePlacements(c, d)
  /\ c.kind = "placement_ids" => AblePlacementIDs(c, d)
  /\ c.kind \in {"product_list", "sku_list"} => AblePage(c, d)
  /\ c.kind = "sku_ids" => AbleSkus(c, d)
  /\ c.kind = "blacklist" => AbleBlacklist(c, d)

AnswerInv == \A w \in Workers : call[w] # Idle /\ Sure(w) => Able(call[w], Db)

\* What a complete content of the tables has now for the call of w.
LEMMA SureNow ==
  ASSUME CallsInv, NEW w, Sure(w)
  PROVE  /\ MayRead(w) /\ Complete(Db, w)
         /\ call[w].kind \in {"list", "detail_ids", "by_product", "order_search", "placements",
                              "placement_ids", "product_list", "sku_list", "sku_ids", "blacklist",
                              "selling_teams", "team_racks"}
<1>1. MayRead(w) /\ Complete(Db, w)
  BY DEF Sure, Moments, CallsInv, Db
<1> QED BY <1>1 DEF Complete

\* A product that has an image has no row without.
LEMMA ImageOf ==
  ASSUME CallsInv, KeysAreUnique, NEW id, HasImage(Db.products, id)
  PROVE  \A p \in Db.products : p.id = id => p.image
BY DEF CallsInv, KeysAreUnique, Db, HasImage, WithIds

\* What a complete content has of a whole sku.
LEMMA WholeSku ==
  ASSUME CallsInv, KeysAreUnique, NEW skus, Whole(Db, skus), NEW s \in skus
  PROVE  /\ HasImage(Db.products, s.product)
         /\ \A p \in Db.products : p.id = s.product => p.image
         /\ s.variant \in Ids(Db.variants)
         /\ \A v \in Db.variants : v.id = s.variant => v.product = s.product
<1>1. /\ HasImage(Db.products, s.product)
      /\ \E v \in WithIds(Db.variants, {s.variant}) : v.product = s.product
  BY DEF Whole
<1>2. PICK v \in Db.variants : v.id = s.variant /\ v.product = s.product
  BY <1>1 DEF WithIds
<1>3. \A u \in Db.variants : u.id = s.variant => u = v
  BY <1>2 DEF CallsInv, KeysAreUnique, Db
<1>4. s.variant \in Ids(Db.variants)
  BY <1>2 DEF Ids
<1> QED BY <1>1, <1>2, <1>3, <1>4, ImageOf

\* The skus that a call has read are whole, also when they were read before.
LEMMA SureSku ==
  ASSUME CallsInv, KeysAreUnique, NEW w, Sure(w), NEW s, HasSku(Db, s),
         \/ call[w].kind \in {"product_list", "sku_list"} /\ s.warehouse = Pay(w).warehouse
         \/ call[w].kind \in {"sku_ids", "blacklist"} /\ s.id \in Pay(w).skus
  PROVE  /\ \A p \in Db.products : p.id = s.product => p.image
         /\ s.variant \in Ids(Db.variants)
<1> DEFINE asked == SkusAsked(Db, call[w].kind, Pay(w))
<1>1. Whole(Db, asked)
  BY SureNow DEF Complete
<1>2. PICK u \in Db.skus : /\ u.id = s.id /\ u.warehouse = s.warehouse
                           /\ u.product = s.product /\ u.variant = s.variant
  BY DEF HasSku
<1>3. u \in asked
  BY <1>2 DEF SkusAsked, WithIds
<1> HIDE DEF asked
<1>4. /\ \A p \in Db.products : p.id = u.product => p.image
      /\ u.variant \in Ids(Db.variants)
  BY <1>1, <1>3, WholeSku
<1> QED BY <1>2, <1>4

\* What was moved with the asked transactions is whole.
LEMMA SureHist ==
  ASSUME CallsInv, KeysAreUnique, NEW w, Sure(w), NEW h \in Db.hists,
         \/ call[w].kind = "placements" /\ h.tx = Pay(w).tx
         \/ call[w].kind = "placement_ids" /\ h.tx \in Pay(w).txs
  PROVE  /\ HasImage(Db.products, h.sku.product)
         /\ h.sku.variant \in Ids(Db.variants)
         /\ \A v \in Db.variants : v.id = h.sku.variant => v.product = h.sku.product
         /\ call[w].kind = "placement_ids" => h.sku \in Ids(Db.skus) /\ h.rack \in Ids(Db.racks)
<1>1. CASE call[w].kind = "placements"
  <2> DEFINE moved == SkusMoved(Db, {Pay(w).tx})
  <2>1. Whole(Db, moved)
    BY <1>1, SureNow DEF Complete
  <2>2. h.sku \in moved
    BY <1>1 DEF SkusMoved, HistsOf
  <2> HIDE DEF moved
  <2> QED BY <1>1, <2>1, <2>2, WholeSku
<1>2. CASE call[w].kind = "placement_ids"
  <2> DEFINE moved == SkusMoved(Db, Pay(w).txs)
             racks == {g.rack : g \in HistsOf(Db, Pay(w).txs)}
  <2>1. Whole(Db, moved) /\ moved \subseteq Ids(Db.skus) /\ racks \subseteq Ids(Db.racks)
    BY <1>2, SureNow DEF Complete
  <2>2. h.sku \in moved /\ h.rack \in racks
    BY <1>2 DEF SkusMoved, HistsOf
  <2> HIDE DEF moved, racks
  <2> QED BY <1>2, <2>1, <2>2, WholeSku
<1> QED BY <1>1, <1>2

\* A statement that keeps its rows or answers makes no error.
LEMMA NoError ==
  ASSUME CallsInv, NEW w \in Workers, call[w].answer.tag \in {"none", "ok"},
         \/ \E name, rows, next : Keep(w, name, rows, next)
         \/ \E data : Answer(w, data)
  PROVE  call'[w].answer.tag \in {"none", "ok"}
<1>1. CASE \E name, rows, next : Keep(w, name, rows, next)
  BY <1>1, Kept
<1>2. CASE \E data : Answer(w, data)
  <2>1. PICK data : Answer(w, data)
    BY <1>2
  <2>2. call'[w].answer = [tag |-> "ok", data |-> data]
    BY <2>1, Ended DEF Answer
  <2> QED BY <2>2
<1> QED BY <1>1, <1>2

\* A call that has been answered reads nothing more.
LEMMA AnswerDone ==
  ASSUME CallsInv, NEW w \in Workers, NEW data, Answer(w, data)
  PROVE  call'[w].pc = "done"
BY Ended DEF Answer

-----------------------------------------------------------------------------
(* The statements of the outbound queries. *)

\* The lists and the search of orders.
LEMMA SureList ==
  ASSUME CallsInv, NEW w \in Workers, Sure(w), OutboundStep(w),
         call[w].kind \in {"list", "by_product", "order_search"}
  PROVE  \/ \E name, rows, next : Keep(w, name, rows, next)
         \/ \E data : Answer(w, data)
<1>1. CASE call[w].kind = "list"
  <2>1. /\ From(w) = "WAREHOUSE" /\ Pay(w).sort # "mp_created"
        /\ Pay(w).markets \subseteq OfMarketplaces /\ MayRead(w)
    BY <1>1, SureNow DEF Complete
  <2>2. CountList(w) \/ PageList(w) \/ ItemsOfList(w) \/ OrdersOfList(w) \/ CustomersOfList(w)
    BY <1>1 DEF OutboundStep, FindDetail, ItemsOfDetail, OrderOfDetail, CheckDetailIDs,
       LoadDetailIDs, ItemsOfDetailIDs, OrdersOfDetailIDs, CountByProduct,
       PageByProduct, SkusByProduct, VariantsByProduct, SearchOrders, TxsOfOrders,
       ItemsOfOrders, ReturnsOfOrders, ReturnedItems, CustomersOfOrders, At
  <2> QED
    BY <2>1, <2>2 DEF CountList, PageList, ItemsOfList, OrdersOfList, CustomersOfList
<1>2. CASE call[w].kind = "by_product"
  <2>1. From(w) = "WAREHOUSE" /\ Pay(w).timed /\ MayRead(w)
    BY <1>2, SureNow DEF Complete
  <2>2. CountByProduct(w) \/ PageByProduct(w) \/ SkusByProduct(w) \/ VariantsByProduct(w)
    BY <1>2 DEF OutboundStep, CountList, PageList, ItemsOfList, OrdersOfList, CustomersOfList,
       FindDetail, ItemsOfDetail, OrderOfDetail, CheckDetailIDs, LoadDetailIDs,
       ItemsOfDetailIDs, OrdersOfDetailIDs, SearchOrders, TxsOfOrders, ItemsOfOrders,
       ReturnsOfOrders, ReturnedItems, CustomersOfOrders, At
  <2> QED
    BY <2>1, <2>2 DEF CountByProduct, PageByProduct, SkusByProduct, VariantsByProduct
<1>3. CASE call[w].kind = "order_search"
  <2>1. \/ SearchOrders(w) \/ TxsOfOrders(w) \/ ItemsOfOrders(w) \/ ReturnsOfOrders(w)
        \/ ReturnedItems(w) \/ CustomersOfOrders(w)
    BY <1>3 DEF OutboundStep, CountList, PageList, ItemsOfList, OrdersOfList, CustomersOfList,
       FindDetail, ItemsOfDetail, OrderOfDetail, CheckDetailIDs, LoadDetailIDs,
       ItemsOfDetailIDs, OrdersOfDetailIDs, CountByProduct, PageByProduct, SkusByProduct,
       VariantsByProduct, At
  <2> QED
    BY <2>1 DEF SearchOrders, TxsOfOrders, ItemsOfOrders, ReturnsOfOrders, ReturnedItems,
       CustomersOfOrders
<1> QED BY <1>1, <1>2, <1>3

\* Details of ids: a transaction that was loaded is an order, now as then.
LEMMA SureDetailIDs ==
  ASSUME CallsInv, NEW w \in Workers, Sure(w), OutboundStep(w), call[w].kind = "detail_ids",
         AbleDetailIDs(call[w], Db)
  PROVE  /\ AbleDetailIDs(call'[w], Db)
         /\ \/ \E name, rows, next : Keep(w, name, rows, next)
            \/ \E data : Answer(w, data)
<1>1. CheckDetailIDs(w) \/ LoadDetailIDs(w) \/ ItemsOfDetailIDs(w) \/ OrdersOfDetailIDs(w)
  BY DEF OutboundStep, CountList, PageList, ItemsOfList, OrdersOfList, CustomersOfList,
     FindDetail, ItemsOfDetail, OrderOfDetail, CountByProduct,
     PageByProduct, SkusByProduct, VariantsByProduct, SearchOrders, TxsOfOrders, ItemsOfOrders,
     ReturnsOfOrders, ReturnedItems, CustomersOfOrders, At
<1>2. /\ MayRead(w)
      /\ \A t \in WithIds(Db.txs, Pay(w).txs) :
           t.warehouse = TeamOf(w) /\ t.type = "order" /\ OrdersOfTx(t.id, Db) # {}
  BY SureNow DEF Complete
<1>3. CASE CheckDetailIDs(w)
  <2>1. Keep(w, "checked", WithIds(Db.txs, Pay(w).txs), "load")
    BY <1>2, <1>3 DEF CheckDetailIDs, AccessError
  <2>2. call'[w].pc = "load"
    BY <2>1, Kept
  <2> QED BY <2>1, <2>2 DEF AbleDetailIDs
<1>4. CASE LoadDetailIDs(w)
  <2> DEFINE txs == {t \in WithIds(Db.txs, Pay(w).txs) : Pay(w).cancel \/ OfCancel(FALSE, t)}
  <2>1. \A t \in txs : t.id \in call[w].pay.txs \cap Ids(Db.txs)
    BY DEF WithIds, Ids, Pay
  <2>2. \/ Keep(w, "txs", txs, "items")
        \/ Answer(w, {[tx |-> t, items |-> {}, order |-> {}] : t \in txs})
    BY <1>2, <1>4 DEF LoadDetailIDs
  <2> HIDE DEF txs
  <2>3. CASE Keep(w, "txs", txs, "items")
    <3>1. /\ "txs" \in DOMAIN call'[w].got /\ call'[w].got["txs"] = txs
          /\ call'[w].pay = call[w].pay
      BY <2>3, Kept
    <3> QED BY <2>1, <2>3, <3>1 DEF AbleDetailIDs
  <2>4. CASE \E data : Answer(w, data)
    BY <2>4, AnswerDone DEF AbleDetailIDs
  <2> QED BY <2>2, <2>3, <2>4
<1>5. CASE ItemsOfDetailIDs(w)
  <2>1. PICK rows : Keep(w, "items", rows, "orders")
    BY <1>5 DEF ItemsOfDetailIDs
  <2>2. /\ "txs" \in DOMAIN call[w].got
        /\ \A t \in call[w].got["txs"] : t.id \in call[w].pay.txs \cap Ids(Db.txs)
    BY <1>5 DEF ItemsOfDetailIDs, At, AbleDetailIDs
  <2>3. /\ "txs" \in DOMAIN call'[w].got /\ call'[w].got["txs"] = call[w].got["txs"]
        /\ call'[w].pay = call[w].pay
    BY <2>1, <2>2, Kept
  <2> QED BY <2>1, <2>2, <2>3 DEF AbleDetailIDs
<1>6. CASE OrdersOfDetailIDs(w)
  <2> DEFINE rows == {o \in Db.orders : o.tx \in Ids(Got(w).txs)}
  <2>1. PICK order \in LastWins(rows, LAMBDA o : o.tx) :
          IF Ids(Got(w).txs) \subseteq DOMAIN order
          THEN \E data : Answer(w, data)
          ELSE Panic(w)
    BY <1>6 DEF OrdersOfDetailIDs
  <2>2. DOMAIN order = {o.tx : o \in rows}
    BY <2>1 DEF LastWins
  <2>3. \A t \in Got(w).txs : t.id \in Pay(w).txs \cap Ids(Db.txs)
    BY <1>6 DEF OrdersOfDetailIDs, At, AbleDetailIDs, Got, Pay
  <2>4. Ids(Got(w).txs) \subseteq DOMAIN order
    <3> SUFFICES ASSUME NEW t \in Got(w).txs PROVE t.id \in DOMAIN order
      BY DEF Ids
    <3>1. PICK u \in Db.txs : u.id = t.id
      BY <2>3 DEF Ids
    <3>2. u \in WithIds(Db.txs, Pay(w).txs)
      BY <2>3, <3>1 DEF WithIds
    <3>3. PICK o \in Db.orders : o.tx = t.id
      BY <1>2, <3>1, <3>2 DEF OrdersOfTx
    <3>4. o \in rows
      BY <3>3 DEF Ids
    <3> QED BY <2>2, <3>3, <3>4
  <2>5. \E data : Answer(w, data)
    BY <2>1, <2>4
  <2> QED BY <2>5, AnswerDone DEF AbleDetailIDs
<1> QED BY <1>1, <1>3, <1>4, <1>5, <1>6

-----------------------------------------------------------------------------
(* The statements of the inventory queries. *)

\* What was kept of the history is of the asked transactions and of now.
LEMMA SurePlacements ==
  ASSUME CallsInv, KeysAreUnique, NEW w \in Workers, Sure(w), InventoryStep(w),
         call[w].kind = "placements", AblePlacements(call[w], Db)
  PROVE  /\ AblePlacements(call'[w], Db)
         /\ \/ \E name, rows, next : Keep(w, name, rows, next)
            \/ \E data : Answer(w, data)
<1>1. \/ CheckPlacements(w) \/ HistsOfPlacements(w) \/ RacksOfPlacements(w)
      \/ VariantsOfPlacements(w) \/ ProductsOfPlacements(w)
  BY DEF InventoryStep, InventoryRead, CheckPlacementsIDs, HistsOfIDs, SkusOfIDs, RacksOfIDs,
     VariantsOfIDs, ProductsOfIDs, CountProducts, PageProducts, ProductsOfPage,
     VariantsOfPage, CountSkus, PageSkus, ProductsOfSkus, SkusByIDs, ProductsByIDs,
     VariantsByIDs, ReadBlacklist, VariantsOfBlacklist, AddToBlacklist, RemoveFromBlacklist, At
<1>2. /\ MayRead(w) /\ Pay(w).tx \in Ids(Db.txs)
      /\ \A t \in WithIds(Db.txs, {Pay(w).tx}) : t.warehouse = TeamOf(w)
  BY SureNow DEF Complete
<1>3. CASE CheckPlacements(w)
  <2>1. \E t \in WithIds(Db.txs, {Pay(w).tx}) : t.warehouse = TeamOf(w)
    BY <1>2 DEF WithIds, Ids
  <2>2. Keep(w, "checked", WithIds(Db.txs, {Pay(w).tx}), "hists")
    BY <1>2, <1>3, <2>1 DEF CheckPlacements
  <2>3. call'[w].pc = "hists"
    BY <2>2, Kept
  <2> QED BY <2>2, <2>3 DEF AblePlacements
<1>4. CASE HistsOfPlacements(w)
  <2> DEFINE hists == HistsOf(Db, {Pay(w).tx})
  <2>1. Keep(w, "hists", hists, "racks")
    BY <1>4 DEF HistsOfPlacements
  <2>2. \A h \in hists : h \in Db.hists /\ h.tx = call[w].pay.tx
    BY DEF HistsOf, Pay
  <2> HIDE DEF hists
  <2>3. /\ "hists" \in DOMAIN call'[w].got /\ call'[w].got["hists"] = hists
        /\ call'[w].pc = "racks" /\ call'[w].pay = call[w].pay
    BY <2>1, Kept
  <2> QED BY <2>1, <2>2, <2>3 DEF AblePlacements
<1>5. CASE RacksOfPlacements(w) \/ VariantsOfPlacements(w)
  <2>1. /\ "hists" \in DOMAIN call[w].got
        /\ \A h \in call[w].got["hists"] : h \in Db.hists /\ h.tx = call[w].pay.tx
    BY <1>5 DEF RacksOfPlacements, VariantsOfPlacements, At, AblePlacements
  <2>2. CASE RacksOfPlacements(w)
    <3>1. PICK rows : Keep(w, "racks", rows, "variants")
      BY <2>2 DEF RacksOfPlacements
    <3>2. /\ "hists" \in DOMAIN call'[w].got /\ call'[w].got["hists"] = call[w].got["hists"]
          /\ call'[w].pc = "variants" /\ call'[w].pay = call[w].pay
      BY <2>1, <3>1, Kept
    <3> QED BY <2>1, <3>1, <3>2 DEF AblePlacements
  <2>3. CASE VariantsOfPlacements(w)
    <3> DEFINE rows == WithIds(Db.variants, {h.sku.variant : h \in Got(w).hists})
    <3>1. Keep(w, "variants", rows, "products")
      BY <2>3 DEF VariantsOfPlacements
    <3>2. \A v \in rows : \E h \in call[w].got["hists"] : v.product = h.sku.product
      <4> SUFFICES ASSUME NEW v \in rows
                   PROVE  \E h \in call[w].got["hists"] : v.product = h.sku.product
        OBVIOUS
      <4>1. PICK h \in call[w].got["hists"] : v \in Db.variants /\ v.id = h.sku.variant
        BY DEF WithIds, Got
      <4>2. v.product = h.sku.product
        BY <2>1, <4>1, SureHist DEF Pay
      <4> QED BY <4>2
    <3> HIDE DEF rows
    <3>3. /\ "hists" \in DOMAIN call'[w].got /\ call'[w].got["hists"] = call[w].got["hists"]
          /\ "variants" \in DOMAIN call'[w].got /\ call'[w].got["variants"] = rows
          /\ call'[w].pay = call[w].pay
      BY <2>1, <3>1, Kept
    <3> QED BY <2>1, <3>1, <3>2, <3>3 DEF AblePlacements
  <2> QED BY <1>5, <2>2, <2>3
<1>6. CASE ProductsOfPlacements(w)
  <2> DEFINE products == WithIds(Db.products, ProductsOf(Got(w).variants))
  <2>1. /\ \A h \in Got(w).hists : h \in Db.hists /\ h.tx = Pay(w).tx
        /\ \A v \in Got(w).variants : \E h \in Got(w).hists : v.product = h.sku.product
    BY <1>6 DEF ProductsOfPlacements, At, AblePlacements, Got, Pay
  <2>2. \A v \in Got(w).variants : HasImage(Db.products, v.product)
    BY <2>1, SureHist
  <2>3. \A v \in Got(w).variants : HasImage(products, v.product)
    BY <2>2 DEF HasImage, WithIds, ProductsOf
  <2>4. \E data : Answer(w, data)
    BY <1>6, <2>3 DEF ProductsOfPlacements
  <2> QED BY <2>4, AnswerDone DEF AblePlacements
<1> QED BY <1>1, <1>3, <1>4, <1>5, <1>6

\* The same for many transactions, where every sku and rack must be found.
LEMMA SurePlacementIDs ==
  ASSUME CallsInv, KeysAreUnique, NEW w \in Workers, Sure(w), InventoryStep(w),
         call[w].kind = "placement_ids", AblePlacementIDs(call[w], Db)
  PROVE  /\ AblePlacementIDs(call'[w], Db)
         /\ \/ \E name, rows, next : Keep(w, name, rows, next)
            \/ \E data : Answer(w, data)
<1>1. \/ CheckPlacementsIDs(w) \/ HistsOfIDs(w) \/ SkusOfIDs(w) \/ RacksOfIDs(w)
      \/ VariantsOfIDs(w) \/ ProductsOfIDs(w)
  BY DEF InventoryStep, InventoryRead, CheckPlacements, HistsOfPlacements, RacksOfPlacements,
     VariantsOfPlacements, ProductsOfPlacements, CountProducts, PageProducts, ProductsOfPage,
     VariantsOfPage, CountSkus, PageSkus, ProductsOfSkus, SkusByIDs, ProductsByIDs,
     VariantsByIDs, ReadBlacklist, VariantsOfBlacklist, AddToBlacklist, RemoveFromBlacklist, At
<1>2. MayRead(w) /\ \A t \in WithIds(Db.txs, Pay(w).txs) : t.warehouse = TeamOf(w)
  BY SureNow DEF Complete
<1> DEFINE hadHists == /\ "hists" \in DOMAIN call[w].got
                       /\ \A h \in call[w].got["hists"] : h \in Db.hists /\ h.tx \in call[w].pay.txs
           hadSkus == /\ "skus" \in DOMAIN call[w].got
                      /\ \A h \in call[w].got["hists"] : h.sku \in Ids(call[w].got["skus"])
           hadRacks == /\ "racks" \in DOMAIN call[w].got
                       /\ \A h \in call[w].got["hists"] : h.rack \in Ids(call[w].got["racks"])
<1>3. CASE CheckPlacementsIDs(w)
  <2>1. Keep(w, "checked", WithIds(Db.txs, Pay(w).txs), "hists")
    BY <1>2, <1>3 DEF CheckPlacementsIDs
  <2>2. call'[w].pc = "hists"
    BY <2>1, Kept
  <2> QED BY <2>1, <2>2 DEF AblePlacementIDs
<1>4. CASE HistsOfIDs(w)
  <2> DEFINE hists == HistsOf(Db, Pay(w).txs)
  <2>1. Keep(w, "hists", hists, "skus")
    BY <1>4 DEF HistsOfIDs
  <2>2. \A h \in hists : h \in Db.hists /\ h.tx \in call[w].pay.txs
    BY DEF HistsOf, Pay
  <2> HIDE DEF hists
  <2>3. /\ "hists" \in DOMAIN call'[w].got /\ call'[w].got["hists"] = hists
        /\ call'[w].pc = "skus" /\ call'[w].pay = call[w].pay
    BY <2>1, Kept
  <2> QED BY <2>1, <2>2, <2>3 DEF AblePlacementIDs
<1>5. CASE SkusOfIDs(w)
  <2> DEFINE rows == WithIds(Db.skus, {h.sku : h \in Got(w).hists})
  <2>1. hadHists
    BY <1>5 DEF SkusOfIDs, At, AblePlacementIDs
  <2>2. Keep(w, "skus", rows, "racks")
    BY <1>5 DEF SkusOfIDs
  <2>3. \A h \in call[w].got["hists"] : h.sku \in Ids(rows)
    <3> SUFFICES ASSUME NEW h \in call[w].got["hists"] PROVE h.sku \in Ids(rows)
      OBVIOUS
    <3>1. PICK s \in Db.skus : s.id = h.sku
      BY <2>1, SureHist DEF Pay, Ids
    <3>2. s \in rows
      BY <3>1 DEF WithIds, Got
    <3> QED BY <3>1, <3>2 DEF Ids
  <2> HIDE DEF rows
  <2>4. /\ "hists" \in DOMAIN call'[w].got /\ call'[w].got["hists"] = call[w].got["hists"]
        /\ "skus" \in DOMAIN call'[w].got /\ call'[w].got["skus"] = rows
        /\ call'[w].pc = "racks" /\ call'[w].pay = call[w].pay
    BY <2>1, <2>2, Kept
  <2> QED BY <2>1, <2>2, <2>3, <2>4 DEF AblePlacementIDs
<1>6. CASE RacksOfIDs(w)
  <2> DEFINE rows == WithIds(Db.racks, {h.rack : h \in Got(w).hists})
  <2>1. hadHists /\ hadSkus
    BY <1>6 DEF RacksOfIDs, At, AblePlacementIDs
  <2>2. Keep(w, "racks", rows, "variants")
    BY <1>6 DEF RacksOfIDs
  <2>3. \A h \in call[w].got["hists"] : h.rack \in Ids(rows)
    <3> SUFFICES ASSUME NEW h \in call[w].got["hists"] PROVE h.rack \in Ids(rows)
      OBVIOUS
    <3>1. PICK r \in Db.racks : r.id = h.rack
      BY <2>1, SureHist DEF Pay, Ids
    <3>2. r \in rows
      BY <3>1 DEF WithIds, Got
    <3> QED BY <3>1, <3>2 DEF Ids
  <2> HIDE DEF rows
  <2>4. /\ "hists" \in DOMAIN call'[w].got /\ call'[w].got["hists"] = call[w].got["hists"]
        /\ "skus" \in DOMAIN call'[w].got /\ call'[w].got["skus"] = call[w].got["skus"]
        /\ "racks" \in DOMAIN call'[w].got /\ call'[w].got["racks"] = rows
        /\ call'[w].pc = "variants" /\ call'[w].pay = call[w].pay
    BY <2>1, <2>2, Kept
  <2> QED BY <2>1, <2>2, <2>3, <2>4 DEF AblePlacementIDs
<1>7. CASE VariantsOfIDs(w)
  <2> DEFINE rows == WithIds(Db.variants, {h.sku.variant : h \in Got(w).hists})
  <2>1. hadHists /\ hadSkus /\ hadRacks
    BY <1>7 DEF VariantsOfIDs, At, AblePlacementIDs
  <2>2. Keep(w, "variants", rows, "products")
    BY <1>7 DEF VariantsOfIDs
  <2>3. \A h \in call[w].got["hists"] : h.sku.variant \in Ids(rows)
    <3> SUFFICES ASSUME NEW h \in call[w].got["hists"] PROVE h.sku.variant \in Ids(rows)
      OBVIOUS
    <3>1. PICK v \in Db.variants : v.id = h.sku.variant
      BY <2>1, SureHist DEF Pay, Ids
    <3>2. v \in rows
      BY <3>1 DEF WithIds, Got
    <3> QED BY <3>1, <3>2 DEF Ids
  <2>4. \A v \in rows : \E h \in call[w].got["hists"] : v.product = h.sku.product
    <3> SUFFICES ASSUME NEW v \in rows
                 PROVE  \E h \in call[w].got["hists"] : v.product = h.sku.product
      OBVIOUS
    <3>1. PICK h \in call[w].got["hists"] : v \in Db.variants /\ v.id = h.sku.variant
      BY DEF WithIds, Got
    <3>2. v.product = h.sku.product
      BY <2>1, <3>1, SureHist DEF Pay
    <3> QED BY <3>2
  <2> HIDE DEF rows
  <2>5. /\ "hists" \in DOMAIN call'[w].got /\ call'[w].got["hists"] = call[w].got["hists"]
        /\ "skus" \in DOMAIN call'[w].got /\ call'[w].got["skus"] = call[w].got["skus"]
        /\ "racks" \in DOMAIN call'[w].got /\ call'[w].got["racks"] = call[w].got["racks"]
        /\ "variants" \in DOMAIN call'[w].got /\ call'[w].got["variants"] = rows
        /\ call'[w].pay = call[w].pay
    BY <2>1, <2>2, Kept
  <2> QED BY <2>1, <2>2, <2>3, <2>4, <2>5 DEF AblePlacementIDs
<1>8. CASE ProductsOfIDs(w)
  <2> DEFINE products == WithIds(Db.products, ProductsOf(Got(w).variants))
             skuless == {h \in Got(w).hists : h.sku \notin Ids(Got(w).skus)}
             missing == skuless \cup {h \in Got(w).hists :
                                        \/ h.rack \notin Ids(Got(w).racks)
                                        \/ h.sku.variant \notin Ids(Got(w).variants)}
  <2>1. /\ \A h \in Got(w).hists : /\ h \in Db.hists /\ h.tx \in Pay(w).txs
                                   /\ h.sku \in Ids(Got(w).skus) /\ h.rack \in Ids(Got(w).racks)
                                   /\ h.sku.variant \in Ids(Got(w).variants)
        /\ \A v \in Got(w).variants : \E h \in Got(w).hists : v.product = h.sku.product
    BY <1>8 DEF ProductsOfIDs, At, AblePlacementIDs, Got, Pay
  <2>2. \A v \in Got(w).variants : HasImage(Db.products, v.product)
    BY <2>1, SureHist
  <2>3. \A v \in Got(w).variants : HasImage(products, v.product)
    BY <2>2 DEF HasImage, WithIds, ProductsOf
  <2>4. missing = {}
    BY <2>1
  <2>5. \/ missing # {}
        \/ \E v \in Got(w).variants : ~HasImage(products, v.product)
        \/ \E data : Answer(w, data)
    BY <1>8 DEF ProductsOfIDs
  <2>6. \E data : Answer(w, data)
    BY <2>3, <2>4, <2>5
  <2> QED BY <2>6, AnswerDone DEF AblePlacementIDs
<1> QED BY <1>1, <1>3, <1>4, <1>5, <1>6, <1>7, <1>8

\* The skus of a page are in the tables still when their products are read.
LEMMA SurePage ==
  ASSUME CallsInv, KeysAreUnique, NEW w \in Workers, Sure(w), InventoryStep(w),
         call[w].kind \in {"product_list", "sku_list"}, AblePage(call[w], Db)
  PROVE  /\ AblePage(call'[w], Db)
         /\ \/ \E name, rows, next : Keep(w, name, rows, next)
            \/ \E data : Answer(w, data)
<1>1. \/ CountProducts(w) \/ PageProducts(w) \/ ProductsOfPage(w) \/ VariantsOfPage(w)
      \/ CountSkus(w) \/ PageSkus(w) \/ ProductsOfSkus(w)
  BY DEF InventoryStep, InventoryRead, CheckPlacements, HistsOfPlacements, RacksOfPlacements,
     VariantsOfPlacements, ProductsOfPlacements, CheckPlacementsIDs, HistsOfIDs, SkusOfIDs,
     RacksOfIDs, VariantsOfIDs, ProductsOfIDs, SkusByIDs, ProductsByIDs,
     VariantsByIDs, ReadBlacklist, VariantsOfBlacklist, AddToBlacklist, RemoveFromBlacklist, At
<1>2. MayRead(w)
  BY SureNow
<1>3. CASE CountProducts(w) \/ CountSkus(w)
  <2>1. PICK rows : Keep(w, "count", rows, "page")
    BY <1>2, <1>3 DEF CountProducts, CountSkus
  <2>2. call'[w].pc = "page"
    BY <2>1, Kept
  <2> QED BY <2>1, <2>2 DEF AblePage
<1>4. CASE PageProducts(w) \/ PageSkus(w)
  <2>1. PICK page : /\ Keep(w, "page", page, "products")
                    /\ \/ page \in Pages(ProductRows(Db, Pay(w)), Pay(w).page)
                       \/ page \in Pages(SkuRows(Db, Pay(w)), Pay(w).page)
    BY <1>4 DEF PageProducts, PageSkus
  <2>2. page \subseteq ProductRows(Db, Pay(w)) \/ page \subseteq SkuRows(Db, Pay(w))
    BY <2>1 DEF Pages
  <2>3. \A r \in page : r.sku \in Db.skus /\ r.sku.warehouse = call[w].pay.warehouse
    BY <2>2 DEF ProductRows, SkuRows, Pay
  <2>4. \A r \in page : HasSku(Db, r.sku)
    BY <2>3 DEF HasSku
  <2>5. /\ "page" \in DOMAIN call'[w].got /\ call'[w].got["page"] = page
        /\ call'[w].pay = call[w].pay
    BY <2>1, Kept
  <2> QED BY <2>1, <2>3, <2>4, <2>5 DEF AblePage
<1>5. CASE ProductsOfPage(w) \/ ProductsOfSkus(w)
  <2>1. \A r \in Got(w).page : HasSku(Db, r.sku) /\ r.sku.warehouse = Pay(w).warehouse
    BY <1>5 DEF ProductsOfPage, ProductsOfSkus, At, AblePage, Got, Pay
  <2>2. \A r \in Got(w).page, p \in Db.products : p.id = r.sku.product => p.image
    BY <2>1, SureSku
  <2>3. CASE ProductsOfPage(w)
    <3>1. \A p \in WithIds(Db.products, {r.sku.product : r \in Got(w).page}) : p.image
      BY <2>2 DEF WithIds
    <3>2. PICK rows : Keep(w, "products", rows, "variants")
      BY <2>3, <3>1 DEF ProductsOfPage
    <3>3. call'[w].pc = "variants"
      BY <3>2, Kept
    <3> QED BY <3>2, <3>3 DEF AblePage
  <2>4. CASE ProductsOfSkus(w)
    <3> DEFINE skus == {r.sku : r \in Got(w).page}
    <3>1. \A p \in WithIds(Db.products, {s.product : s \in skus}) : p.image
      BY <2>2 DEF WithIds
    <3>2. \E data : Answer(w, data)
      BY <2>4, <3>1 DEF ProductsOfSkus
    <3> QED BY <3>2, AnswerDone DEF AblePage
  <2> QED BY <1>5, <2>3, <2>4
<1>6. CASE VariantsOfPage(w)
  <2>1. \E data : Answer(w, data)
    BY <1>6 DEF VariantsOfPage
  <2> QED BY <2>1, AnswerDone DEF AblePage
<1> QED BY <1>1, <1>3, <1>4, <1>5, <1>6

\* So are the skus that were asked by their ids.
LEMMA SureSkus ==
  ASSUME CallsInv, KeysAreUnique, NEW w \in Workers, Sure(w), InventoryStep(w),
         call[w].kind = "sku_ids", AbleSkus(call[w], Db)
  PROVE  /\ AbleSkus(call'[w], Db)
         /\ \/ \E name, rows, next : Keep(w, name, rows, next)
            \/ \E data : Answer(w, data)
<1>1. SkusByIDs(w) \/ ProductsByIDs(w) \/ VariantsByIDs(w)
  BY DEF InventoryStep, InventoryRead, CheckPlacements, HistsOfPlacements, RacksOfPlacements,
     VariantsOfPlacements, ProductsOfPlacements, CheckPlacementsIDs, HistsOfIDs, SkusOfIDs,
     RacksOfIDs, VariantsOfIDs, ProductsOfIDs, CountProducts, PageProducts, ProductsOfPage,
     VariantsOfPage, CountSkus, PageSkus, ProductsOfSkus, ReadBlacklist, VariantsOfBlacklist,
     AddToBlacklist, RemoveFromBlacklist, At
<1>2. CASE SkusByIDs(w)
  <2> DEFINE rows == {s \in WithIds(Db.skus, Pay(w).skus) :
                        Pay(w).warehouse = 0 \/ s.warehouse = Pay(w).warehouse}
  <2>1. Keep(w, "skus", rows, "products")
    BY <1>2 DEF SkusByIDs
  <2>2. \A s \in rows : HasSku(Db, s) /\ s.id \in call[w].pay.skus
    BY DEF HasSku, WithIds, Pay
  <2> HIDE DEF rows
  <2>3. /\ "skus" \in DOMAIN call'[w].got /\ call'[w].got["skus"] = rows
        /\ call'[w].pay = call[w].pay
    BY <2>1, Kept
  <2> QED BY <2>1, <2>2, <2>3 DEF AbleSkus
<1>3. CASE ProductsByIDs(w)
  <2>1. \A s \in Got(w).skus : HasSku(Db, s) /\ s.id \in Pay(w).skus
    BY <1>3 DEF ProductsByIDs, At, AbleSkus, Got, Pay
  <2>2. \A s \in Got(w).skus, p \in Db.products : p.id = s.product => p.image
    BY <2>1, SureSku
  <2>3. \A p \in WithIds(Db.products, {s.product : s \in Got(w).skus}) : p.image
    BY <2>2 DEF WithIds
  <2>4. PICK rows : Keep(w, "products", rows, "variants")
    BY <1>3, <2>3 DEF ProductsByIDs
  <2>5. call'[w].pc = "variants"
    BY <2>4, Kept
  <2> QED BY <2>4, <2>5 DEF AbleSkus
<1>4. CASE VariantsByIDs(w)
  <2>1. \E data : Answer(w, data)
    BY <1>4 DEF VariantsByIDs
  <2> QED BY <2>1, AnswerDone DEF AbleSkus
<1> QED BY <1>1, <1>2, <1>3, <1>4

\* And those of the blacklist.
LEMMA SureBlacklist ==
  ASSUME CallsInv, KeysAreUnique, NEW w \in Workers, Sure(w), InventoryStep(w),
         call[w].kind = "blacklist", AbleBlacklist(call[w], Db)
  PROVE  /\ AbleBlacklist(call'[w], Db)
         /\ \/ \E name, rows, next : Keep(w, name, rows, next)
            \/ \E data : Answer(w, data)
<1>1. ReadBlacklist(w) \/ VariantsOfBlacklist(w)
  BY DEF InventoryStep, InventoryRead, CheckPlacements, HistsOfPlacements, RacksOfPlacements,
     VariantsOfPlacements, ProductsOfPlacements, CheckPlacementsIDs, HistsOfIDs, SkusOfIDs,
     RacksOfIDs, VariantsOfIDs, ProductsOfIDs, CountProducts, PageProducts, ProductsOfPage,
     VariantsOfPage, CountSkus, PageSkus, ProductsOfSkus, SkusByIDs, ProductsByIDs,
     VariantsByIDs, AddToBlacklist, RemoveFromBlacklist, At
<1>2. CASE ReadBlacklist(w)
  <2> DEFINE rows == {[sku |-> s, listed |-> s.id \in blacklist] :
                        s \in WithIds(Db.skus, Pay(w).skus)}
  <2>1. Keep(w, "skus", rows, "variants")
    BY <1>2 DEF ReadBlacklist
  <2>2. \A r \in rows : HasSku(Db, r.sku) /\ r.sku.id \in call[w].pay.skus
    BY DEF HasSku, WithIds, Pay
  <2> HIDE DEF rows
  <2>3. /\ "skus" \in DOMAIN call'[w].got /\ call'[w].got["skus"] = rows
        /\ call'[w].pay = call[w].pay
    BY <2>1, Kept
  <2> QED BY <2>1, <2>2, <2>3 DEF AbleBlacklist
<1>3. CASE VariantsOfBlacklist(w)
  <2> DEFINE variants == WithIds(Db.variants, {r.sku.variant : r \in Got(w).skus})
  <2>1. \A r \in Got(w).skus : HasSku(Db, r.sku) /\ r.sku.id \in Pay(w).skus
    BY <1>3 DEF VariantsOfBlacklist, At, AbleBlacklist, Got, Pay
  <2>2. \A r \in Got(w).skus : r.sku.variant \in Ids(Db.variants)
    BY <2>1, SureSku
  <2>3. \A r \in Got(w).skus : r.sku.variant \in Ids(variants)
    BY <2>2 DEF Ids, WithIds
  <2>4. \E data : Answer(w, data)
    BY <1>3, <2>3 DEF VariantsOfBlacklist
  <2> QED BY <2>4, AnswerDone DEF AbleBlacklist
<1> QED BY <1>1, <1>2, <1>3

\* The lists of teams and racks read what there is.
LEMMA SureTeams ==
  ASSUME NEW w \in Workers, ListStep(w), call[w].kind \in {"selling_teams", "team_racks"}
  PROVE  \/ \E name, rows, next : Keep(w, name, rows, next)
         \/ \E data : Answer(w, data)
<1>1. CountTeams(w) \/ PageTeams(w) \/ TeamRackList(w)
  BY DEF ListStep, ReadReturnInfo, ReturnWarehouse, ReturnUser, At
<1> QED BY <1>1 DEF CountTeams, PageTeams, TeamRackList

-----------------------------------------------------------------------------
(* Every step. *)

\* A statement of a call that is to be answered leaves it so.
LEMMA AbleStep ==
  ASSUME CallsInv, KeysAreUnique, NEW w \in Workers, Sure(w), Able(call[w], Db),
         Serve(w) \/ Fail(w)
  PROVE  Able(call'[w], Db)
<1>1. Goes(w)
  BY OutboundGoes, InventoryGoes, ListGoes, RegistryGoes, NotesGo DEF Serve, Fail, RegistryStep
<1>2. call'[w].kind = call[w].kind
  BY <1>1, Gone
<1>3. call[w].kind \in {"list", "detail_ids", "by_product", "order_search", "placements",
                        "placement_ids", "product_list", "sku_list", "sku_ids", "blacklist",
                        "selling_teams", "team_racks"}
  BY SureNow
<1>4. call[w].answer.tag \in {"none", "ok"}
  BY DEF Able
<1>5. CASE OutboundStep(w)
  <2>1. call[w].kind \in {"list", "detail_ids", "by_product", "order_search"}
    BY <1>3, <1>5, OutboundGoes
  <2>2. CASE call[w].kind = "detail_ids"
    <3>1. AbleDetailIDs(call[w], Db)
      BY <2>2 DEF Able
    <3> QED BY <1>2, <1>4, <1>5, <2>2, <3>1, SureDetailIDs, NoError DEF Able
  <2>3. CASE call[w].kind # "detail_ids"
    BY <1>2, <1>4, <1>5, <2>1, <2>3, SureList, NoError DEF Able
  <2> QED BY <2>2, <2>3
<1>6. CASE InventoryStep(w)
  <2>1. call[w].kind \in {"placements", "placement_ids", "product_list", "sku_list", "sku_ids",
                          "blacklist"}
    BY <1>3, <1>6, InventoryGoes
  <2>2. CASE call[w].kind = "placements"
    <3>1. AblePlacements(call[w], Db)
      BY <2>2 DEF Able
    <3> QED BY <1>2, <1>4, <1>6, <2>2, <3>1, SurePlacements, NoError DEF Able
  <2>3. CASE call[w].kind = "placement_ids"
    <3>1. AblePlacementIDs(call[w], Db)
      BY <2>3 DEF Able
    <3> QED BY <1>2, <1>4, <1>6, <2>3, <3>1, SurePlacementIDs, NoError DEF Able
  <2>4. CASE call[w].kind \in {"product_list", "sku_list"}
    <3>1. AblePage(call[w], Db)
      BY <2>4 DEF Able
    <3> QED BY <1>2, <1>4, <1>6, <2>4, <3>1, SurePage, NoError DEF Able
  <2>5. CASE call[w].kind = "sku_ids"
    <3>1. AbleSkus(call[w], Db)
      BY <2>5 DEF Able
    <3> QED BY <1>2, <1>4, <1>6, <2>5, <3>1, SureSkus, NoError DEF Able
  <2>6. CASE call[w].kind = "blacklist"
    <3>1. AbleBlacklist(call[w], Db)
      BY <2>6 DEF Able
    <3> QED BY <1>2, <1>4, <1>6, <2>6, <3>1, SureBlacklist, NoError DEF Able
  <2> QED BY <2>1, <2>2, <2>3, <2>4, <2>5, <2>6
<1>7. CASE ListStep(w)
  <2>1. call[w].kind \in {"selling_teams", "team_racks"}
    BY <1>3, <1>7, ListGoes
  <2> QED BY <1>2, <1>4, <1>7, <2>1, SureTeams, NoError DEF Able
<1>8. CASE ~OutboundStep(w) /\ ~InventoryStep(w) /\ ~ListStep(w)
  <2>1. RegistryStep(w) \/ NotesStep(w) \/ FailCreate(w) \/ FailNotes(w)
    BY <1>8 DEF Serve, Fail
  <2>2. CASE RegistryRead(w)
    <3>1. call[w].kind \in {"warehouse_detail", "warehouse_ids", "warehouse_list", "fee"}
      BY <2>2 DEF RegistryRead, WarehouseDetail, WarehouseIDs, WarehouseList, GetWarehouseFee, At
    <3> QED BY <1>3, <3>1
  <2>3. CASE CreateStep(w) \/ UpdateWarehouse(w) \/ DeleteWarehouse(w) \/ FailCreate(w)
    BY <1>3, <2>3, RegistryGoes
  <2>4. CASE NotesStep(w) \/ FailNotes(w)
    BY <1>3, <2>4, NotesGo
  <2> QED BY <2>1, <2>2, <2>3, <2>4 DEF RegistryStep
<1> QED BY <1>5, <1>6, <1>7, <1>8

\* What a call has read stays in the tables when another service commits.
LEMMA AbleLater ==
  ASSUME RowsStay, NEW i \in DOMAIN History, NEW j \in DOMAIN History, i <= j, NEW c,
         Able(c, History[i])
  PROVE  Able(c, History[j])
<1>1. /\ Ids(History[i].txs) \subseteq Ids(History[j].txs)
      /\ History[i].hists \subseteq History[j].hists
  BY DEF RowsStay
<1>2. ASSUME NEW s, HasSku(History[i], s)
      PROVE  HasSku(History[j], s)
  <2>1. PICK u \in History[i].skus : /\ u.id = s.id /\ u.warehouse = s.warehouse
                                     /\ u.product = s.product /\ u.variant = s.variant
    BY <1>2 DEF HasSku
  <2>2. HasSku(History[j], u)
    BY <2>1 DEF RowsStay
  <2> QED BY <2>1, <2>2 DEF HasSku
<1>3. AbleDetailIDs(c, History[i]) => AbleDetailIDs(c, History[j])
  BY <1>1 DEF AbleDetailIDs
<1>4. AblePlacements(c, History[i]) => AblePlacements(c, History[j])
  BY <1>1 DEF AblePlacements
<1>5. AblePlacementIDs(c, History[i]) => AblePlacementIDs(c, History[j])
  BY <1>1 DEF AblePlacementIDs
<1>6. AblePage(c, History[i]) => AblePage(c, History[j])
  BY <1>2 DEF AblePage
<1>7. AbleSkus(c, History[i]) => AbleSkus(c, History[j])
  BY <1>2 DEF AbleSkus
<1>8. AbleBlacklist(c, History[i]) => AbleBlacklist(c, History[j])
  BY <1>2 DEF AbleBlacklist
<1> QED BY <1>3, <1>4, <1>5, <1>6, <1>7, <1>8 DEF Able

\* A call that is entered has read nothing yet.
LEMMA AbleEntered == \A r, d : Able(Entered(r), d)
BY DEF Able, AbleDetailIDs, AblePlacements, AblePlacementIDs, AblePage, AbleSkus, AbleBlacklist,
   Entered, NoAnswer

\* Whether a call is sure is up to its request.
LEMMA SureKept ==
  ASSUME NEW w, call'[w].kind = call[w].kind, call'[w].source = call[w].source,
         call'[w].pay = call[w].pay, Sure(w)'
  PROVE  Sure(w)
BY DEF Sure, MayRead, Complete, Pay, From, TeamOf, Moments

\* Every step leaves the calls that are to be answered so.
LEMMA AnswerNext ==
  ASSUME CallsInv, KeysAreUnique, RowsStay, AnswerInv, [Next]_vars
  PROVE  AnswerInv'
<1>1. CASE UNCHANGED <<now, call>>
  <2>1. \A w \in Workers : Sure(w)' => Sure(w)
    BY <1>1, SureKept
  <2>2. Db' = Db
    BY <1>1 DEF Db
  <2> QED BY <1>1, <2>1, <2>2 DEF AnswerInv
<1>2. CASE \E w \in Workers : Serve(w) \/ Fail(w)
  <2>1. PICK w \in Workers : Serve(w) \/ Fail(w)
    BY <1>2
  <2>2. Goes(w) /\ call[w].kind # "none"
    BY <2>1, OutboundGoes, InventoryGoes, ListGoes, RegistryGoes, NotesGo
       DEF Serve, Fail, RegistryStep
  <2>3. /\ \A v \in Workers \ {w} : call'[v] = call[v]
        /\ call'[w].kind = call[w].kind /\ call'[w].source = call[w].source
        /\ call'[w].pay = call[w].pay
        /\ now' = now
    BY <2>2, Gone
  <2>4. Db' = Db
    BY <2>3 DEF Db
  <2>5. \A v \in Workers : Sure(v)' => Sure(v)
    BY <2>3, SureKept
  <2>6. call[w] # Idle
    BY <2>2 DEF Idle
  <2>7. Sure(w) => Able(call'[w], Db)
    BY <2>1, <2>6, AbleStep DEF AnswerInv
  <2>8. \A v \in Workers : call'[v] # Idle /\ Sure(v)' => Able(call'[v], Db)
    BY <2>3, <2>5, <2>7 DEF AnswerInv
  <2> QED BY <2>4, <2>8 DEF AnswerInv
<1>3. CASE \E w \in Workers : Between(w)
  <2>1. PICK w \in Workers : Between(w)
    BY <1>3
  <2>2. /\ \A v \in Workers \ {w} : call'[v] = call[v]
        /\ call'[w] = Idle \/ \E r : call'[w] = Entered(r)
        /\ now' = now
    <3>1. /\ \/ call' = [call EXCEPT ![w] = Idle]
             \/ \E r : call' = [call EXCEPT ![w] = Entered(r)]
          /\ now' = now
      BY <2>1 DEF Between, Return, Accept, Entered
    <3> QED BY <3>1 DEF CallsInv
  <2>3. Db' = Db
    BY <2>2 DEF Db
  <2>4. \A v \in Workers \ {w} : Sure(v)' => Sure(v)
    BY <2>2, SureKept
  <2>5. \A v \in Workers : call'[v] # Idle /\ Sure(v)' => Able(call'[v], Db)
    BY <2>2, <2>4, AbleEntered DEF AnswerInv
  <2> QED BY <2>3, <2>5 DEF AnswerInv
<1>4. CASE Change
  <2>1. call' = call /\ now' = now + 1 /\ now \in DOMAIN History /\ now' \in DOMAIN History
    BY <1>4, LoadStep DEF Change, CallsInv
  <2>2. now <= now'
    <3>1. now \in 1 .. Len(History) /\ now' = now + 1
      BY <1>4 DEF Change, CallsInv
    <3> QED BY <3>1
  <2>3. \A w \in Workers : Sure(w)' => Sure(w)
    BY <2>1, SureKept
  <2>4. \A w \in Workers : Able(call[w], History[now]) => Able(call[w], History[now'])
    BY <2>1, <2>2, AbleLater
  <2> QED BY <2>1, <2>3, <2>4 DEF AnswerInv, Db
<1>5. CASE UNCHANGED vars
  BY <1>1, <1>5 DEF vars, tableVars
<1> QED BY <1>2, <1>3, <1>4, <1>5 DEF Next

\* A call that may read and whose rows are complete in every content of the
\* tables is answered, as long as the other services take no rows away: no
\* commit between two of its statements makes it an error or a nil pointer.
THEOREM CompleteIsAnsweredHolds ==
  ASSUME KeysAreUnique, RowsStay
  PROVE  Spec => []CompleteIsAnswered
<1>1. Init => CallsInv /\ AnswerInv
  BY CallsInit DEF AnswerInv, Init, TablesInit
<1>2. CallsInv /\ AnswerInv /\ [Next]_vars => (CallsInv /\ AnswerInv)'
  BY CallsNext, AnswerNext
<1>3. CallsInv /\ AnswerInv => CompleteIsAnswered
  <2> SUFFICES ASSUME CallsInv, AnswerInv, NEW w \in Workers, call[w].pc = "done",
                      MayRead(w), \A i \in Moments : Complete(History[i], w)
               PROVE  call[w].answer.tag = "ok"
    BY DEF CompleteIsAnswered
  <2>1. Sure(w)
    BY DEF Sure
  <2>2. call[w] # Idle
    BY DEF Idle
  <2>3. Serving(call[w]) /\ Able(call[w], Db)
    BY <2>1, <2>2 DEF CallsInv, AnswerInv
  <2> QED BY <2>3 DEF Serving, Able
<1> QED BY <1>1, <1>2, <1>3, PTL DEF Spec

-----------------------------------------------------------------------------
(* The parts of an answer. *)

\* What the tables had at one time has every row that they always had, and none
\* that they never had.
LEMMA ReadsJoin ==
  ASSUME NEW i \in Moments
  PROVE  /\ \A t : t.items = ItemsOf(History[i], {t.tx.id}) => ItemsJoined(t)
         /\ \A r : r.variant = WithIds(History[i].variants, {r.sku.variant}) => VariantJoined(r)
         /\ \A r : r.product = WithIds(History[i].products, {r.sku.product}) => ProductJoined(r)
<1>1. ASSUME NEW t, t.items = ItemsOf(History[i], {t.tx.id})
      PROVE  ItemsJoined(t)
  <2> DEFINE Rows_(d) == ItemsOf(d, {t.tx.id})
  <2>1. Joined(Rows_(History[i]), Rows_)
    <3> HIDE DEF Rows_
    <3> QED BY DEF Joined, Always, Ever
  <2> QED BY <1>1, <2>1 DEF ItemsJoined, Joined, Always, Ever
<1>2. ASSUME NEW r, r.variant = WithIds(History[i].variants, {r.sku.variant})
      PROVE  VariantJoined(r)
  BY <1>2 DEF VariantJoined, Joined, Always, Ever
<1>3. ASSUME NEW r, r.product = WithIds(History[i].products, {r.sku.product})
      PROVE  ProductJoined(r)
  BY <1>3 DEF ProductJoined, Joined, Always, Ever
<1> QED BY <1>1, <1>2, <1>3

\* Two rows of a part that had one row only are the same.
LEMMA AtMostOne ==
  ASSUME NEW rows, IsFiniteSet(rows), Cardinality(rows) <= 1
  PROVE  \A x, y \in rows : x = y
<1> SUFFICES ASSUME NEW x \in rows, NEW y \in rows, x # y PROVE FALSE
  OBVIOUS
<1>1. IsFiniteSet({x}) /\ Cardinality({x}) = 1
  BY FS_Singleton
<1>2. IsFiniteSet({x} \cup {y}) /\ Cardinality({x} \cup {y}) = 2
  <2>1. /\ IsFiniteSet({x} \cup {y})
        /\ Cardinality({x} \cup {y}) =
             IF y \in {x} THEN Cardinality({x}) ELSE Cardinality({x}) + 1
    BY <1>1, FS_AddElement
  <2> QED BY <1>1, <2>1
<1>3. {x} \cup {y} \subseteq rows
  OBVIOUS
<1>4. Cardinality({x} \cup {y}) <= Cardinality(rows)
  BY <1>3, FS_Subset
<1>5. Cardinality(rows) \in Nat
  BY FS_CardinalityType
<1> QED BY <1>2, <1>4, <1>5

\* What a table had at some time is finite when it was so each time.
LEMMA EverFinite ==
  ASSUME NEW f, DOMAIN f = Moments, \A i \in Moments : IsFiniteSet(f[i])
  PROVE  IsFiniteSet(UNION {f[i] : i \in Moments})
<1>1. IsFiniteSet(Moments)
  BY ServiceAssumption, FS_Interval DEF Moments
<1>2. IsFiniteSet({f[i] : i \in Moments})
  <2> DEFINE S == {f[i] : i \in Moments}
             g == [i \in Moments |-> f[i]]
  <2>1. g \in Surjection(Moments, S)
    BY DEF Surjection
  <2> HIDE DEF S, g
  <2>2. IsFiniteSet(S)
    BY <1>1, <2>1, FS_Surjection
  <2> QED BY <2>2 DEF S
<1> QED BY <1>2, FS_UNION

\* A part that had one row at most had the same row whenever it had one.
LEMMA OneOf ==
  ASSUME NEW f, DOMAIN f = Moments, \A i \in Moments : IsFiniteSet(f[i]),
         Cardinality(UNION {f[i] : i \in Moments}) <= 1,
         NEW i \in Moments, NEW j \in Moments, NEW x \in f[i], NEW y \in f[j]
  PROVE  x = y
<1> DEFINE rows == UNION {f[k] : k \in Moments}
<1>1. IsFiniteSet(rows) /\ x \in rows /\ y \in rows
  BY EverFinite
<1> HIDE DEF rows
<1> QED BY <1>1, AtMostOne DEF rows

\* A transaction that had one order at most.
Single(id) == One(LAMBDA d : OrdersOfTx(id, d))

\* Whenever such a transaction had an order it was the same.
LEMMA OneOrder ==
  ASSUME NEW id, Single(id), NEW i \in Moments, NEW j \in Moments,
         NEW o \in OrdersOfTx(id, History[i]), NEW p \in OrdersOfTx(id, History[j])
  PROVE  o = p
<1> DEFINE f == [k \in Moments |-> OrdersOfTx(id, History[k])]
<1>1. \A k \in Moments : IsFiniteSet(f[k])
  BY OutboundAssumption, FS_Subset DEF OrdersOfTx, Moments
<1>2. Cardinality(UNION {f[k] : k \in Moments}) <= 1
  BY DEF Single, One, Ever
<1>3. DOMAIN f = Moments /\ o \in f[i] /\ p \in f[j]
  OBVIOUS
<1> HIDE DEF f
<1> QED BY <1>1, <1>2, <1>3, OneOf

\* An order that was read belongs to its transaction.
LEMMA OrderJoins ==
  ASSUME NEW r, NEW i \in Moments,
         \A o \in r.order : o \in OrdersOfTx(r.tx.id, History[i]),
         Single(r.tx.id) /\ OrdersOfTx(r.tx.id, History[i]) # {}
           => r.order # {}
  PROVE  OrderJoined(r)
<1> DEFINE Orders(d) == OrdersOfTx(r.tx.id, d)
<1>1. SUFFICES ASSUME One(Orders)
               PROVE  Joined(r.order, Orders)
  BY DEF OrderJoined, JoinedOne
<1>2. ASSUME NEW o \in Always(Orders)
      PROVE  o \in r.order
  <2>1. o \in OrdersOfTx(r.tx.id, History[i])
    BY <1>2 DEF Always
  <2>2. Single(r.tx.id)
    BY <1>1 DEF Single
  <2>3. PICK p \in r.order : p \in OrdersOfTx(r.tx.id, History[i])
    BY <2>1, <2>2
  <2>4. o = p
    <3> HIDE DEF Orders
    <3> QED BY <2>1, <2>2, <2>3, OneOrder
  <2> QED BY <2>3, <2>4
<1>3. r.order \subseteq Ever(Orders)
  BY DEF Ever
<1> HIDE DEF Orders
<1> QED BY <1>2, <1>3 DEF Joined

\* The customer that r is given from the rows that were found for some orders.
CustomerFrom(r, orders, customers) ==
  /\ \A c \in r.customer :
       c \in customers /\ \E o \in orders : o.id = c.order /\ o.tx = r.tx.id
  /\ Single(r.tx.id) /\ (\E c \in customers, o \in orders : o.id = c.order /\ o.tx = r.tx.id)
       => r.customer # {}

\* The customer of a listed transaction is of an order of it.
LEMMA CustomerJoins ==
  ASSUME NEW r, NEW j \in Moments, NEW k \in Moments, NEW orders,
         OrdersOfTx(r.tx.id, History[j]) \subseteq orders, orders \subseteq History[j].orders,
         CustomerFrom(r, orders, History[k].customers)
  PROVE  CustomerJoined(r)
<1> DEFINE Orders(d) == OrdersOfTx(r.tx.id, d)
           Addresses(d) == AddressesOf(Ever(Orders), d)
           Ordered(d) == AddressesOf(Orders(d), d)
<1>1. SUFFICES ASSUME One(Orders), One(Addresses)
               PROVE  Always(Ordered) \subseteq r.customer /\ r.customer \subseteq Ever(Addresses)
  BY DEF CustomerJoined
<1>2. ASSUME NEW c \in History[k].customers, NEW o \in orders, o.id = c.order, o.tx = r.tx.id
      PROVE  c \in Addresses(History[k])
  <2>1. o \in Orders(History[j])
    BY <1>2 DEF OrdersOfTx
  <2>2. o \in Ever(Orders)
    BY <2>1 DEF Ever
  <2> HIDE DEF Orders
  <2>3. c.order \in Ids(Ever(Orders))
    BY <1>2, <2>2 DEF Ids
  <2> QED BY <2>3 DEF AddressesOf
<1>3. \A c \in r.customer : c \in Addresses(History[k])
  <2> HIDE DEF Addresses
  <2> QED BY <1>2 DEF CustomerFrom
<1>4. r.customer \subseteq Ever(Addresses)
  <2> HIDE DEF Addresses
  <2> QED BY <1>3 DEF Ever
<1>5. ASSUME NEW c \in Always(Ordered)
      PROVE  c \in r.customer
  <2>1. c \in Ordered(History[j]) /\ c \in Ordered(History[k])
    <3> HIDE DEF Ordered
    <3> QED BY DEF Always
  <2>2. PICK o \in orders : o.id = c.order /\ o.tx = r.tx.id
    BY <2>1 DEF AddressesOf, OrdersOfTx, Ids
  <2>3. c \in History[k].customers
    BY <2>1 DEF AddressesOf
  <2>4. c \in Addresses(History[k])
    <3> HIDE DEF Addresses, Ordered, Orders
    <3> QED BY <1>2, <2>2, <2>3
  <2>5. Single(r.tx.id)
    BY <1>1 DEF Single
  <2>6. PICK b \in r.customer : TRUE
    BY <2>2, <2>3, <2>5 DEF CustomerFrom
  <2> DEFINE f == [i \in Moments |-> Addresses(History[i])]
  <2>7. \A i \in Moments : IsFiniteSet(f[i])
    <3>1. \A i \in Moments : f[i] \subseteq History[i].customers
      BY DEF AddressesOf
    <3> HIDE DEF f, Addresses
    <3> QED BY <3>1, OutboundAssumption, FS_Subset DEF Moments
  <2>8. Cardinality(UNION {f[i] : i \in Moments}) <= 1
    <3>1. Cardinality(Ever(Addresses)) <= 1
      BY <1>1 DEF One
    <3> HIDE DEF Addresses
    <3> QED BY <3>1 DEF Ever
  <2>9. DOMAIN f = Moments /\ b \in f[k] /\ c \in f[k]
    <3> HIDE DEF Addresses
    <3> QED BY <1>3, <2>4
  <2>10. b = c
    <3> HIDE DEF f
    <3> QED BY <2>7, <2>8, <2>9, OneOf
  <2> QED BY <2>10
<1> HIDE DEF Addresses, Ordered
<1> QED BY <1>4, <1>5

-----------------------------------------------------------------------------
(* The parts of a list. *)

TxIds(page) == {r.tx.id : r \in page}

\* What a list has read so far is what the tables had for its page.
PartsList(c) ==
  /\ c.pc \in {"items", "orders", "customers"} =>
       /\ "page" \in DOMAIN c.got
       /\ \E i \in Moments : c.got.page \subseteq ListRows(History[i], c.pay, c.source.team)
  /\ c.pc \in {"orders", "customers"} =>
       /\ "items" \in DOMAIN c.got
       /\ \E i \in Moments : c.got.items = ItemsOf(History[i], TxIds(c.got.page))
  /\ c.pc = "customers" =>
       /\ "orders" \in DOMAIN c.got
       /\ \E i \in Moments :
            c.got.orders = {o \in History[i].orders : o.tx \in TxIds(c.got.page)}
  /\ AnsweredIn(c) =>
       \A r \in c.answer.data : ItemsJoined(r) /\ OrderJoined(r) /\ CustomerJoined(r)

\* A page has one row for a transaction that had one order at most.
LEMMA OneRowOnPage ==
  ASSUME KeysAreUnique, NEW i \in Moments, NEW f, NEW warehouse,
         NEW q \in ListRows(History[i], f, warehouse),
         NEW r \in ListRows(History[i], f, warehouse), q.tx.id = r.tx.id,
         Single(r.tx.id)
  PROVE  q = r
<1> DEFINE db == History[i]
           txs == Listed(db, f, warehouse)
<1>1. txs \subseteq db.txs
  BY DEF Listed
<1>2. \A t, u \in txs : t.id = u.id => t = u
  BY <1>1 DEF KeysAreUnique, Moments
<1> HIDE DEF txs
<1>3. CASE f.sort = "deadline"
  <2> DEFINE way == IF f.asc THEN -1 ELSE 1
             E(p) == [tx |-> p[1], order |-> p[2].id, key |-> way * p[2].deadline]
  <2>1. ListRows(db, f, warehouse) =
          {E(p) : p \in {p \in txs \X db.orders : p[2].tx = p[1].id /\ p[2].deadline # 0}}
    BY <1>3 DEF ListRows, txs
  <2>2. PICK x \in txs \X db.orders : x[2].tx = x[1].id /\ q = E(x)
    BY <2>1
  <2>3. PICK y \in txs \X db.orders : y[2].tx = y[1].id /\ r = E(y)
    BY <2>1
  <2>4. E(x).tx = x[1] /\ E(y).tx = y[1]
    OBVIOUS
  <2>5. x[1] = y[1]
    BY <1>2, <2>2, <2>3, <2>4
  <2>6. x[2] \in OrdersOfTx(r.tx.id, History[i]) /\ y[2] \in OrdersOfTx(r.tx.id, History[i])
    BY <2>2, <2>3, <2>4 DEF OrdersOfTx
  <2>7. x[2] = y[2]
    <3> HIDE DEF E
    <3> QED BY <2>6, OneOrder
  <2>8. x = y
    BY <2>5, <2>7
  <2> HIDE DEF E
  <2> QED BY <2>2, <2>3, <2>8
<1>4. CASE f.sort # "deadline"
  <2> DEFINE way == IF f.asc THEN -1 ELSE 1
             T(t) == [tx |-> t, order |-> 0, key |-> way * t.created]
             D(t) == [tx |-> t, order |-> 0, key |-> t.id]
  <2>1. \/ ListRows(db, f, warehouse) = {T(t) : t \in txs}
        \/ ListRows(db, f, warehouse) = {D(t) : t \in txs}
    BY <1>4 DEF ListRows, txs
  <2>2. \A t : T(t).tx = t /\ D(t).tx = t
    OBVIOUS
  <2> HIDE DEF T, D
  <2> QED BY <1>2, <2>1, <2>2
<1> QED BY <1>3, <1>4

\* The maps of a list: the row, the order and the customer of a transaction.
ListMaps(page, orders, customers, row, extra, who) ==
  /\ row \in [TxIds(page) -> page] /\ \A t \in TxIds(page) : row[t].tx.id = t
  /\ extra \in [{o.tx : o \in orders} -> orders] /\ \A t \in DOMAIN extra : extra[t].tx = t
  /\ \A t \in DOMAIN who : who[t] \in customers /\ \E o \in orders : o.id = who[t].order /\ o.tx = t
  /\ \A c \in customers, o \in orders : o.id = c.order => o.tx \in DOMAIN who

ListEntry(r, items, row, extra, who) ==
  [tx       |-> r.tx,
   items    |-> {n \in items : n.tx = r.tx.id},
   order    |-> IF r = row[r.tx.id] /\ r.tx.id \in DOMAIN extra THEN {extra[r.tx.id]} ELSE {},
   customer |-> IF r = row[r.tx.id] /\ r.tx.id \in DOMAIN who THEN {who[r.tx.id]} ELSE {}]

\* What a list has read, each from some content of the tables.
ListRead(page, items, orders, f, warehouse) ==
  /\ \E i \in Moments : page \subseteq ListRows(History[i], f, warehouse)
  /\ \E i \in Moments : items = ItemsOf(History[i], TxIds(page))
  /\ \E i \in Moments : orders = {o \in History[i].orders : o.tx \in TxIds(page)}

\* A row of a list has the parts of its own transaction.
LEMMA ListParts ==
  ASSUME KeysAreUnique, NEW k \in Moments, NEW f, NEW warehouse, NEW page, NEW items, NEW orders,
         ListRead(page, items, orders, f, warehouse), NEW row, NEW extra, NEW who,
         ListMaps(page, orders, History[k].customers, row, extra, who),
         NEW r \in page, NEW e, e = ListEntry(r, items, row, extra, who)
  PROVE  ItemsJoined(e) /\ OrderJoined(e) /\ CustomerJoined(e)
<1> DEFINE id == r.tx.id
<1>a. PICK m \in Moments : page \subseteq ListRows(History[m], f, warehouse)
  BY DEF ListRead
<1>b. PICK i \in Moments : items = ItemsOf(History[i], TxIds(page))
  BY DEF ListRead
<1>c. PICK j \in Moments : orders = {o \in History[j].orders : o.tx \in TxIds(page)}
  BY DEF ListRead
<1>1. id \in TxIds(page)
  BY DEF TxIds
<1>2. /\ e.tx = r.tx /\ e.items = {n \in items : n.tx = id}
      /\ e.order = IF r = row[id] /\ id \in DOMAIN extra THEN {extra[id]} ELSE {}
      /\ e.customer = IF r = row[id] /\ id \in DOMAIN who THEN {who[id]} ELSE {}
  BY DEF ListEntry
<1>3. /\ row \in [TxIds(page) -> page] /\ \A t \in TxIds(page) : row[t].tx.id = t
      /\ extra \in [{o.tx : o \in orders} -> orders] /\ \A t \in DOMAIN extra : extra[t].tx = t
  BY DEF ListMaps
<1>4. /\ \A t \in DOMAIN who : /\ who[t] \in History[k].customers
                              /\ \E o \in orders : o.id = who[t].order /\ o.tx = t
      /\ \A c \in History[k].customers, o \in orders : o.id = c.order => o.tx \in DOMAIN who
  BY DEF ListMaps
<1>5. OrdersOfTx(id, History[j]) \subseteq orders /\ orders \subseteq History[j].orders
  BY <1>1, <1>c DEF OrdersOfTx
<1>6. ItemsJoined(e)
  <2>1. e.items = ItemsOf(History[i], {e.tx.id})
    BY <1>1, <1>2, <1>b DEF ItemsOf
  <2> QED BY <2>1, ReadsJoin
<1>7. ASSUME Single(id)
      PROVE  r = row[id]
  <2>1. row[id] \in page /\ row[id].tx.id = id
    BY <1>1, <1>3
  <2>2. row[id] \in ListRows(History[m], f, warehouse) /\ r \in ListRows(History[m], f, warehouse)
    BY <2>1, <1>a
  <2> QED BY <1>7, <2>1, <2>2, OneRowOnPage
<1>8. OrderJoined(e)
  <2>1. \A o \in e.order : o \in OrdersOfTx(e.tx.id, History[j])
    <3>1. SUFFICES ASSUME id \in DOMAIN extra
                   PROVE  extra[id] \in OrdersOfTx(id, History[j])
      BY <1>2
    <3>2. extra[id] \in orders /\ extra[id].tx = id
      BY <1>3, <3>1
    <3> QED BY <3>2, <1>5 DEF OrdersOfTx
  <2>2. ASSUME Single(e.tx.id), OrdersOfTx(e.tx.id, History[j]) # {}
        PROVE  e.order # {}
    <3>1. PICK o \in orders : o.tx = id
      BY <1>2, <1>5, <2>2 DEF OrdersOfTx
    <3>2. id \in DOMAIN extra
      BY <1>3, <3>1
    <3> QED BY <1>2, <1>7, <2>2, <3>2
  <2> QED BY <2>1, <2>2, OrderJoins
<1>9. CustomerFrom(e, orders, History[k].customers)
  <2>1. \A c \in e.customer : /\ c \in History[k].customers
                              /\ \E o \in orders : o.id = c.order /\ o.tx = id
    BY <1>2, <1>4
  <2>2. ASSUME Single(id), NEW c \in History[k].customers, NEW o \in orders, o.id = c.order,
               o.tx = id
        PROVE  e.customer # {}
    <3>1. id \in DOMAIN who
      BY <1>4, <2>2
    <3> QED BY <1>2, <1>7, <2>2, <3>1
  <2> HIDE DEF id
  <2>3. e.tx.id = id
    BY <1>2 DEF id
  <2> QED BY <2>1, <2>2, <2>3 DEF CustomerFrom
<1>10. CustomerJoined(e)
  <2>1. OrdersOfTx(e.tx.id, History[j]) \subseteq orders
    BY <1>2, <1>5
  <2> QED BY <1>5, <1>9, <2>1, CustomerJoins
<1> QED BY <1>6, <1>8, <1>10

\* The statements of a list keep its parts together.
LEMMA PartsListStep ==
  ASSUME KeysAreUnique, CallsInv, NEW w \in Workers, call[w].kind = "list",
         PartsList(call[w]), OutboundStep(w)
  PROVE  PartsList(call'[w])
<1>1. \/ CountList(w) \/ PageList(w) \/ ItemsOfList(w) \/ OrdersOfList(w)
      \/ CustomersOfList(w)
  BY DEF OutboundStep, FindDetail, ItemsOfDetail, OrderOfDetail, CheckDetailIDs, LoadDetailIDs,
     ItemsOfDetailIDs, OrdersOfDetailIDs, CountByProduct, PageByProduct, SkusByProduct,
     VariantsByProduct, SearchOrders, TxsOfOrders, ItemsOfOrders, ReturnsOfOrders,
     ReturnedItems, CustomersOfOrders, At
<1> DEFINE c == call[w]
           d == call'[w]
<1> SUFFICES PartsList(d)
  OBVIOUS
<1>0. now \in Moments
  BY DEF CallsInv, Moments
<1>2. CASE Refuse(w)
  BY <1>2, Unanswered DEF PartsList, AnsweredIn
<1>3. CASE CountList(w) /\ ~Refuse(w)
  <2>1. PICK count : Keep(w, "count", count, "page")
    BY <1>3 DEF CountList
  <2>2. d.pc = "page"
    BY <2>1, Kept
  <2> QED BY <2>2 DEF PartsList, AnsweredIn
<1>4. CASE PageList(w) /\ ~Refuse(w)
  <2>1. PICK page \in Pages(ListRows(Db, Pay(w), TeamOf(w)), Pay(w).page) :
          Keep(w, "page", page, "items")
    BY <1>4 DEF PageList
  <2>2. /\ d.pc = "items" /\ d.pay = c.pay /\ d.source = c.source
        /\ "page" \in DOMAIN d.got /\ d.got["page"] = page
    BY <2>1, Kept
  <2>3. page \subseteq ListRows(History[now], c.pay, c.source.team)
    BY DEF Pages, Db, Pay, TeamOf
  <2> HIDE DEF c, d
  <2> QED BY <1>0, <2>2, <2>3 DEF PartsList, AnsweredIn
<1>5. CASE ItemsOfList(w)
  <2>1. c.pc = "items"
    BY <1>5 DEF ItemsOfList, At
  <2>2. /\ "page" \in DOMAIN c.got
        /\ \E i \in Moments : c.got.page \subseteq ListRows(History[i], c.pay, c.source.team)
    BY <2>1 DEF PartsList
  <2> DEFINE items == ItemsOf(Db, ListedIds(w))
  <2>3. Keep(w, "items", items, "orders")
    BY <1>5 DEF ItemsOfList
  <2>4. items = ItemsOf(History[now], TxIds(c.got.page))
    BY DEF Db, ListedIds, TxIds, Got
  <2> HIDE DEF items
  <2>5. /\ d.pc = "orders" /\ d.pay = c.pay /\ d.source = c.source
        /\ {"page", "items"} \subseteq DOMAIN d.got
        /\ d.got["page"] = c.got["page"] /\ d.got["items"] = items
    BY <2>2, <2>3, Kept
  <2> HIDE DEF c, d
  <2> QED BY <1>0, <2>2, <2>4, <2>5 DEF PartsList, AnsweredIn
<1>6. CASE OrdersOfList(w)
  <2>1. c.pc = "orders"
    BY <1>6 DEF OrdersOfList, At
  <2>2. /\ {"page", "items"} \subseteq DOMAIN c.got
        /\ \E i \in Moments : c.got.page \subseteq ListRows(History[i], c.pay, c.source.team)
        /\ \E i \in Moments : c.got.items = ItemsOf(History[i], TxIds(c.got.page))
    BY <2>1 DEF PartsList
  <2> DEFINE orders == {o \in Db.orders : o.tx \in ListedIds(w)}
  <2>3. Keep(w, "orders", orders, "customers")
    BY <1>6 DEF OrdersOfList
  <2>4. orders = {o \in History[now].orders : o.tx \in TxIds(c.got.page)}
    BY DEF Db, ListedIds, TxIds, Got
  <2> HIDE DEF orders
  <2>5. /\ d.pc = "customers" /\ d.pay = c.pay /\ d.source = c.source
        /\ {"page", "items", "orders"} \subseteq DOMAIN d.got
        /\ d.got["page"] = c.got["page"] /\ d.got["items"] = c.got["items"]
        /\ d.got["orders"] = orders
    BY <2>2, <2>3, Kept
  <2> HIDE DEF c, d
  <2> QED BY <1>0, <2>2, <2>4, <2>5 DEF PartsList, AnsweredIn
<1>7. CASE CustomersOfList(w)
  <2>1. c.pc = "customers"
    BY <1>7 DEF CustomersOfList, At
  <2> DEFINE page == c.got.page
             items == c.got.items
             orders == c.got.orders
             TxOf(a) == (CHOOSE o \in orders : o.id = a.order).tx
             customers == {a \in Db.customers : a.order \in Ids(orders)}
  <2>2. PICK m \in Moments : page \subseteq ListRows(History[m], c.pay, c.source.team)
    BY <2>1 DEF PartsList
  <2>3. PICK i \in Moments : items = ItemsOf(History[i], TxIds(page))
    BY <2>1 DEF PartsList
  <2>4. PICK j \in Moments : orders = {o \in History[j].orders : o.tx \in TxIds(page)}
    BY <2>1 DEF PartsList
  <2>5. PICK row \in LastWins(page, LAMBDA r : r.tx.id),
             extra \in LastWins(orders, LAMBDA o : o.tx),
             who \in LastWins(customers, TxOf) :
          Answer(w, {ListEntry(r, items, row, extra, who) : r \in page})
    BY <1>7 DEF CustomersOfList, Got, ListEntry
  <2>6. row \in [TxIds(page) -> page] /\ \A t \in TxIds(page) : row[t].tx.id = t
    BY DEF LastWins, TxIds
  <2>7. extra \in [{o.tx : o \in orders} -> orders] /\ \A t \in DOMAIN extra : extra[t].tx = t
    BY DEF LastWins
  <2>8. /\ who \in [{TxOf(a) : a \in customers} -> customers]
        /\ \A t \in DOMAIN who : TxOf(who[t]) = t
    <3> HIDE DEF TxOf, customers
    <3> QED BY DEF LastWins
  <2>9. ASSUME NEW a \in customers
        PROVE  /\ \E o \in orders : o.id = a.order /\ o.tx = TxOf(a)
               /\ \A o \in orders : o.id = a.order => o.tx = TxOf(a)
    <3>1. PICK o \in orders : o.id = a.order
      BY DEF Ids
    <3>2. \A p \in orders : p.id = o.id => p = o
      BY <2>4 DEF KeysAreUnique, Moments
    <3> QED BY <3>1, <3>2
  <2>10. \A t \in DOMAIN who : /\ who[t] \in History[now].customers
                               /\ \E o \in orders : o.id = who[t].order /\ o.tx = t
    <3> SUFFICES ASSUME NEW t \in DOMAIN who
                 PROVE  /\ who[t] \in History[now].customers
                        /\ \E o \in orders : o.id = who[t].order /\ o.tx = t
      OBVIOUS
    <3>1. who[t] \in customers /\ TxOf(who[t]) = t
      <4> HIDE DEF TxOf, customers
      <4> QED BY <2>8
    <3> HIDE DEF TxOf
    <3> QED BY <2>9, <3>1 DEF Db
  <2>11. \A a \in History[now].customers, o \in orders : o.id = a.order => o.tx \in DOMAIN who
    <3> SUFFICES ASSUME NEW a \in History[now].customers, NEW o \in orders, o.id = a.order
                 PROVE  o.tx \in DOMAIN who
      OBVIOUS
    <3>1. a \in customers
      BY DEF Db, Ids
    <3> HIDE DEF TxOf, customers
    <3> QED BY <2>8, <2>9, <3>1
  <2>12. ListMaps(page, orders, History[now].customers, row, extra, who)
    <3> HIDE DEF page, orders
    <3> QED BY <2>6, <2>7, <2>10, <2>11 DEF ListMaps
  <2> HIDE DEF page, items, orders
  <2>13. ASSUME NEW r \in page, NEW e, e = ListEntry(r, items, row, extra, who)
         PROVE  ItemsJoined(e) /\ OrderJoined(e) /\ CustomerJoined(e)
    <3> DEFINE f == c.pay
               warehouse == c.source.team
    <3>1. ListRead(page, items, orders, f, warehouse)
      BY <2>2, <2>3, <2>4 DEF ListRead
    <3> HIDE DEF c, d, f, warehouse
    <3> QED BY <1>0, <2>12, <2>13, <3>1, ListParts
  <2>14. d.pc = "done" /\ d.answer.data = {ListEntry(r, items, row, extra, who) : r \in page}
    BY <2>5, Ended DEF Answer
  <2> HIDE DEF c, d
  <2> QED BY <2>13, <2>14 DEF PartsList
<1> QED BY <1>1, <1>2, <1>3, <1>4, <1>5, <1>6, <1>7

-----------------------------------------------------------------------------
(* The parts of a detail. *)

\* What a detail has read so far is what the tables had for its transaction.
PartsDetail(c) ==
  /\ c.pc \in {"items", "order"} => "tx" \in DOMAIN c.got
  /\ c.pc = "order" =>
       /\ "items" \in DOMAIN c.got
       /\ \E i \in Moments : c.got.items = ItemsOf(History[i], {c.got.tx.id})
  /\ AnsweredIn(c) /\ c.pay.all => \A r \in c.answer.data : ItemsJoined(r) /\ OrderJoined(r)

\* A row with the items and an order of its transaction.
LEMMA DetailParts ==
  ASSUME NEW r, NEW i \in Moments, NEW j \in Moments,
         r.items = ItemsOf(History[i], {r.tx.id}),
         NEW o \in OrdersOfTx(r.tx.id, History[j]), r.order = {o}
  PROVE  ItemsJoined(r) /\ OrderJoined(r)
BY ReadsJoin, OrderJoins

\* The statements of a detail keep its parts together.
LEMMA PartsDetailStep ==
  ASSUME CallsInv, NEW w \in Workers, call[w].kind = "detail", PartsDetail(call[w]),
         OutboundStep(w)
  PROVE  PartsDetail(call'[w])
<1>1. FindDetail(w) \/ ItemsOfDetail(w) \/ OrderOfDetail(w)
  BY DEF OutboundStep, CountList, PageList, ItemsOfList, OrdersOfList, CustomersOfList,
     CheckDetailIDs, LoadDetailIDs, ItemsOfDetailIDs, OrdersOfDetailIDs, CountByProduct,
     PageByProduct, SkusByProduct, VariantsByProduct, SearchOrders, TxsOfOrders, ItemsOfOrders,
     ReturnsOfOrders, ReturnedItems, CustomersOfOrders, At
<1> DEFINE c == call[w]
           d == call'[w]
<1> SUFFICES PartsDetail(d)
  OBVIOUS
<1>0. now \in Moments
  BY DEF CallsInv, Moments
<1>2. CASE Refuse(w)
  BY <1>2, Unanswered DEF PartsDetail, AnsweredIn
<1>3. CASE FindDetail(w) /\ ~Refuse(w)
  <2>1. \/ \E t : Keep(w, "tx", t, "items")
        \/ ~Pay(w).all /\ \E data : Answer(w, data)
    BY <1>3 DEF FindDetail
  <2>2. ASSUME NEW t, Keep(w, "tx", t, "items")
        PROVE  PartsDetail(d)
    <3>1. d.pc = "items" /\ "tx" \in DOMAIN d.got
      BY <2>2, Kept
    <3> HIDE DEF d
    <3> QED BY <3>1 DEF PartsDetail, AnsweredIn
  <2>3. ASSUME NEW data, Answer(w, data), ~Pay(w).all
        PROVE  PartsDetail(d)
    <3>1. d.pc = "done" /\ ~d.pay.all
      BY <2>3, Ended DEF Answer, Pay
    <3> HIDE DEF d
    <3> QED BY <3>1 DEF PartsDetail
  <2> QED BY <2>1, <2>2, <2>3
<1>4. CASE ItemsOfDetail(w)
  <2>1. "tx" \in DOMAIN c.got
    BY <1>4 DEF ItemsOfDetail, At, PartsDetail
  <2> DEFINE items == ItemsOf(Db, {Got(w).tx.id})
  <2>2. Keep(w, "items", items, "order")
    BY <1>4 DEF ItemsOfDetail
  <2>3. items = ItemsOf(History[now], {c.got.tx.id})
    BY DEF Db, Got
  <2> HIDE DEF items
  <2>4. /\ d.pc = "order" /\ {"tx", "items"} \subseteq DOMAIN d.got
        /\ d.got["tx"] = c.got["tx"] /\ d.got["items"] = items
    BY <2>1, <2>2, Kept
  <2> HIDE DEF c, d
  <2> QED BY <1>0, <2>3, <2>4 DEF PartsDetail, AnsweredIn
<1>5. CASE OrderOfDetail(w) /\ ~Refuse(w)
  <2> DEFINE t == c.got.tx
             orders == {o \in Db.orders : o.tx = t.id}
             first == CHOOSE o \in orders : \A u \in orders : o.id <= u.id
             r == [tx |-> t, items |-> c.got.items, order |-> {first}]
  <2>1. orders # {} /\ Answer(w, {r})
    BY <1>5 DEF OrderOfDetail, Got
  <2>2. \A o \in orders : o.id \in Nat /\ o \in OrdersOfTx(t.id, History[now])
    BY OutboundAssumption DEF Db, OrdersOfTx, CallsInv
  <2>3. first \in orders
    <3> HIDE DEF orders
    <3>1. \E o \in orders : \A u \in orders : o.id <= u.id
      BY <2>1, <2>2, FirstRow
    <3> QED BY <3>1
  <2>4. PICK i \in Moments : c.got.items = ItemsOf(History[i], {t.id})
    BY <1>5 DEF OrderOfDetail, At, PartsDetail
  <2>5. first \in OrdersOfTx(t.id, History[now])
    BY <2>2, <2>3
  <2> HIDE DEF first
  <2>6. r.tx = t /\ r.items = c.got.items /\ r.order = {first}
    OBVIOUS
  <2> HIDE DEF r, t, c
  <2>7. ItemsJoined(r) /\ OrderJoined(r)
    BY <1>0, <2>4, <2>5, <2>6, DetailParts
  <2>8. d.pc = "done" /\ d.answer.data = {r}
    BY <2>1, Ended DEF Answer
  <2> HIDE DEF d
  <2> QED BY <2>7, <2>8 DEF PartsDetail
<1> QED BY <1>1, <1>2, <1>3, <1>4, <1>5

\* What a detail of several transactions has read so far.
PartsDetailIDs(c) ==
  /\ c.pc \in {"items", "orders"} => "txs" \in DOMAIN c.got
  /\ c.pc = "orders" =>
       /\ "items" \in DOMAIN c.got
       /\ \E i \in Moments : c.got.items = ItemsOf(History[i], Ids(c.got.txs))
  /\ AnsweredIn(c) /\ c.pay.all => \A r \in c.answer.data : ItemsJoined(r) /\ OrderJoined(r)

\* The statements of a detail of several transactions keep its parts together.
LEMMA PartsDetailIDsStep ==
  ASSUME CallsInv, NEW w \in Workers, call[w].kind = "detail_ids", PartsDetailIDs(call[w]),
         OutboundStep(w)
  PROVE  PartsDetailIDs(call'[w])
<1>1. CheckDetailIDs(w) \/ LoadDetailIDs(w) \/ ItemsOfDetailIDs(w) \/ OrdersOfDetailIDs(w)
  BY DEF OutboundStep, CountList, PageList, ItemsOfList, OrdersOfList, CustomersOfList,
     FindDetail, ItemsOfDetail, OrderOfDetail, CountByProduct,
     PageByProduct, SkusByProduct, VariantsByProduct, SearchOrders, TxsOfOrders, ItemsOfOrders,
     ReturnsOfOrders, ReturnedItems, CustomersOfOrders, At
<1> DEFINE c == call[w]
           d == call'[w]
<1> SUFFICES PartsDetailIDs(d)
  OBVIOUS
<1>0. now \in Moments
  BY DEF CallsInv, Moments
<1>2. CASE Refuse(w) \/ Panic(w)
  BY <1>2, Unanswered DEF PartsDetailIDs, AnsweredIn
<1>3. CASE CheckDetailIDs(w) /\ ~Refuse(w)
  <2>1. PICK rows : Keep(w, "checked", rows, "load")
    BY <1>3 DEF CheckDetailIDs
  <2>2. d.pc = "load"
    BY <2>1, Kept
  <2> HIDE DEF d
  <2> QED BY <2>2 DEF PartsDetailIDs, AnsweredIn
<1>4. CASE LoadDetailIDs(w) /\ ~Refuse(w)
  <2>1. \/ \E txs : Keep(w, "txs", txs, "items")
        \/ ~Pay(w).all /\ \E data : Answer(w, data)
    BY <1>4 DEF LoadDetailIDs
  <2>2. ASSUME NEW txs, Keep(w, "txs", txs, "items")
        PROVE  PartsDetailIDs(d)
    <3>1. d.pc = "items" /\ "txs" \in DOMAIN d.got
      BY <2>2, Kept
    <3> HIDE DEF d
    <3> QED BY <3>1 DEF PartsDetailIDs, AnsweredIn
  <2>3. ASSUME NEW data, Answer(w, data), ~Pay(w).all
        PROVE  PartsDetailIDs(d)
    <3>1. d.pc = "done" /\ ~d.pay.all
      BY <2>3, Ended DEF Answer, Pay
    <3> HIDE DEF d
    <3> QED BY <3>1 DEF PartsDetailIDs
  <2> QED BY <2>1, <2>2, <2>3
<1>5. CASE ItemsOfDetailIDs(w)
  <2>1. "txs" \in DOMAIN c.got
    BY <1>5 DEF ItemsOfDetailIDs, At, PartsDetailIDs
  <2> DEFINE items == ItemsOf(Db, Ids(Got(w).txs))
  <2>2. Keep(w, "items", items, "orders")
    BY <1>5 DEF ItemsOfDetailIDs
  <2>3. items = ItemsOf(History[now], Ids(c.got.txs))
    BY DEF Db, Got
  <2> HIDE DEF items
  <2>4. /\ d.pc = "orders" /\ {"txs", "items"} \subseteq DOMAIN d.got
        /\ d.got["txs"] = c.got["txs"] /\ d.got["items"] = items
    BY <2>1, <2>2, Kept
  <2> HIDE DEF c, d
  <2> QED BY <1>0, <2>3, <2>4 DEF PartsDetailIDs, AnsweredIn
<1>6. CASE OrdersOfDetailIDs(w) /\ ~Panic(w)
  <2> DEFINE txs == c.got.txs
             items == c.got.items
             orders == {o \in Db.orders : o.tx \in Ids(txs)}
             Row_(order, t) ==
               [tx |-> t, items |-> {i \in items : i.tx = t.id}, order |-> {order[t.id]}]
  <2>1. PICK order \in LastWins(orders, LAMBDA o : o.tx) :
          Ids(txs) \subseteq DOMAIN order /\ Answer(w, {Row_(order, t) : t \in txs})
    BY <1>6 DEF OrdersOfDetailIDs, Got
  <2>2. order \in [{o.tx : o \in orders} -> orders] /\ \A k \in DOMAIN order : order[k].tx = k
    BY DEF LastWins
  <2>3. PICK i \in Moments : items = ItemsOf(History[i], Ids(txs))
    BY <1>6 DEF OrdersOfDetailIDs, At, PartsDetailIDs
  <2>4. ASSUME NEW t \in txs
        PROVE  ItemsJoined(Row_(order, t)) /\ OrderJoined(Row_(order, t))
    <3> DEFINE r == Row_(order, t)
    <3>1. t.id \in Ids(txs)
      BY DEF Ids
    <3>2. order[t.id] \in orders /\ order[t.id].tx = t.id
      BY <2>1, <2>2, <3>1
    <3>3. order[t.id] \in OrdersOfTx(t.id, History[now])
      BY <3>2 DEF OrdersOfTx, Db
    <3>4. {n \in items : n.tx = t.id} = ItemsOf(History[i], {t.id})
      BY <2>3, <3>1 DEF ItemsOf
    <3>5. r.tx = t /\ r.items = ItemsOf(History[i], {t.id}) /\ r.order = {order[t.id]}
      BY <3>4
    <3> HIDE DEF r
    <3>6. ItemsJoined(r) /\ OrderJoined(r)
      BY <1>0, <3>3, <3>5, DetailParts
    <3> QED BY <3>6 DEF r
  <2> HIDE DEF Row_
  <2>5. d.pc = "done" /\ d.answer.data = {Row_(order, t) : t \in txs}
    BY <2>1, Ended DEF Answer
  <2> HIDE DEF c, d
  <2> QED BY <2>4, <2>5 DEF PartsDetailIDs
<1> QED BY <1>1, <1>2, <1>3, <1>4, <1>5, <1>6

-----------------------------------------------------------------------------
(* The parts of a variation and of an order. *)

\* Some row of a part that had one row at most is the row that it always had.
LEMMA JoinsOne ==
  ASSUME NEW f, DOMAIN f = Moments, \A k \in Moments : IsFiniteSet(f[k]),
         NEW i \in Moments, NEW part, part \subseteq f[i], f[i] # {} => part # {},
         Cardinality(UNION {f[k] : k \in Moments}) <= 1
  PROVE  /\ \A x : (\A k \in Moments : x \in f[k]) => x \in part
         /\ part \subseteq UNION {f[k] : k \in Moments}
<1>1. ASSUME NEW x, \A k \in Moments : x \in f[k]
      PROVE  x \in part
  <2>1. x \in f[i]
    BY <1>1
  <2>2. PICK y \in part : y \in f[i]
    BY <2>1
  <2>3. x = y
    BY <2>1, <2>2, OneOf
  <2> QED BY <2>2, <2>3
<1> QED BY <1>1

SkusOf(d, variation, warehouse) ==
  {s \in d.skus : s.variant = variation /\ s.warehouse = warehouse}

\* A page has one row for a variation.
LEMMA OneRowOfVariation ==
  ASSUME LinesAgree, NEW i \in Moments, NEW f, NEW q \in ByProduct(History[i], f),
         NEW r \in ByProduct(History[i], f), q.variation = r.variation
  PROVE  q = r
<1> DEFINE db == History[i]
           joined == OrderLines(db, f)
           keys == {<<j[1].variation, j[1].product>> : j \in joined}
           Group(v, p) == {j \in joined : j[1].variation = v /\ j[1].product = p}
           E(k) == [variation |-> k[1], product |-> k[2], txs |-> Cardinality(Group(k[1], k[2])),
                    key |-> MapThenSumSet(LAMBDA j : j[1].count, Group(k[1], k[2]))]
<1>1. ByProduct(db, f) = {E(k) : k \in keys}
  BY DEF ByProduct
<1>2. PICK k \in keys : q = E(k)
  BY <1>1
<1>3. PICK l \in keys : r = E(l)
  BY <1>1
<1>4. k[1] = l[1]
  BY <1>2, <1>3
<1>5. k[2] = l[2]
  <2>1. PICK x \in joined : k = <<x[1].variation, x[1].product>>
    OBVIOUS
  <2>2. PICK y \in joined : l = <<y[1].variation, y[1].product>>
    OBVIOUS
  <2>3. x[1] \in db.lines /\ y[1] \in db.lines
    BY DEF OrderLines
  <2> QED BY <1>4, <2>1, <2>2, <2>3 DEF LinesAgree, Moments
<1>6. k = l
  BY <1>4, <1>5
<1> QED BY <1>2, <1>3, <1>6

\* A row of a variation with its variant and one of its skus.
LEMMA VariationParts ==
  ASSUME NEW i \in Moments, NEW j \in Moments, NEW r, NEW warehouse,
         r.variant = WithIds(History[i].variants, {r.row.variation}),
         r.sku \subseteq SkusOf(History[j], r.row.variation, warehouse),
         SkusOf(History[j], r.row.variation, warehouse) # {} => r.sku # {}
  PROVE  VariationJoined(r, warehouse)
<1> DEFINE v == r.row.variation
           Variants(d) == WithIds(d.variants, {v})
           Skus(d) == {s \in d.skus : s.variant = v /\ s.warehouse = warehouse}
<1>1. Joined(r.variant, Variants)
  <2>1. r.variant = Variants(History[i])
    OBVIOUS
  <2> HIDE DEF Variants
  <2> QED BY <2>1 DEF Joined, Always, Ever
<1>2. ASSUME One(Skus)
      PROVE  Joined(r.sku, Skus)
  <2> DEFINE f == [k \in Moments |-> Skus(History[k])]
  <2>1. \A k \in Moments : IsFiniteSet(f[k])
    <3>1. \A k \in Moments : IsFiniteSet(History[k].skus)
      BY OutboundAssumption DEF Moments
    <3>2. \A k \in Moments : f[k] \subseteq History[k].skus
      OBVIOUS
    <3> HIDE DEF f
    <3> QED BY <3>1, <3>2, FS_Subset
  <2>2. r.sku \subseteq f[j] /\ (f[j] # {} => r.sku # {})
    BY DEF SkusOf
  <2>3. Cardinality(UNION {f[k] : k \in Moments}) <= 1
    <3> HIDE DEF Skus
    <3> QED BY <1>2 DEF One, Ever
  <2>4. DOMAIN f = Moments
    OBVIOUS
  <2> HIDE DEF f
  <2>5. /\ \A x : (\A k \in Moments : x \in f[k]) => x \in r.sku
        /\ r.sku \subseteq UNION {f[k] : k \in Moments}
    BY <2>1, <2>2, <2>3, <2>4, JoinsOne
  <2> HIDE DEF Skus
  <2> QED BY <2>5 DEF Joined, Always, Ever, f
<1> QED BY <1>1, <1>2 DEF VariationJoined, JoinedOne

\* What a list of variations has read so far.
PartsByProduct(c) ==
  /\ c.pc \in {"skus", "variants"} =>
       /\ "page" \in DOMAIN c.got
       /\ \E i \in Moments : c.got.page \subseteq ByProduct(History[i], c.pay)
  /\ c.pc = "variants" =>
       /\ "skus" \in DOMAIN c.got
       /\ \E i \in Moments : c.got.skus =
            {s \in History[i].skus : /\ s.variant \in {r.variation : r \in c.got.page}
                                     /\ s.warehouse = c.pay.warehouse}
  /\ AnsweredIn(c) => \A r \in c.answer.data : VariationJoined(r, c.pay.warehouse)

\* The statements of a list of variations keep its parts together.
LEMMA PartsByProductStep ==
  ASSUME LinesAgree, CallsInv, NEW w \in Workers, call[w].kind = "by_product",
         PartsByProduct(call[w]), OutboundStep(w)
  PROVE  PartsByProduct(call'[w])
<1>1. CountByProduct(w) \/ PageByProduct(w) \/ SkusByProduct(w) \/ VariantsByProduct(w)
  BY DEF OutboundStep, CountList, PageList, ItemsOfList, OrdersOfList, CustomersOfList,
     FindDetail, ItemsOfDetail, OrderOfDetail, CheckDetailIDs, LoadDetailIDs, ItemsOfDetailIDs,
     OrdersOfDetailIDs, SearchOrders, TxsOfOrders, ItemsOfOrders, ReturnsOfOrders, ReturnedItems,
     CustomersOfOrders, At
<1> DEFINE c == call[w]
           d == call'[w]
<1> SUFFICES PartsByProduct(d)
  OBVIOUS
<1>0. now \in Moments
  BY DEF CallsInv, Moments
<1>2. CASE Refuse(w) \/ Panic(w)
  BY <1>2, Unanswered DEF PartsByProduct, AnsweredIn
<1>3. CASE CountByProduct(w) /\ ~(Refuse(w) \/ Panic(w))
  <2>1. PICK count : Keep(w, "count", count, "page")
    BY <1>3 DEF CountByProduct
  <2>2. d.pc = "page"
    BY <2>1, Kept
  <2> HIDE DEF d
  <2> QED BY <2>2 DEF PartsByProduct, AnsweredIn
<1>4. CASE PageByProduct(w)
  <2>1. PICK page \in Pages(ByProduct(Db, Pay(w)), Pay(w).page) : Keep(w, "page", page, "skus")
    BY <1>4 DEF PageByProduct
  <2>2. /\ d.pc = "skus" /\ d.pay = c.pay
        /\ "page" \in DOMAIN d.got /\ d.got["page"] = page
    BY <2>1, Kept
  <2>3. page \subseteq ByProduct(History[now], c.pay)
    BY DEF Pages, Db, Pay
  <2> HIDE DEF c, d
  <2> QED BY <1>0, <2>2, <2>3 DEF PartsByProduct, AnsweredIn
<1>5. CASE SkusByProduct(w)
  <2>1. /\ "page" \in DOMAIN c.got
        /\ \E i \in Moments : c.got.page \subseteq ByProduct(History[i], c.pay)
    BY <1>5 DEF SkusByProduct, At, PartsByProduct
  <2> DEFINE skus == {s \in Db.skus : s.variant \in Variations(w) /\ s.warehouse = Pay(w).warehouse}
  <2>2. Keep(w, "skus", skus, "variants")
    BY <1>5 DEF SkusByProduct
  <2>3. skus = {s \in History[now].skus : /\ s.variant \in {r.variation : r \in c.got.page}
                                          /\ s.warehouse = c.pay.warehouse}
    BY DEF Db, Variations, Got, Pay
  <2> HIDE DEF skus
  <2>4. /\ d.pc = "variants" /\ d.pay = c.pay /\ {"page", "skus"} \subseteq DOMAIN d.got
        /\ d.got["page"] = c.got["page"] /\ d.got["skus"] = skus
    BY <2>1, <2>2, Kept
  <2> HIDE DEF c, d
  <2> QED BY <1>0, <2>1, <2>3, <2>4 DEF PartsByProduct, AnsweredIn
<1>6. CASE VariantsByProduct(w)
  <2> DEFINE page == c.got.page
             skus == c.got.skus
             found == WithIds(Db.variants, {r.variation : r \in page})
             warehouse == c.pay.warehouse
             E(row, sku, r) ==
               [row     |-> r,
                sku     |-> IF r = row[r.variation] /\ r.variation \in DOMAIN sku
                            THEN {sku[r.variation]} ELSE {},
                variant |-> IF r = row[r.variation] THEN WithIds(found, {r.variation}) ELSE {}]
  <2>1. PICK row \in LastWins(page, LAMBDA r : r.variation),
             sku \in LastWins(skus, LAMBDA s : s.variant) :
          Answer(w, {E(row, sku, r) : r \in page})
    BY <1>6 DEF VariantsByProduct, Got, Variations
  <2>2. /\ row \in [{r.variation : r \in page} -> page]
        /\ \A v \in DOMAIN row : row[v].variation = v
    BY DEF LastWins
  <2>3. sku \in [{s.variant : s \in skus} -> skus] /\ \A v \in DOMAIN sku : sku[v].variant = v
    BY DEF LastWins
  <2>4. PICK i \in Moments : page \subseteq ByProduct(History[i], c.pay)
    BY <1>6 DEF VariantsByProduct, At, PartsByProduct
  <2>5. PICK j \in Moments :
          skus = {s \in History[j].skus : /\ s.variant \in {r.variation : r \in page}
                                          /\ s.warehouse = warehouse}
    BY <1>6 DEF VariantsByProduct, At, PartsByProduct
  <2>6. ASSUME NEW r \in page
        PROVE  VariationJoined(E(row, sku, r), warehouse)
    <3> DEFINE e == E(row, sku, r)
               v == r.variation
    <3>1. row[v] = r
      <4>1. row[v] \in page /\ row[v].variation = v
        BY <2>2
      <4>2. row[v] \in ByProduct(History[i], c.pay) /\ r \in ByProduct(History[i], c.pay)
        BY <2>4, <4>1
      <4> HIDE DEF c
      <4> QED BY <4>1, <4>2, OneRowOfVariation
    <3>2. WithIds(found, {v}) = WithIds(History[now].variants, {v})
      BY DEF WithIds, Db
    <3>3. v \in DOMAIN sku => sku[v] \in SkusOf(History[j], v, warehouse)
      BY <2>3, <2>5 DEF SkusOf
    <3>4. SkusOf(History[j], v, warehouse) # {} => v \in DOMAIN sku
      BY <2>3, <2>5 DEF SkusOf
    <3>5. /\ e.row = r /\ e.variant = WithIds(History[now].variants, {v})
          /\ e.sku = IF v \in DOMAIN sku THEN {sku[v]} ELSE {}
      BY <3>1, <3>2
    <3> HIDE DEF e
    <3>6. /\ e.sku \subseteq SkusOf(History[j], v, warehouse)
          /\ SkusOf(History[j], v, warehouse) # {} => e.sku # {}
      BY <3>3, <3>4, <3>5
    <3>7. e.row.variation = v
      BY <3>5
    <3> HIDE DEF v, warehouse
    <3>8. VariationJoined(e, warehouse)
      BY <1>0, <3>5, <3>6, <3>7, VariationParts
    <3> QED BY <3>8 DEF e, warehouse
  <2> HIDE DEF E
  <2>7. /\ d.pc = "done" /\ d.answer.data = {E(row, sku, r) : r \in page}
        /\ d.pay.warehouse = warehouse
    BY <2>1, Ended DEF Answer
  <2> HIDE DEF page, warehouse, c, d
  <2> QED BY <2>6, <2>7 DEF PartsByProduct
<1> QED BY <1>1, <1>2, <1>3, <1>4, <1>5, <1>6

-----------------------------------------------------------------------------
(* The parts of an order that was searched. *)

\* The details of the transaction with an id.
DetailsJoined(details, d, id) ==
  {t.tx : t \in details} = WithIds(d.txs, {id}) /\ \A t \in details : ItemsJoined(t)

\* An order of its own transactions gets the details of them.
LEMMA DetailOfOwn ==
  ASSUME NEW i \in Moments, NEW j \in Moments, NEW ids, NEW id \in ids, NEW txs, NEW items,
         txs = WithIds(History[i].txs, ids), items = ItemsOf(History[j], Ids(txs)),
         NEW last, NEW o, id # 0 => last[id] = o
  PROVE  DetailsJoined(Detail(txs, items, last, o, id), History[i], id)
<1> DEFINE E(t) == [tx |-> t, items |-> {n \in items : n.tx = t.id}]
           mine == {t \in WithIds(txs, {id}) : last[id] = o}
<1>1. Detail(txs, items, last, o, id) = {E(t) : t \in mine}
  BY DEF Detail
<1>2. mine = WithIds(History[i].txs, {id})
  <2>1. \A t \in History[i].txs : t.id # 0
    BY OutboundAssumption DEF Moments
  <2> QED BY <2>1 DEF WithIds
<1>3. ASSUME NEW t \in mine
      PROVE  E(t).tx = t /\ ItemsJoined(E(t))
  <2>1. t \in txs /\ t.id \in Ids(txs)
    BY DEF WithIds, Ids
  <2>2. {n \in items : n.tx = t.id} = ItemsOf(History[j], {t.id})
    BY <2>1 DEF ItemsOf
  <2>3. E(t).tx = t /\ E(t).items = ItemsOf(History[j], {t.id})
    BY <2>2
  <2> HIDE DEF E
  <2> QED BY <2>3, ReadsJoin
<1> HIDE DEF E, mine
<1>4. {t.tx : t \in {E(t) : t \in mine}} = mine
  BY <1>3
<1> QED BY <1>1, <1>2, <1>3, <1>4 DEF DetailsJoined

\* What is merged has the id of one of the addresses, and is there if one is.
LEMMA MergedHas ==
  ASSUME NEW rows
  PROVE  /\ \A m \in Merged(rows) : \E a \in rows : m.id = a.id /\ m.order = a.order
         /\ rows # {} => Merged(rows) # {}
<1> DEFINE M(last) == [id : {last.id}, order : {last.order}, name : Latest(rows, last, "name"),
                       city : Latest(rows, last, "city")]
<1>1. Merged(rows) = UNION {M(last) : last \in rows}
  BY DEF Merged
<1>2. \A last : \A m \in M(last) : m.id = last.id /\ m.order = last.order
  OBVIOUS
<1>3. ASSUME NEW last \in rows
      PROVE  M(last) # {}
  <2>1. PICK name : name \in Latest(rows, last, "name")
    BY DEF Latest
  <2>2. PICK city : city \in Latest(rows, last, "city")
    BY DEF Latest
  <2>3. [id |-> last.id, order |-> last.order, name |-> name, city |-> city] \in M(last)
    BY <2>1, <2>2
  <2> QED BY <2>3
<1> HIDE DEF M
<1> QED BY <1>1, <1>2, <1>3

AddressRows(o, d) == {c \in d.customers : c.order = o.id}

AddressIds(o, d) == Ids(AddressRows(o, d))

AddressJoined(r) == JoinedOne(Ids(r.customer), LAMBDA d : Ids(AddressesOf({r.order}, d)))

\* The customer of an order is merged from the addresses of the order.
LEMMA AddressJoins ==
  ASSUME NEW r, NEW k \in Moments, Ids(r.customer) \subseteq AddressIds(r.order, History[k]),
         AddressIds(r.order, History[k]) # {} => Ids(r.customer) # {}
  PROVE  AddressJoined(r)
<1> DEFINE Addresses(d) == Ids(AddressesOf({r.order}, d))
           part == Ids(r.customer)
<1> SUFFICES ASSUME One(Addresses)
             PROVE  Joined(part, Addresses)
  BY DEF AddressJoined, JoinedOne
<1> DEFINE f == [i \in Moments |-> Addresses(History[i])]
<1>1. ASSUME NEW i \in Moments
      PROVE  f[i] = AddressIds(r.order, History[i]) /\ IsFiniteSet(f[i])
  <2> DEFINE rows == {c \in History[i].customers : c.order = r.order.id}
  <2>1. Ids({r.order}) = {r.order.id}
    BY DEF Ids
  <2>2. AddressesOf({r.order}, History[i]) = rows
    BY <2>1 DEF AddressesOf
  <2>3. f[i] = AddressIds(r.order, History[i])
    BY <2>2 DEF AddressIds, AddressRows
  <2>4. IsFiniteSet(rows)
    BY OutboundAssumption, FS_Subset DEF Moments
  <2>5. f[i] = {c.id : c \in rows}
    BY <2>2 DEF Ids
  <2> HIDE DEF rows, f
  <2>6. IsFiniteSet({c.id : c \in rows})
    <3> DEFINE S == {c.id : c \in rows}
               g == [c \in rows |-> c.id]
    <3>1. g \in Surjection(rows, S)
      BY DEF Surjection
    <3> HIDE DEF S, g
    <3>2. IsFiniteSet(S)
      BY <2>4, <3>1, FS_Surjection
    <3> QED BY <3>2 DEF S
  <2> QED BY <2>3, <2>5, <2>6
<1>2. Cardinality(UNION {f[i] : i \in Moments}) <= 1
  <2> HIDE DEF Addresses
  <2> QED BY DEF One, Ever
<1>3. DOMAIN f = Moments
  OBVIOUS
<1> HIDE DEF f
<1>4. part \subseteq f[k] /\ (f[k] # {} => part # {})
  BY <1>1
<1> HIDE DEF part
<1>5. /\ \A x : (\A i \in Moments : x \in f[i]) => x \in part
      /\ part \subseteq UNION {f[i] : i \in Moments}
  BY <1>1, <1>2, <1>3, <1>4, JoinsOne
<1> HIDE DEF Addresses
<1> QED BY <1>5 DEF Joined, Always, Ever, f

\* What a search has read so far.
PartsSearch(c) ==
  /\ c.pc \in {"txs", "items", "returns", "returned", "customers"} =>
       /\ "orders" \in DOMAIN c.got
       /\ \E i \in Moments : c.got.orders \subseteq History[i].orders
  /\ c.pc \in {"items", "returns", "returned", "customers"} =>
       /\ "txs" \in DOMAIN c.got
       /\ \E i \in Moments :
            c.got.txs = WithIds(History[i].txs, {o.tx : o \in c.got.orders})
  /\ c.pc \in {"returns", "returned", "customers"} =>
       /\ "items" \in DOMAIN c.got
       /\ \E i \in Moments : c.got.items = ItemsOf(History[i], Ids(c.got.txs))
  /\ c.pc \in {"returned", "customers"} =>
       /\ "returns" \in DOMAIN c.got
       /\ \E i \in Moments :
            c.got.returns = WithIds(History[i].txs, {o.ret : o \in c.got.orders})
  /\ c.pc = "customers" =>
       /\ "returned" \in DOMAIN c.got
       /\ \E i \in Moments : c.got.returned = ItemsOf(History[i], Ids(c.got.returns))
  /\ AnsweredIn(c) => \A r \in c.answer.data : Unshared(r.order) => SearchJoined(r)

\* The last order of a transaction that no other order has is that order.
LEMMA LastOwn ==
  ASSUME KeysAreUnique, NEW i \in Moments, NEW orders, orders \subseteq History[i].orders,
         NEW o \in orders, Unshared(o)
  PROVE  /\ \A last \in LastWins(orders, LAMBDA p : p.tx) : o.tx # 0 => last[o.tx] = o
         /\ \A last \in LastWins(orders, LAMBDA p : p.ret) : o.ret # 0 => last[o.ret] = o
<1>1. ASSUME NEW p \in orders, p.id = o.id
      PROVE  p = o
  BY <1>1 DEF KeysAreUnique, Moments
<1>2. ASSUME NEW last \in LastWins(orders, LAMBDA p : p.tx), o.tx # 0
      PROVE  last[o.tx] = o
  <2> DEFINE p == last[o.tx]
  <2>1. p \in orders /\ p.tx = o.tx
    BY DEF LastWins
  <2> HIDE DEF p
  <2>2. o.tx \in {p.tx, p.ret} \cap {o.tx, o.ret}
    BY <2>1
  <2>3. p.id = o.id
    BY <1>2, <2>1, <2>2 DEF Unshared
  <2> QED BY <1>1, <2>1, <2>3 DEF p
<1>3. ASSUME NEW last \in LastWins(orders, LAMBDA p : p.ret), o.ret # 0
      PROVE  last[o.ret] = o
  <2> DEFINE p == last[o.ret]
  <2>1. p \in orders /\ p.ret = o.ret
    BY DEF LastWins
  <2> HIDE DEF p
  <2>2. o.ret \in {p.tx, p.ret} \cap {o.tx, o.ret}
    BY <2>1
  <2>3. p.id = o.id
    BY <1>3, <2>1, <2>2 DEF Unshared
  <2> QED BY <1>1, <2>1, <2>3 DEF p
<1> QED BY <1>2, <1>3

\* The customers that a search shows.
LEMMA ShownCustomer ==
  ASSUME NEW k \in Moments, NEW orders, NEW shown,
         shown = UNION {Merged(AddressRows(p, History[k])) : p \in orders},
         NEW who \in LastWins(shown, LAMBDA c : c.order), NEW o \in orders, NEW r,
         r.order = o, r.customer = {who[i] : i \in {o.id} \cap DOMAIN who}
  PROVE  AddressJoined(r)
<1>1. who \in [{c.order : c \in shown} -> shown] /\ \A i \in DOMAIN who : who[i].order = i
  BY DEF LastWins
<1>2. \A m \in shown : \E a \in History[k].customers : m.id = a.id /\ m.order = a.order
  <2> SUFFICES ASSUME NEW p \in orders, NEW m \in Merged(AddressRows(p, History[k]))
               PROVE  \E a \in History[k].customers : m.id = a.id /\ m.order = a.order
    OBVIOUS
  <2>1. \E a \in AddressRows(p, History[k]) : m.id = a.id /\ m.order = a.order
    BY MergedHas
  <2> QED BY <2>1 DEF AddressRows
<1>3. Ids(r.customer) \subseteq AddressIds(r.order, History[k])
  <2> SUFFICES ASSUME o.id \in DOMAIN who
               PROVE  who[o.id].id \in AddressIds(o, History[k])
    BY DEF Ids
  <2>1. who[o.id] \in shown /\ who[o.id].order = o.id
    BY <1>1
  <2>2. PICK a \in History[k].customers : who[o.id].id = a.id /\ a.order = o.id
    BY <1>2, <2>1
  <2> QED BY <2>2 DEF AddressIds, AddressRows, Ids
<1>4. ASSUME AddressIds(o, History[k]) # {}
      PROVE  Ids(r.customer) # {}
  <2>1. AddressRows(o, History[k]) # {}
    BY <1>4 DEF AddressIds, Ids
  <2>2. PICK m \in Merged(AddressRows(o, History[k])) :
          \E a \in AddressRows(o, History[k]) : m.order = a.order
    BY <2>1, MergedHas
  <2>3. m \in shown
    OBVIOUS
  <2>4. m.order = o.id
    BY <2>2 DEF AddressRows
  <2>5. o.id \in DOMAIN who
    BY <1>1, <2>3, <2>4
  <2> QED BY <2>5 DEF Ids
<1>5. AddressIds(r.order, History[k]) # {} => Ids(r.customer) # {}
  BY <1>4
<1> QED BY <1>3, <1>5, AddressJoins

\* The statements of a search keep the parts of an order together.
LEMMA PartsSearchStep ==
  ASSUME KeysAreUnique, CallsInv, NEW w \in Workers, call[w].kind = "order_search",
         PartsSearch(call[w]), OutboundStep(w)
  PROVE  PartsSearch(call'[w])
<1>1. \/ SearchOrders(w) \/ TxsOfOrders(w) \/ ItemsOfOrders(w) \/ ReturnsOfOrders(w)
      \/ ReturnedItems(w) \/ CustomersOfOrders(w)
  BY DEF OutboundStep, CountList, PageList, ItemsOfList, OrdersOfList, CustomersOfList,
     FindDetail, ItemsOfDetail, OrderOfDetail, CheckDetailIDs, LoadDetailIDs, ItemsOfDetailIDs,
     OrdersOfDetailIDs, CountByProduct, PageByProduct, SkusByProduct, VariantsByProduct, At
<1> DEFINE c == call[w]
           d == call'[w]
<1> SUFFICES PartsSearch(d)
  OBVIOUS
<1>0. now \in Moments
  BY DEF CallsInv, Moments
<1>2. CASE SearchOrders(w)
  <2> DEFINE found == OrdersFound(Db, Pay(w))
  <2>1. PICK orders \in kSubset(Min({Pay(w).limit, Cardinality(found)}), found) :
          Keep(w, "orders", orders, "txs")
    BY <1>2 DEF SearchOrders
  <2>2. orders \subseteq found
    <3> HIDE DEF found
    <3> QED BY DEF kSubset
  <2>3. orders \subseteq History[now].orders
    BY <2>2 DEF OrdersFound, Db
  <2>4. d.pc = "txs" /\ "orders" \in DOMAIN d.got /\ d.got["orders"] = orders
    BY <2>1, Kept
  <2> HIDE DEF d
  <2> QED BY <1>0, <2>3, <2>4 DEF PartsSearch, AnsweredIn
<1>3. CASE TxsOfOrders(w)
  <2>1. /\ {"orders"} \subseteq DOMAIN c.got
        /\ \E i \in Moments : c.got.orders \subseteq History[i].orders
    BY <1>3 DEF TxsOfOrders, At, PartsSearch
  <2> DEFINE rows == WithIds(Db.txs, {o.tx : o \in Got(w).orders})
  <2>2. Keep(w, "txs", rows, "items")
    BY <1>3 DEF TxsOfOrders
  <2>3. rows = WithIds(History[now].txs, {o.tx : o \in c.got.orders})
    BY DEF Db, Got
  <2> HIDE DEF rows
  <2>4. /\ d.pc = "items" /\ {"orders", "txs"} \subseteq DOMAIN d.got
        /\ d.got["txs"] = rows
        /\ d.got["orders"] = c.got["orders"]
    BY <2>1, <2>2, Kept
  <2> HIDE DEF c, d
  <2> QED BY <1>0, <2>1, <2>3, <2>4 DEF PartsSearch, AnsweredIn
<1>4. CASE ItemsOfOrders(w)
  <2>1. /\ {"orders", "txs"} \subseteq DOMAIN c.got
        /\ \E i \in Moments : c.got.orders \subseteq History[i].orders
        /\ \E i \in Moments : c.got.txs = WithIds(History[i].txs, {o.tx : o \in c.got.orders})
    BY <1>4 DEF ItemsOfOrders, At, PartsSearch
  <2> DEFINE rows == ItemsOf(Db, Ids(Got(w).txs))
  <2>2. Keep(w, "items", rows, "returns")
    BY <1>4 DEF ItemsOfOrders
  <2>3. rows = ItemsOf(History[now], Ids(c.got.txs))
    BY DEF Db, Got
  <2> HIDE DEF rows
  <2>4. /\ d.pc = "returns"
        /\ {"orders", "txs", "items"} \subseteq DOMAIN d.got
        /\ d.got["items"] = rows
        /\ d.got["orders"] = c.got["orders"]
        /\ d.got["txs"] = c.got["txs"]
    BY <2>1, <2>2, Kept
  <2> HIDE DEF c, d
  <2> QED BY <1>0, <2>1, <2>3, <2>4 DEF PartsSearch, AnsweredIn
<1>5. CASE ReturnsOfOrders(w)
  <2>1. /\ {"orders", "txs", "items"} \subseteq DOMAIN c.got
        /\ \E i \in Moments : c.got.orders \subseteq History[i].orders
        /\ \E i \in Moments : c.got.txs = WithIds(History[i].txs, {o.tx : o \in c.got.orders})
        /\ \E i \in Moments : c.got.items = ItemsOf(History[i], Ids(c.got.txs))
    BY <1>5 DEF ReturnsOfOrders, At, PartsSearch
  <2> DEFINE rows == WithIds(Db.txs, {o.ret : o \in Got(w).orders})
  <2>2. Keep(w, "returns", rows, "returned")
    BY <1>5 DEF ReturnsOfOrders
  <2>3. rows = WithIds(History[now].txs, {o.ret : o \in c.got.orders})
    BY DEF Db, Got
  <2> HIDE DEF rows
  <2>4. /\ d.pc = "returned"
        /\ {"orders", "txs", "items", "returns"} \subseteq DOMAIN d.got
        /\ d.got["returns"] = rows
        /\ d.got["orders"] = c.got["orders"]
        /\ d.got["txs"] = c.got["txs"]
        /\ d.got["items"] = c.got["items"]
    BY <2>1, <2>2, Kept
  <2> HIDE DEF c, d
  <2> QED BY <1>0, <2>1, <2>3, <2>4 DEF PartsSearch, AnsweredIn
<1>6. CASE ReturnedItems(w)
  <2>1. /\ {"orders", "txs", "items", "returns"} \subseteq DOMAIN c.got
        /\ \E i \in Moments : c.got.orders \subseteq History[i].orders
        /\ \E i \in Moments : c.got.txs = WithIds(History[i].txs, {o.tx : o \in c.got.orders})
        /\ \E i \in Moments : c.got.items = ItemsOf(History[i], Ids(c.got.txs))
        /\ \E i \in Moments : c.got.returns = WithIds(History[i].txs, {o.ret : o \in c.got.orders})
    BY <1>6 DEF ReturnedItems, At, PartsSearch
  <2> DEFINE rows == ItemsOf(Db, Ids(Got(w).returns))
  <2>2. Keep(w, "returned", rows, "customers")
    BY <1>6 DEF ReturnedItems
  <2>3. rows = ItemsOf(History[now], Ids(c.got.returns))
    BY DEF Db, Got
  <2> HIDE DEF rows
  <2>4. /\ d.pc = "customers"
        /\ {"orders", "txs", "items", "returns", "returned"} \subseteq DOMAIN d.got
        /\ d.got["returned"] = rows
        /\ d.got["orders"] = c.got["orders"]
        /\ d.got["txs"] = c.got["txs"]
        /\ d.got["items"] = c.got["items"]
        /\ d.got["returns"] = c.got["returns"]
    BY <2>1, <2>2, Kept
  <2> HIDE DEF c, d
  <2> QED BY <1>0, <2>1, <2>3, <2>4 DEF PartsSearch, AnsweredIn
<1>7. CASE CustomersOfOrders(w)
  <2> DEFINE orders == c.got.orders
             shown == UNION {Merged({a \in Db.customers : a.order = o.id}) : o \in orders}
             E(sent, back, who, o) ==
               [order    |-> o,
                outbound |-> Detail(c.got.txs, c.got.items, sent, o, o.tx),
                inbound  |-> Detail(c.got.returns, c.got.returned, back, o, o.ret),
                customer |-> {who[i] : i \in {o.id} \cap DOMAIN who}]
  <2>1. PICK sent \in LastWins(orders, LAMBDA o : o.tx),
             back \in LastWins(orders, LAMBDA o : o.ret),
             who \in LastWins(shown, LAMBDA a : a.order) :
          Answer(w, {E(sent, back, who, o) : o \in orders})
    BY <1>7 DEF CustomersOfOrders, Got
  <2>2. c.pc = "customers"
    BY <1>7 DEF CustomersOfOrders, At
  <2>3. PICK h \in Moments : orders \subseteq History[h].orders
    BY <2>2 DEF PartsSearch
  <2>4. PICK i \in Moments : c.got.txs = WithIds(History[i].txs, {o.tx : o \in orders})
    BY <2>2 DEF PartsSearch
  <2>5. PICK j \in Moments : c.got.items = ItemsOf(History[j], Ids(c.got.txs))
    BY <2>2 DEF PartsSearch
  <2>6. PICK k \in Moments : c.got.returns = WithIds(History[k].txs, {o.ret : o \in orders})
    BY <2>2 DEF PartsSearch
  <2>7. PICK l \in Moments : c.got.returned = ItemsOf(History[l], Ids(c.got.returns))
    BY <2>2 DEF PartsSearch
  <2>8. shown = UNION {Merged(AddressRows(o, History[now])) : o \in orders}
    BY DEF AddressRows, Db
  <2> DEFINE txs == c.got.txs
             items == c.got.items
             returns == c.got.returns
             returned == c.got.returned
  <2> HIDE DEF shown, orders, txs, items, returns, returned
  <2>9. ASSUME NEW o \in orders, Unshared(o)
        PROVE  SearchJoined(E(sent, back, who, o))
    <3> DEFINE r == E(sent, back, who, o)
    <3>1. /\ r.order = o /\ r.outbound = Detail(txs, items, sent, o, o.tx)
          /\ r.inbound = Detail(returns, returned, back, o, o.ret)
          /\ r.customer = {who[n] : n \in {o.id} \cap DOMAIN who}
      BY DEF txs, items, returns, returned
    <3> HIDE DEF r, E
    <3>2. (o.tx # 0 => sent[o.tx] = o) /\ (o.ret # 0 => back[o.ret] = o)
      BY <2>3, <2>9, LastOwn
    <3>3. /\ {t.tx : t \in r.outbound} = WithIds(History[i].txs, {r.order.tx})
          /\ \A t \in r.outbound : ItemsJoined(t)
      <4> DEFINE ids == {p.tx : p \in orders}
                 id == o.tx
      <4>1. /\ id \in ids /\ txs = WithIds(History[i].txs, ids)
            /\ items = ItemsOf(History[j], Ids(txs)) /\ (id # 0 => sent[id] = o)
        BY <2>4, <2>5, <3>2 DEF txs, items
      <4> HIDE DEF ids, id
      <4>2. DetailsJoined(Detail(txs, items, sent, o, id), History[i], id)
        BY <4>1, DetailOfOwn
      <4> QED BY <3>1, <4>2 DEF id, DetailsJoined
    <3>4. /\ {t.tx : t \in r.inbound} = WithIds(History[k].txs, {r.order.ret})
          /\ \A t \in r.inbound : ItemsJoined(t)
      <4> DEFINE ids == {p.ret : p \in orders}
                 id == o.ret
      <4>1. /\ id \in ids /\ returns = WithIds(History[k].txs, ids)
            /\ returned = ItemsOf(History[l], Ids(returns)) /\ (id # 0 => back[id] = o)
        BY <2>6, <2>7, <3>2 DEF returns, returned
      <4> HIDE DEF ids, id
      <4>2. DetailsJoined(Detail(returns, returned, back, o, id), History[k], id)
        BY <4>1, DetailOfOwn
      <4> QED BY <3>1, <4>2 DEF id, DetailsJoined
    <3>5. AddressJoined(r)
      BY <1>0, <2>8, <3>1, ShownCustomer
    <3>6. Joined({t.tx : t \in r.outbound}, LAMBDA d_ : WithIds(d_.txs, {r.order.tx}))
      BY <3>3 DEF Joined, Always, Ever
    <3>7. Joined({t.tx : t \in r.inbound}, LAMBDA d_ : WithIds(d_.txs, {r.order.ret}))
      BY <3>4 DEF Joined, Always, Ever
    <3>8. SearchJoined(r)
      BY <3>3, <3>4, <3>5, <3>6, <3>7 DEF SearchJoined, AddressJoined
    <3> QED BY <3>8 DEF r
  <2>10. \A o : E(sent, back, who, o).order = o
    OBVIOUS
  <2> HIDE DEF E
  <2>11. d.pc = "done" /\ d.answer.data = {E(sent, back, who, o) : o \in orders}
    BY <2>1, Ended DEF Answer
  <2> HIDE DEF c, d
  <2> QED BY <2>9, <2>10, <2>11 DEF PartsSearch
<1> QED BY <1>1, <1>2, <1>3, <1>4, <1>5, <1>6, <1>7

-----------------------------------------------------------------------------
(* The parts of a sku. *)

\* The rows with an id among those with ids.
LEMMA WithOneId ==
  ASSUME NEW rows, NEW ids, NEW id \in ids
  PROVE  WithIds(WithIds(rows, ids), {id}) = WithIds(rows, {id})
BY DEF WithIds

MovedOf(d, tx, sku) == {h \in d.hists : h.tx = tx /\ h.sku = sku}

\* A row with the history rows of its transaction and sku, and their racks.
LEMMA PlacementParts ==
  ASSUME NEW i \in Moments, NEW j \in Moments, NEW r, NEW hists, NEW racks, NEW ids,
         hists = MovedOf(History[i], r.tx, r.sku), {h.rack : h \in hists} \subseteq ids,
         racks = WithIds(History[j].racks, ids),
         r.racks = RackEntries(hists, racks)
  PROVE  RacksJoined(r)
<1> DEFINE E(h) == [hist |-> h.id, rack |-> h.rack, count |-> h.count,
                    name |-> {k.name : k \in WithIds(racks, {h.rack})}]
           Hists(d) == {h.id : h \in {h \in d.hists : h.tx = r.tx /\ h.sku = r.sku}}
<1>1. r.racks = {E(h) : h \in hists}
  BY DEF RackEntries
<1>2. ASSUME NEW h \in hists
      PROVE  /\ E(h).hist = h.id
             /\ E(h).name = {k.name : k \in WithIds(History[j].racks, {E(h).rack})}
  <2>1. WithIds(racks, {h.rack}) = WithIds(History[j].racks, {h.rack})
    BY WithOneId
  <2> QED BY <2>1
<1> HIDE DEF E
<1>3. {e.hist : e \in r.racks} = {h.id : h \in hists}
  <2>1. \A e \in r.racks : \E h \in hists : e.hist = h.id
    BY <1>1, <1>2
  <2>2. \A h \in hists : \E e \in r.racks : e.hist = h.id
    BY <1>1, <1>2
  <2> QED BY <2>1, <2>2
<1>4. Joined({e.hist : e \in r.racks}, Hists)
  <2>1. {e.hist : e \in r.racks} = Hists(History[i])
    BY <1>3 DEF MovedOf
  <2> HIDE DEF Hists
  <2> QED BY <2>1 DEF Joined, Always, Ever
<1>5. ASSUME NEW e \in r.racks
      PROVE  Joined(e.name, LAMBDA d : {k.name : k \in WithIds(d.racks, {e.rack})})
  <2> DEFINE Names(d) == {k.name : k \in WithIds(d.racks, {e.rack})}
  <2>1. e.name = Names(History[j])
    BY <1>1, <1>2
  <2> HIDE DEF Names
  <2>2. Joined(e.name, Names)
    BY <2>1 DEF Joined, Always, Ever
  <2> QED BY <2>2 DEF Names
<1> QED BY <1>4, <1>5 DEF RacksJoined

\* What the placements of a transaction have read so far.
PartsPlacements(c) ==
  /\ c.pc \in {"racks", "variants", "products"} =>
       /\ "hists" \in DOMAIN c.got
       /\ \E i \in Moments : c.got.hists = HistsOf(History[i], {c.pay.tx})
  /\ c.pc \in {"variants", "products"} =>
       /\ "racks" \in DOMAIN c.got
       /\ \E i \in Moments : c.got.racks = WithIds(History[i].racks, {h.rack : h \in c.got.hists})
  /\ c.pc = "products" =>
       /\ "variants" \in DOMAIN c.got
       /\ \E i \in Moments :
            c.got.variants = WithIds(History[i].variants, {h.sku.variant : h \in c.got.hists})
  /\ AnsweredIn(c) =>
       \A r \in c.answer.data : RacksJoined(r) /\ VariantJoined(r) /\ r.product = r.sku.product

\* The statements of the placements of a transaction keep its parts together.
LEMMA PartsPlacementsStep ==
  ASSUME CallsInv, NEW w \in Workers, call[w].kind = "placements",
         PartsPlacements(call[w]), InventoryStep(w)
  PROVE  PartsPlacements(call'[w])
<1>1. \/ CheckPlacements(w) \/ HistsOfPlacements(w) \/ RacksOfPlacements(w)
      \/ VariantsOfPlacements(w) \/ ProductsOfPlacements(w)
  BY DEF InventoryStep, InventoryRead, CheckPlacementsIDs, HistsOfIDs, SkusOfIDs, RacksOfIDs,
     VariantsOfIDs, ProductsOfIDs, CountProducts, PageProducts, ProductsOfPage, VariantsOfPage,
     CountSkus, PageSkus, ProductsOfSkus, SkusByIDs, ProductsByIDs, VariantsByIDs,
     ReadBlacklist, VariantsOfBlacklist, AddToBlacklist, RemoveFromBlacklist, At
<1> DEFINE c == call[w]
           d == call'[w]
<1> SUFFICES PartsPlacements(d)
  OBVIOUS
<1>0. now \in Moments
  BY DEF CallsInv, Moments
<1>2. CASE Refuse(w) \/ Panic(w)
  BY <1>2, Unanswered DEF PartsPlacements, AnsweredIn
<1>3. CASE CheckPlacements(w) /\ ~(Refuse(w) \/ Panic(w))
  <2>1. PICK rows : Keep(w, "checked", rows, "hists")
    BY <1>3 DEF CheckPlacements
  <2>2. d.pc = "hists"
    BY <2>1, Kept
  <2> HIDE DEF d
  <2> QED BY <2>2 DEF PartsPlacements, AnsweredIn
<1>4. CASE HistsOfPlacements(w)
  <2> DEFINE rows == HistsOf(Db, {Pay(w).tx})
  <2>2. Keep(w, "hists", rows, "racks")
    BY <1>4 DEF HistsOfPlacements
  <2>3. rows = HistsOf(History[now], {c.pay.tx})
    BY DEF Db, Pay
  <2> HIDE DEF rows
  <2>4. /\ d.pc = "racks" /\ d.pay = c.pay /\ {"hists"} \subseteq DOMAIN d.got
        /\ d.got["hists"] = rows
    BY <2>2, Kept
  <2> HIDE DEF c, d
  <2> QED BY <1>0, <2>3, <2>4 DEF PartsPlacements, AnsweredIn
<1>5. CASE RacksOfPlacements(w)
  <2>1. /\ {"hists"} \subseteq DOMAIN c.got
        /\ \E i \in Moments : c.got.hists = HistsOf(History[i], {c.pay.tx})
    BY <1>5 DEF RacksOfPlacements, At, PartsPlacements
  <2> DEFINE rows == WithIds(Db.racks, {h.rack : h \in Got(w).hists})
  <2>2. Keep(w, "racks", rows, "variants")
    BY <1>5 DEF RacksOfPlacements
  <2>3. rows = WithIds(History[now].racks, {h.rack : h \in c.got.hists})
    BY DEF Db, Got
  <2> HIDE DEF rows
  <2>4. /\ d.pc = "variants" /\ d.pay = c.pay /\ {"hists", "racks"} \subseteq DOMAIN d.got
        /\ d.got["racks"] = rows
        /\ d.got["hists"] = c.got["hists"]
    BY <2>1, <2>2, Kept
  <2> HIDE DEF c, d
  <2> QED BY <1>0, <2>1, <2>3, <2>4 DEF PartsPlacements, AnsweredIn
<1>6. CASE VariantsOfPlacements(w)
  <2>1. /\ {"hists", "racks"} \subseteq DOMAIN c.got
        /\ \E i \in Moments : c.got.hists = HistsOf(History[i], {c.pay.tx})
        /\ \E i \in Moments : c.got.racks = WithIds(History[i].racks, {h.rack : h \in c.got.hists})
    BY <1>6 DEF VariantsOfPlacements, At, PartsPlacements
  <2> DEFINE rows == WithIds(Db.variants, {h.sku.variant : h \in Got(w).hists})
  <2>2. Keep(w, "variants", rows, "products")
    BY <1>6 DEF VariantsOfPlacements
  <2>3. rows = WithIds(History[now].variants, {h.sku.variant : h \in c.got.hists})
    BY DEF Db, Got
  <2> HIDE DEF rows
  <2>4. /\ d.pc = "products" /\ d.pay = c.pay
        /\ {"hists", "racks", "variants"} \subseteq DOMAIN d.got
        /\ d.got["variants"] = rows
        /\ d.got["hists"] = c.got["hists"]
        /\ d.got["racks"] = c.got["racks"]
    BY <2>1, <2>2, Kept
  <2> HIDE DEF c, d
  <2> QED BY <1>0, <2>1, <2>3, <2>4 DEF PartsPlacements, AnsweredIn
<1>7. CASE ProductsOfPlacements(w) /\ ~Panic(w)
  <2> DEFINE hists == c.got.hists
             racks == c.got.racks
             variants == c.got.variants
             tx == c.pay.tx
             On(s) == {h \in hists : h.sku = s}
             E(s) == [tx |-> tx, sku |-> s, product |-> s.product,
                      racks |-> RackEntries(On(s), racks),
                      variant |-> WithIds(variants, {s.variant})]
             skus == {h.sku : h \in hists}
  <2>1. Answer(w, {E(s) : s \in skus})
    BY <1>7 DEF ProductsOfPlacements, Got, Pay
  <2>2. c.pc = "products"
    BY <1>7 DEF ProductsOfPlacements, At
  <2>3. PICK i \in Moments : hists = HistsOf(History[i], {tx})
    BY <2>2 DEF PartsPlacements
  <2>4. PICK j \in Moments : racks = WithIds(History[j].racks, {h.rack : h \in hists})
    BY <2>2 DEF PartsPlacements
  <2>5. PICK k \in Moments : variants = WithIds(History[k].variants, {h.sku.variant : h \in hists})
    BY <2>2 DEF PartsPlacements
  <2> HIDE DEF hists, racks, variants, tx
  <2>6. ASSUME NEW s \in skus
        PROVE  RacksJoined(E(s)) /\ VariantJoined(E(s)) /\ E(s).product = E(s).sku.product
    <3> DEFINE e == E(s)
               ids == {h.rack : h \in hists}
               rows == On(s)
    <3>1. /\ e.tx = tx /\ e.sku = s /\ e.product = s.product
          /\ e.racks = RackEntries(rows, racks) /\ e.variant = WithIds(variants, {s.variant})
      OBVIOUS
    <3>2. rows = MovedOf(History[i], tx, s)
      BY <2>3 DEF HistsOf, MovedOf
    <3>3. {h.rack : h \in rows} \subseteq ids
      OBVIOUS
    <3>4. s.variant \in {h.sku.variant : h \in hists}
      OBVIOUS
    <3>5. WithIds(variants, {s.variant}) = WithIds(History[k].variants, {s.variant})
      BY <2>5, <3>4, WithOneId
    <3>6. racks = WithIds(History[j].racks, ids)
      BY <2>4
    <3> HIDE DEF e, rows, ids
    <3>7. RacksJoined(e)
      BY <3>1, <3>2, <3>3, <3>6, PlacementParts
    <3>8. VariantJoined(e)
      BY <3>1, <3>5, ReadsJoin
    <3> QED BY <3>1, <3>7, <3>8 DEF e
  <2> HIDE DEF E, skus
  <2>7. d.pc = "done" /\ d.answer.data = {E(s) : s \in skus}
    BY <2>1, Ended DEF Answer
  <2> HIDE DEF c, d
  <2> QED BY <2>6, <2>7 DEF PartsPlacements
<1> QED BY <1>1, <1>2, <1>3, <1>4, <1>5, <1>6, <1>7 DEF ProductsOfPlacements

\* What the placements of several transactions have read so far.
PartsPlacementIDs(c) ==
  /\ c.pc \in {"skus", "racks", "variants", "products"} =>
       /\ "hists" \in DOMAIN c.got
       /\ \E i \in Moments : c.got.hists = HistsOf(History[i], c.pay.txs)
  /\ c.pc \in {"variants", "products"} =>
       /\ "racks" \in DOMAIN c.got
       /\ \E i \in Moments : c.got.racks = WithIds(History[i].racks, {h.rack : h \in c.got.hists})
  /\ c.pc = "products" =>
       /\ "variants" \in DOMAIN c.got
       /\ \E i \in Moments :
            c.got.variants = WithIds(History[i].variants, {h.sku.variant : h \in c.got.hists})
  /\ AnsweredIn(c) => \A r \in c.answer.data : RacksJoined(r) /\ VariantJoined(r)

\* The statements of the placements of several transactions keep them together.
LEMMA PartsPlacementIDsStep ==
  ASSUME CallsInv, NEW w \in Workers, call[w].kind = "placement_ids",
         PartsPlacementIDs(call[w]), InventoryStep(w)
  PROVE  PartsPlacementIDs(call'[w])
<1>1. \/ CheckPlacementsIDs(w) \/ HistsOfIDs(w) \/ SkusOfIDs(w)
      \/ RacksOfIDs(w) \/ VariantsOfIDs(w) \/ ProductsOfIDs(w)
  BY DEF InventoryStep, InventoryRead, CheckPlacements, HistsOfPlacements, RacksOfPlacements,
     VariantsOfPlacements, ProductsOfPlacements, CountProducts, PageProducts, ProductsOfPage,
     VariantsOfPage, CountSkus, PageSkus, ProductsOfSkus, SkusByIDs, ProductsByIDs,
     VariantsByIDs, ReadBlacklist, VariantsOfBlacklist, AddToBlacklist, RemoveFromBlacklist, At
<1> DEFINE c == call[w]
           d == call'[w]
<1> SUFFICES PartsPlacementIDs(d)
  OBVIOUS
<1>0. now \in Moments
  BY DEF CallsInv, Moments
<1>2. CASE Refuse(w) \/ Panic(w)
  BY <1>2, Unanswered DEF PartsPlacementIDs, AnsweredIn
<1>3. CASE CheckPlacementsIDs(w) /\ ~(Refuse(w) \/ Panic(w))
  <2>1. PICK rows : Keep(w, "checked", rows, "hists")
    BY <1>3 DEF CheckPlacementsIDs
  <2>2. d.pc = "hists"
    BY <2>1, Kept
  <2> HIDE DEF d
  <2> QED BY <2>2 DEF PartsPlacementIDs, AnsweredIn
<1>4. CASE HistsOfIDs(w)
  <2> DEFINE rows == HistsOf(Db, Pay(w).txs)
  <2>2. Keep(w, "hists", rows, "skus")
    BY <1>4 DEF HistsOfIDs
  <2>3. rows = HistsOf(History[now], c.pay.txs)
    BY DEF Db, Pay
  <2> HIDE DEF rows
  <2>4. /\ d.pc = "skus" /\ d.pay = c.pay /\ {"hists"} \subseteq DOMAIN d.got
        /\ d.got["hists"] = rows
    BY <2>2, Kept
  <2> HIDE DEF c, d
  <2> QED BY <1>0, <2>3, <2>4 DEF PartsPlacementIDs, AnsweredIn
<1>5. CASE SkusOfIDs(w)
  <2>1. /\ {"hists"} \subseteq DOMAIN c.got
        /\ \E i \in Moments : c.got.hists = HistsOf(History[i], c.pay.txs)
    BY <1>5 DEF SkusOfIDs, At, PartsPlacementIDs
  <2> DEFINE rows == WithIds(Db.skus, {h.sku : h \in Got(w).hists})
  <2>2. Keep(w, "skus", rows, "racks")
    BY <1>5 DEF SkusOfIDs
  <2>3. rows = WithIds(History[now].skus, {h.sku : h \in c.got.hists})
    BY DEF Db, Got
  <2> HIDE DEF rows
  <2>4. /\ d.pc = "racks" /\ d.pay = c.pay /\ {"hists", "skus"} \subseteq DOMAIN d.got
        /\ d.got["skus"] = rows
        /\ d.got["hists"] = c.got["hists"]
    BY <2>1, <2>2, Kept
  <2> HIDE DEF c, d
  <2> QED BY <1>0, <2>1, <2>3, <2>4 DEF PartsPlacementIDs, AnsweredIn
<1>6. CASE RacksOfIDs(w)
  <2>1. /\ {"hists"} \subseteq DOMAIN c.got
        /\ \E i \in Moments : c.got.hists = HistsOf(History[i], c.pay.txs)
    BY <1>6 DEF RacksOfIDs, At, PartsPlacementIDs
  <2> DEFINE rows == WithIds(Db.racks, {h.rack : h \in Got(w).hists})
  <2>2. Keep(w, "racks", rows, "variants")
    BY <1>6 DEF RacksOfIDs
  <2>3. rows = WithIds(History[now].racks, {h.rack : h \in c.got.hists})
    BY DEF Db, Got
  <2> HIDE DEF rows
  <2>4. /\ d.pc = "variants" /\ d.pay = c.pay /\ {"hists", "racks"} \subseteq DOMAIN d.got
        /\ d.got["racks"] = rows
        /\ d.got["hists"] = c.got["hists"]
    BY <2>1, <2>2, Kept
  <2> HIDE DEF c, d
  <2> QED BY <1>0, <2>1, <2>3, <2>4 DEF PartsPlacementIDs, AnsweredIn
<1>7. CASE VariantsOfIDs(w)
  <2>1. /\ {"hists", "racks"} \subseteq DOMAIN c.got
        /\ \E i \in Moments : c.got.hists = HistsOf(History[i], c.pay.txs)
        /\ \E i \in Moments : c.got.racks = WithIds(History[i].racks, {h.rack : h \in c.got.hists})
    BY <1>7 DEF VariantsOfIDs, At, PartsPlacementIDs
  <2> DEFINE rows == WithIds(Db.variants, {h.sku.variant : h \in Got(w).hists})
  <2>2. Keep(w, "variants", rows, "products")
    BY <1>7 DEF VariantsOfIDs
  <2>3. rows = WithIds(History[now].variants, {h.sku.variant : h \in c.got.hists})
    BY DEF Db, Got
  <2> HIDE DEF rows
  <2>4. /\ d.pc = "products" /\ d.pay = c.pay
        /\ {"hists", "racks", "variants"} \subseteq DOMAIN d.got
        /\ d.got["variants"] = rows
        /\ d.got["hists"] = c.got["hists"]
        /\ d.got["racks"] = c.got["racks"]
    BY <2>1, <2>2, Kept
  <2> HIDE DEF c, d
  <2> QED BY <1>0, <2>1, <2>3, <2>4 DEF PartsPlacementIDs, AnsweredIn
<1>8. CASE ProductsOfIDs(w) /\ ~(Refuse(w) \/ Panic(w))
  <2> DEFINE hists == c.got.hists
             racks == c.got.racks
             variants == c.got.variants
             On(t, s) == {h \in hists : h.tx = t /\ h.sku = s}
             E(k) == [tx |-> k[1], sku |-> k[2], product |-> k[2].variant,
                      racks |-> RackEntries(On(k[1], k[2]), racks),
                      variant |-> WithIds(variants, {k[2].variant})]
             keys == {<<h.tx, h.sku>> : h \in hists}
  <2>1. Answer(w, {E(k) : k \in keys})
    BY <1>8 DEF ProductsOfIDs, Got
  <2>2. c.pc = "products"
    BY <1>8 DEF ProductsOfIDs, At
  <2>3. PICK i \in Moments : hists = HistsOf(History[i], c.pay.txs)
    BY <2>2 DEF PartsPlacementIDs
  <2>4. PICK j \in Moments : racks = WithIds(History[j].racks, {h.rack : h \in hists})
    BY <2>2 DEF PartsPlacementIDs
  <2>5. PICK k \in Moments : variants = WithIds(History[k].variants, {h.sku.variant : h \in hists})
    BY <2>2 DEF PartsPlacementIDs
  <2> HIDE DEF hists, racks, variants
  <2>6. ASSUME NEW g \in keys
        PROVE  RacksJoined(E(g)) /\ VariantJoined(E(g))
    <3>0. PICK m \in hists : g = <<m.tx, m.sku>>
      OBVIOUS
    <3> DEFINE e == E(g)
               ids == {h.rack : h \in hists}
               t == m.tx
               s == m.sku
               rows == On(t, s)
    <3>1. /\ e.tx = t /\ e.sku = s
          /\ e.racks = RackEntries(rows, racks) /\ e.variant = WithIds(variants, {s.variant})
      BY <3>0
    <3>2. t \in c.pay.txs
      BY <2>3 DEF HistsOf
    <3>3. rows = MovedOf(History[i], t, s)
      BY <2>3, <3>2 DEF HistsOf, MovedOf
    <3>4. {h.rack : h \in rows} \subseteq ids
      OBVIOUS
    <3>5. s.variant \in {h.sku.variant : h \in hists}
      OBVIOUS
    <3>6. WithIds(variants, {s.variant}) = WithIds(History[k].variants, {s.variant})
      BY <2>5, <3>5, WithOneId
    <3>7. racks = WithIds(History[j].racks, ids)
      BY <2>4
    <3> HIDE DEF e, rows, ids, t, s
    <3>8. RacksJoined(e)
      BY <3>1, <3>3, <3>4, <3>7, PlacementParts
    <3>9. VariantJoined(e)
      BY <3>1, <3>6, ReadsJoin
    <3> QED BY <3>8, <3>9 DEF e
  <2> HIDE DEF E, keys
  <2>7. d.pc = "done" /\ d.answer.data = {E(k_) : k_ \in keys}
    BY <2>1, Ended DEF Answer
  <2> HIDE DEF c, d
  <2> QED BY <2>6, <2>7 DEF PartsPlacementIDs
<1> QED BY <1>1, <1>2, <1>3, <1>4, <1>5, <1>6, <1>7, <1>8

\* What a list of products has read so far.
PartsProducts(c) ==
  /\ c.pc \in {"products", "variants"} => "page" \in DOMAIN c.got
  /\ c.pc = "variants" =>
       /\ "products" \in DOMAIN c.got
       /\ \E i \in Moments :
            c.got.products = WithIds(History[i].products, {r.sku.product : r \in c.got.page})
  /\ AnsweredIn(c) => \A r \in c.answer.data : ProductJoined(r) /\ VariantJoined(r)

\* The statements of a list of products keep the parts of a sku together.
LEMMA PartsProductsStep ==
  ASSUME CallsInv, NEW w \in Workers, call[w].kind = "product_list",
         PartsProducts(call[w]), InventoryStep(w)
  PROVE  PartsProducts(call'[w])
<1>1. CountProducts(w) \/ PageProducts(w) \/ ProductsOfPage(w) \/ VariantsOfPage(w)
  BY DEF InventoryStep, InventoryRead, CheckPlacements, HistsOfPlacements, RacksOfPlacements,
     VariantsOfPlacements, ProductsOfPlacements, CheckPlacementsIDs, HistsOfIDs, SkusOfIDs,
     RacksOfIDs, VariantsOfIDs, ProductsOfIDs, CountSkus, PageSkus, ProductsOfSkus, SkusByIDs,
     ProductsByIDs, VariantsByIDs, ReadBlacklist, VariantsOfBlacklist, AddToBlacklist,
     RemoveFromBlacklist, At
<1> DEFINE c == call[w]
           d == call'[w]
<1> SUFFICES PartsProducts(d)
  OBVIOUS
<1>0. now \in Moments
  BY DEF CallsInv, Moments
<1>2. CASE Refuse(w) \/ Panic(w)
  BY <1>2, Unanswered DEF PartsProducts, AnsweredIn
<1>3. CASE CountProducts(w) /\ ~(Refuse(w) \/ Panic(w))
  <2>1. PICK rows : Keep(w, "count", rows, "page")
    BY <1>3 DEF CountProducts
  <2>2. d.pc = "page"
    BY <2>1, Kept
  <2> HIDE DEF d
  <2> QED BY <2>2 DEF PartsProducts, AnsweredIn
<1>4. CASE PageProducts(w)
  <2>1. PICK page : Keep(w, "page", page, "products")
    BY <1>4 DEF PageProducts
  <2>2. d.pc = "products" /\ "page" \in DOMAIN d.got
    BY <2>1, Kept
  <2> HIDE DEF d
  <2> QED BY <2>2 DEF PartsProducts, AnsweredIn
<1>5. CASE ProductsOfPage(w) /\ ~(Refuse(w) \/ Panic(w))
  <2>1. /\ {"page"} \subseteq DOMAIN c.got
    BY <1>5 DEF ProductsOfPage, At, PartsProducts
  <2> DEFINE rows == WithIds(Db.products, {r.sku.product : r \in Got(w).page})
  <2>2. Keep(w, "products", rows, "variants")
    BY <1>5 DEF ProductsOfPage
  <2>3. rows = WithIds(History[now].products, {r.sku.product : r \in c.got.page})
    BY DEF Db, Got
  <2> HIDE DEF rows
  <2>4. /\ d.pc = "variants" /\ d.pay = c.pay /\ {"page", "products"} \subseteq DOMAIN d.got
        /\ d.got["products"] = rows
        /\ d.got["page"] = c.got["page"]
    BY <2>1, <2>2, Kept
  <2> HIDE DEF c, d
  <2> QED BY <1>0, <2>1, <2>3, <2>4 DEF PartsProducts, AnsweredIn
<1>6. CASE VariantsOfPage(w)
  <2> DEFINE page == c.got.page
             products == c.got.products
             variants == WithIds(Db.variants, {r.sku.variant : r \in page})
             E(r) == [sku |-> r.sku, product |-> WithIds(products, {r.sku.product}),
                      variant |-> WithIds(variants, {r.sku.variant})]
  <2>1. Answer(w, {E(r) : r \in page})
    BY <1>6 DEF VariantsOfPage, Got
  <2>2. PICK i \in Moments : products = WithIds(History[i].products, {r.sku.product : r \in page})
    BY <1>6 DEF VariantsOfPage, At, PartsProducts
  <2> HIDE DEF page, products
  <2>3. ASSUME NEW r \in page
        PROVE  ProductJoined(E(r)) /\ VariantJoined(E(r))
    <3>1. r.sku.product \in {p.sku.product : p \in page}
      OBVIOUS
    <3>2. WithIds(products, {r.sku.product}) = WithIds(History[i].products, {r.sku.product})
      BY <2>2, <3>1, WithOneId
    <3>3. r.sku.variant \in {p.sku.variant : p \in page}
      OBVIOUS
    <3>4. WithIds(variants, {r.sku.variant}) = WithIds(History[now].variants, {r.sku.variant})
      BY <3>3, WithOneId DEF Db
    <3> DEFINE e == E(r)
    <3>5. /\ e.sku = r.sku /\ e.product = WithIds(History[i].products, {r.sku.product})
          /\ e.variant = WithIds(History[now].variants, {r.sku.variant})
      BY <3>2, <3>4
    <3> HIDE DEF e
    <3>6. ProductJoined(e) /\ VariantJoined(e)
      BY <1>0, <3>5, ReadsJoin
    <3> QED BY <3>6 DEF e
  <2> HIDE DEF E
  <2>4. d.pc = "done" /\ d.answer.data = {E(r) : r \in page}
    BY <2>1, Ended DEF Answer
  <2> HIDE DEF c, d
  <2> QED BY <2>3, <2>4 DEF PartsProducts
<1> QED BY <1>1, <1>2, <1>3, <1>4, <1>5, <1>6

\* The skus that were found by their ids, and what was read for them so far.
PartsSkus(c) ==
  /\ c.pc \in {"products", "variants"} => "skus" \in DOMAIN c.got
  /\ c.pc = "variants" =>
       /\ "products" \in DOMAIN c.got
       /\ \E i \in Moments :
            c.got.products = WithIds(History[i].products, {s.product : s \in c.got.skus})
  /\ AnsweredIn(c) => \A r \in c.answer.data : ProductJoined(r) /\ VariantJoined(r)

\* The statements for skus by their ids keep the parts of a sku together.
LEMMA PartsSkusStep ==
  ASSUME CallsInv, NEW w \in Workers, call[w].kind = "sku_ids",
         PartsSkus(call[w]), InventoryStep(w)
  PROVE  PartsSkus(call'[w])
<1>1. SkusByIDs(w) \/ ProductsByIDs(w) \/ VariantsByIDs(w)
  BY DEF InventoryStep, InventoryRead, CheckPlacements, HistsOfPlacements, RacksOfPlacements,
     VariantsOfPlacements, ProductsOfPlacements, CheckPlacementsIDs, HistsOfIDs, SkusOfIDs,
     RacksOfIDs, VariantsOfIDs, ProductsOfIDs, CountProducts, PageProducts, ProductsOfPage,
     VariantsOfPage, CountSkus, PageSkus, ProductsOfSkus, ReadBlacklist, VariantsOfBlacklist,
     AddToBlacklist, RemoveFromBlacklist, At
<1> DEFINE c == call[w]
           d == call'[w]
<1> SUFFICES PartsSkus(d)
  OBVIOUS
<1>0. now \in Moments
  BY DEF CallsInv, Moments
<1>2. CASE Refuse(w) \/ Panic(w)
  BY <1>2, Unanswered DEF PartsSkus, AnsweredIn
<1>3. CASE SkusByIDs(w)
  <2>1. PICK skus : Keep(w, "skus", skus, "products")
    BY <1>3 DEF SkusByIDs
  <2>2. d.pc = "products" /\ "skus" \in DOMAIN d.got
    BY <2>1, Kept
  <2> HIDE DEF d
  <2> QED BY <2>2 DEF PartsSkus, AnsweredIn
<1>4. CASE ProductsByIDs(w) /\ ~(Refuse(w) \/ Panic(w))
  <2>1. /\ {"skus"} \subseteq DOMAIN c.got
    BY <1>4 DEF ProductsByIDs, At, PartsSkus
  <2> DEFINE rows == WithIds(Db.products, {s.product : s \in Got(w).skus})
  <2>2. Keep(w, "products", rows, "variants")
    BY <1>4 DEF ProductsByIDs
  <2>3. rows = WithIds(History[now].products, {s.product : s \in c.got.skus})
    BY DEF Db, Got
  <2> HIDE DEF rows
  <2>4. /\ d.pc = "variants" /\ d.pay = c.pay /\ {"skus", "products"} \subseteq DOMAIN d.got
        /\ d.got["products"] = rows
        /\ d.got["skus"] = c.got["skus"]
    BY <2>1, <2>2, Kept
  <2> HIDE DEF c, d
  <2> QED BY <1>0, <2>1, <2>3, <2>4 DEF PartsSkus, AnsweredIn
<1>5. CASE VariantsByIDs(w)
  <2> DEFINE page == c.got.skus
             products == c.got.products
             variants == WithIds(Db.variants, {r.variant : r \in page})
             E(r) == [sku |-> r, product |-> WithIds(products, {r.product}),
                      variant |-> WithIds(variants, {r.variant})]
  <2>1. Answer(w, {E(r) : r \in page})
    BY <1>5 DEF VariantsByIDs, Got
  <2>2. PICK i \in Moments : products = WithIds(History[i].products, {r.product : r \in page})
    BY <1>5 DEF VariantsByIDs, At, PartsSkus
  <2> HIDE DEF page, products
  <2>3. ASSUME NEW r \in page
        PROVE  ProductJoined(E(r)) /\ VariantJoined(E(r))
    <3>1. r.product \in {p.product : p \in page}
      OBVIOUS
    <3>2. WithIds(products, {r.product}) = WithIds(History[i].products, {r.product})
      BY <2>2, <3>1, WithOneId
    <3>3. r.variant \in {p.variant : p \in page}
      OBVIOUS
    <3>4. WithIds(variants, {r.variant}) = WithIds(History[now].variants, {r.variant})
      BY <3>3, WithOneId DEF Db
    <3> DEFINE e == E(r)
    <3>5. /\ e.sku = r /\ e.product = WithIds(History[i].products, {r.product})
          /\ e.variant = WithIds(History[now].variants, {r.variant})
      BY <3>2, <3>4
    <3> HIDE DEF e
    <3>6. ProductJoined(e) /\ VariantJoined(e)
      BY <1>0, <3>5, ReadsJoin
    <3> QED BY <3>6 DEF e
  <2> HIDE DEF E
  <2>4. d.pc = "done" /\ d.answer.data = {E(r) : r \in page}
    BY <2>1, Ended DEF Answer
  <2> HIDE DEF c, d
  <2> QED BY <2>3, <2>4 DEF PartsSkus
<1> QED BY <1>1, <1>2, <1>3, <1>4, <1>5

\* A list of skus answers with what it reads last.
PartsSkuList(c) == AnsweredIn(c) => \A r \in c.answer.data : ProductJoined(r)

\* The statements of a list of skus keep a sku and its product together.
LEMMA PartsSkuListStep ==
  ASSUME CallsInv, NEW w \in Workers, call[w].kind = "sku_list",
         PartsSkuList(call[w]), InventoryStep(w)
  PROVE  PartsSkuList(call'[w])
<1>1. CountSkus(w) \/ PageSkus(w) \/ ProductsOfSkus(w)
  BY DEF InventoryStep, InventoryRead, CheckPlacements, HistsOfPlacements, RacksOfPlacements,
     VariantsOfPlacements, ProductsOfPlacements, CheckPlacementsIDs, HistsOfIDs, SkusOfIDs,
     RacksOfIDs, VariantsOfIDs, ProductsOfIDs, CountProducts, PageProducts, ProductsOfPage,
     VariantsOfPage, SkusByIDs, ProductsByIDs, VariantsByIDs, ReadBlacklist,
     VariantsOfBlacklist, AddToBlacklist, RemoveFromBlacklist, At
<1> DEFINE c == call[w]
           d == call'[w]
<1> SUFFICES PartsSkuList(d)
  OBVIOUS
<1>0. now \in Moments
  BY DEF CallsInv, Moments
<1>2. CASE Refuse(w) \/ Panic(w)
  BY <1>2, Unanswered DEF PartsSkuList, AnsweredIn
<1>3. CASE CountSkus(w)
  <2>1. PICK rows : Keep(w, "count", rows, "page")
    BY <1>3 DEF CountSkus
  <2>2. d.pc = "page"
    BY <2>1, Kept
  <2> HIDE DEF d
  <2> QED BY <2>2 DEF PartsSkuList, AnsweredIn
<1>4. CASE PageSkus(w)
  <2>1. PICK rows : Keep(w, "page", rows, "products")
    BY <1>4 DEF PageSkus
  <2>2. d.pc = "products"
    BY <2>1, Kept
  <2> HIDE DEF d
  <2> QED BY <2>2 DEF PartsSkuList, AnsweredIn
<1>5. CASE ProductsOfSkus(w) /\ ~Panic(w)
  <2> DEFINE skus == {r.sku : r \in c.got.page}
             products == WithIds(Db.products, {s.product : s \in skus})
             E(s) == [sku |-> s, product |-> WithIds(products, {s.product})]
  <2>1. Answer(w, {E(s) : s \in skus})
    BY <1>5 DEF ProductsOfSkus, Got
  <2> HIDE DEF skus
  <2>2. ASSUME NEW s \in skus
        PROVE  ProductJoined(E(s))
    <3>1. s.product \in {p.product : p \in skus}
      OBVIOUS
    <3>2. WithIds(products, {s.product}) = WithIds(History[now].products, {s.product})
      BY <3>1, WithOneId DEF Db
    <3> DEFINE e == E(s)
    <3>3. e.sku = s /\ e.product = WithIds(History[now].products, {s.product})
      BY <3>2
    <3> HIDE DEF e
    <3>4. ProductJoined(e)
      BY <1>0, <3>3, ReadsJoin
    <3> QED BY <3>4 DEF e
  <2> HIDE DEF E
  <2>3. d.pc = "done" /\ d.answer.data = {E(s) : s \in skus}
    BY <2>1, Ended DEF Answer
  <2> HIDE DEF c, d
  <2> QED BY <2>2, <2>3 DEF PartsSkuList
<1> QED BY <1>1, <1>2, <1>3, <1>4, <1>5 DEF ProductsOfSkus

\* The blacklist answers with what it reads last.
PartsBlacklist(c) == AnsweredIn(c) => \A r \in c.answer.data : VariantJoined(r)

\* The statements of the blacklist keep a sku and its variant together.
LEMMA PartsBlacklistStep ==
  ASSUME CallsInv, NEW w \in Workers, call[w].kind = "blacklist",
         PartsBlacklist(call[w]), InventoryStep(w)
  PROVE  PartsBlacklist(call'[w])
<1>1. ReadBlacklist(w) \/ VariantsOfBlacklist(w)
  BY DEF InventoryStep, InventoryRead, CheckPlacements, HistsOfPlacements, RacksOfPlacements,
     VariantsOfPlacements, ProductsOfPlacements, CheckPlacementsIDs, HistsOfIDs, SkusOfIDs,
     RacksOfIDs, VariantsOfIDs, ProductsOfIDs, CountProducts, PageProducts, ProductsOfPage,
     VariantsOfPage, CountSkus, PageSkus, ProductsOfSkus, SkusByIDs, ProductsByIDs,
     VariantsByIDs, AddToBlacklist, RemoveFromBlacklist, At
<1> DEFINE c == call[w]
           d == call'[w]
<1> SUFFICES PartsBlacklist(d)
  OBVIOUS
<1>0. now \in Moments
  BY DEF CallsInv, Moments
<1>2. CASE Refuse(w) \/ Panic(w)
  BY <1>2, Unanswered DEF PartsBlacklist, AnsweredIn
<1>3. CASE ReadBlacklist(w)
  <2>1. PICK rows : Keep(w, "skus", rows, "variants")
    BY <1>3 DEF ReadBlacklist
  <2>2. d.pc = "variants"
    BY <2>1, Kept
  <2> HIDE DEF d
  <2> QED BY <2>2 DEF PartsBlacklist, AnsweredIn
<1>4. CASE VariantsOfBlacklist(w) /\ ~Panic(w)
  <2> DEFINE skus == c.got.skus
             variants == WithIds(Db.variants, {r.sku.variant : r \in skus})
             E(r) == [sku |-> r.sku, listed |-> r.listed,
                      variant |-> WithIds(variants, {r.sku.variant})]
  <2>1. Answer(w, {E(r) : r \in skus})
    BY <1>4 DEF VariantsOfBlacklist, Got
  <2> HIDE DEF skus
  <2>2. ASSUME NEW r \in skus
        PROVE  VariantJoined(E(r))
    <3>1. r.sku.variant \in {p.sku.variant : p \in skus}
      OBVIOUS
    <3>2. WithIds(variants, {r.sku.variant}) = WithIds(History[now].variants, {r.sku.variant})
      BY <3>1, WithOneId DEF Db
    <3> DEFINE e == E(r)
    <3>3. e.sku = r.sku /\ e.variant = WithIds(History[now].variants, {r.sku.variant})
      BY <3>2
    <3> HIDE DEF e
    <3>4. VariantJoined(e)
      BY <1>0, <3>3, ReadsJoin
    <3> QED BY <3>4 DEF e
  <2> HIDE DEF E
  <2>3. d.pc = "done" /\ d.answer.data = {E(r) : r \in skus}
    BY <2>1, Ended DEF Answer
  <2> HIDE DEF c, d
  <2> QED BY <2>2, <2>3 DEF PartsBlacklist
<1> QED BY <1>1, <1>2, <1>3, <1>4 DEF VariantsOfBlacklist

-----------------------------------------------------------------------------
(* The parts of every answer. *)

Parts(c) ==
  /\ c.kind = "list" => PartsList(c)
  /\ c.kind = "detail" => PartsDetail(c)
  /\ c.kind = "detail_ids" => PartsDetailIDs(c)
  /\ c.kind = "by_product" => PartsByProduct(c)
  /\ c.kind = "order_search" => PartsSearch(c)
  /\ c.kind = "placements" => PartsPlacements(c)
  /\ c.kind = "placement_ids" => PartsPlacementIDs(c)
  /\ c.kind = "product_list" => PartsProducts(c)
  /\ c.kind = "sku_ids" => PartsSkus(c)
  /\ c.kind = "sku_list" => PartsSkuList(c)
  /\ c.kind = "blacklist" => PartsBlacklist(c)

\* Whatever is committed in between, each statement of a call has read rows that
\* some content of the tables had, for the rows that the call has read before.
PartsInv == \A w \in Workers : Parts(call[w])

\* Every statement keeps the parts of its call together.
LEMMA PartsStep ==
  ASSUME KeysAreUnique, LinesAgree, CallsInv, PartsInv, NEW w \in Workers, Serve(w) \/ Fail(w)
  PROVE  Parts(call'[w])
<1> DEFINE outbound == {"list", "detail", "detail_ids", "by_product", "order_search"}
           inventory == {"placements", "placement_ids", "product_list", "sku_list", "sku_ids",
                         "blacklist"}
<1>1. Goes(w)
  BY OutboundGoes, InventoryGoes, ListGoes, RegistryGoes, NotesGo DEF Serve, Fail, RegistryStep
<1>2. call'[w].kind = call[w].kind
  BY <1>1, Gone
<1>3. Parts(call[w])
  BY DEF PartsInv
<1>4. CASE OutboundStep(w)
  <2>1. call[w].kind \in outbound
    BY <1>4, OutboundGoes
  <2> QED
    BY <1>2, <1>3, <1>4, <2>1, PartsListStep, PartsDetailStep, PartsDetailIDsStep,
       PartsByProductStep, PartsSearchStep DEF Parts
<1>5. CASE InventoryStep(w)
  <2>1. call[w].kind \in inventory \cup {"blacklist_add", "blacklist_remove"}
    BY <1>5, InventoryGoes
  <2> QED
    BY <1>2, <1>3, <1>5, <2>1, PartsPlacementsStep, PartsPlacementIDsStep, PartsProductsStep,
       PartsSkusStep, PartsSkuListStep, PartsBlacklistStep DEF Parts
<1>6. CASE ~OutboundStep(w) /\ ~InventoryStep(w)
  <2>1. call[w].kind \notin outbound \cup inventory
    <3>1. CASE ListStep(w) \/ RegistryRead(w)
      BY <3>1, ListGoes
    <3>2. CASE CreateStep(w) \/ UpdateWarehouse(w) \/ DeleteWarehouse(w) \/ FailCreate(w)
      BY <3>2, RegistryGoes
    <3>3. CASE NotesStep(w) \/ FailNotes(w)
      BY <3>3, NotesGo
    <3> QED BY <1>6, <3>1, <3>2, <3>3 DEF Serve, Fail, RegistryStep
  <2> QED BY <1>2, <2>1 DEF Parts
<1> QED BY <1>4, <1>5, <1>6

\* A call that is entered has read nothing yet.
LEMMA PartsEntered == Parts(Idle) /\ \A r : Parts(Entered(r))
BY DEF Parts, PartsList, PartsDetail, PartsDetailIDs, PartsByProduct, PartsSearch, PartsPlacements,
   PartsPlacementIDs, PartsProducts, PartsSkus, PartsSkuList, PartsBlacklist, AnsweredIn, Idle,
   Entered, NoAnswer

\* No step takes the parts of an answer apart.
LEMMA PartsNext ==
  ASSUME KeysAreUnique, LinesAgree, CallsInv, PartsInv, [Next]_vars
  PROVE  PartsInv'
<1>1. CASE UNCHANGED call
  <2>1. \A w \in Workers : Parts(call'[w])
    BY <1>1 DEF PartsInv
  <2> QED BY <2>1 DEF PartsInv
<1>2. CASE \E w \in Workers : Serve(w) \/ Fail(w)
  <2>1. PICK w \in Workers : Serve(w) \/ Fail(w)
    BY <1>2
  <2>2. Goes(w)
    BY <2>1, OutboundGoes, InventoryGoes, ListGoes, RegistryGoes, NotesGo
       DEF Serve, Fail, RegistryStep
  <2>3. \A v \in Workers \ {w} : call'[v] = call[v]
    BY <2>2, Gone
  <2>4. Parts(call'[w])
    BY <2>1, PartsStep
  <2>5. \A v \in Workers : Parts(call'[v])
    BY <2>3, <2>4 DEF PartsInv
  <2> QED BY <2>5 DEF PartsInv
<1>3. CASE \E w \in Workers : Between(w)
  <2>1. PICK w \in Workers : Between(w)
    BY <1>3
  <2>2. /\ \A v \in Workers \ {w} : call'[v] = call[v]
        /\ call'[w] = Idle \/ \E r : call'[w] = Entered(r)
    <3>1. \/ call' = [call EXCEPT ![w] = Idle]
          \/ \E r : call' = [call EXCEPT ![w] = Entered(r)]
      BY <2>1 DEF Between, Return, Accept, Entered
    <3> QED BY <3>1 DEF CallsInv
  <2>3. \A v \in Workers : Parts(call'[v])
    BY <2>2, PartsEntered DEF PartsInv
  <2> QED BY <2>3 DEF PartsInv
<1>4. CASE Change
  BY <1>1, <1>4 DEF Change
<1> QED BY <1>1, <1>2, <1>3, <1>4 DEF Next, vars, tableVars

\* What an answer is made of belongs together.
LEMMA PartsBelong == PartsInv => PartsBelongTogether
<1> SUFFICES ASSUME PartsInv, NEW w \in Workers
             PROVE  OutboundJoined(w) /\ InventoryJoined(w)
  BY DEF PartsBelongTogether
<1>1. Parts(call[w])
  BY DEF PartsInv
<1>2. \A kind : Answered(w, kind) => call[w].kind = kind /\ AnsweredIn(call[w])
  BY DEF Answered, At, AnsweredIn
<1>3. OutboundJoined(w)
  <2>1. Answered(w, "list") =>
          \A r \in Data(w) : ItemsJoined(r) /\ OrderJoined(r) /\ CustomerJoined(r)
    BY <1>1, <1>2 DEF Parts, PartsList, Data
  <2>2. Answered(w, "detail") /\ Pay(w).all =>
          \A r \in Data(w) : ItemsJoined(r) /\ OrderJoined(r)
    BY <1>1, <1>2 DEF Parts, PartsDetail, Data, Pay
  <2>3. Answered(w, "detail_ids") /\ Pay(w).all =>
          \A r \in Data(w) : ItemsJoined(r) /\ OrderJoined(r)
    BY <1>1, <1>2 DEF Parts, PartsDetailIDs, Data, Pay
  <2>4. Answered(w, "by_product") => \A r \in Data(w) : VariationJoined(r, Pay(w).warehouse)
    BY <1>1, <1>2 DEF Parts, PartsByProduct, Data, Pay
  <2>5. Answered(w, "order_search") => \A r \in Data(w) : Unshared(r.order) => SearchJoined(r)
    BY <1>1, <1>2 DEF Parts, PartsSearch, Data
  <2> QED BY <2>1, <2>2, <2>3, <2>4, <2>5 DEF OutboundJoined
<1>4. InventoryJoined(w)
  <2>1. Answered(w, "placements") =>
          \A r \in Data(w) : RacksJoined(r) /\ VariantJoined(r) /\ r.product = r.sku.product
    BY <1>1, <1>2 DEF Parts, PartsPlacements, Data
  <2>2. Answered(w, "placement_ids") => \A r \in Data(w) : RacksJoined(r) /\ VariantJoined(r)
    BY <1>1, <1>2 DEF Parts, PartsPlacementIDs, Data
  <2>3. Answered(w, "product_list") => \A r \in Data(w) : ProductJoined(r) /\ VariantJoined(r)
    BY <1>1, <1>2 DEF Parts, PartsProducts, Data
  <2>4. Answered(w, "sku_ids") => \A r \in Data(w) : ProductJoined(r) /\ VariantJoined(r)
    BY <1>1, <1>2 DEF Parts, PartsSkus, Data
  <2>5. Answered(w, "sku_list") => \A r \in Data(w) : ProductJoined(r)
    BY <1>1, <1>2 DEF Parts, PartsSkuList, Data
  <2>6. Answered(w, "blacklist") => \A r \in Data(w) : VariantJoined(r)
    BY <1>1, <1>2 DEF Parts, PartsBlacklist, Data
  <2> QED BY <2>1, <2>2, <2>3, <2>4, <2>5, <2>6 DEF InventoryJoined
<1> QED BY <1>3, <1>4

\* outbound_list.go:424, outbound_detail_ids.go:80, outbound_by_product.go:215,
\* order_detail_search.go:161, placements_ids.go:82: with ids that are keys and lines of a variation that
\* name one product, an answer has under every row what the tables have for that
\* row, whatever is committed between the statements that read them.
THEOREM PartsBelongTogetherHolds ==
  ASSUME KeysAreUnique, LinesAgree
  PROVE  Spec => []PartsBelongTogether
<1>1. Init => PartsInv
  <2> SUFFICES ASSUME Init, NEW w \in Workers PROVE Parts(call[w])
    BY DEF PartsInv
  <2>1. call[w] = Idle
    BY DEF Init, TablesInit
  <2> QED BY <2>1, PartsEntered
<1>2. CallsInv /\ PartsInv /\ [Next]_vars => PartsInv'
  BY PartsNext
<1>3. PartsInv => PartsBelongTogether
  BY PartsBelong
<1> QED BY CallsHold, <1>1, <1>2, <1>3, PTL DEF Spec
=============================================================================
