--------------------------- MODULE WarehouseLists --------------------------
(***************************************************************************)
(* The lists of v2/warehouse that are read for a warehouse: the teams that *)
(* sell from it, the racks that hold goods of some teams, and where a team *)
(* wants its returns.                                                      *)
(***************************************************************************)
EXTENDS WarehouseRegistry

Null == -1

-----------------------------------------------------------------------------
\* SellingTeamList.  The joins are left joins: a product that is gone is of no
\* team (NULL), and a team that is gone, or NULL, is a row of NULLs, which is
\* scanned as a team of id 0.  "seller", by which the query keeps rows of one id
\* apart, is not in the answer.
SellingTeams(d, f) ==
  LET sold == {p.product : p \in {p \in d.stocks : p.warehouse = f.warehouse /\ p.stock > 0}}
      TeamIds(product) == IF product \in Ids(d.products)
                          THEN {p.team : p \in WithIds(d.products, {product})} ELSE {Null}
      sellers == UNION {TeamIds(p) : p \in sold}
      Named(seller) == \E t \in WithIds(d.teams, {seller}) : t.name \in Like[f.q]
  IN  {[id |-> IF i \in Ids(d.teams) THEN i ELSE 0, seller |-> i, key |-> 0] :
         i \in {i \in sellers : f.q = "" \/ Named(i)}}

CountTeams(w) ==
  /\ At(w, "selling_teams", "start")
  /\ Keep(w, "count", Cardinality(SellingTeams(Db, Pay(w))), "page")

PageTeams(w) ==
  /\ At(w, "selling_teams", "page")
  /\ \E page \in Pages(SellingTeams(Db, Pay(w)), Pay(w).page) : Answer(w, page)

\* TeamRackList: what the skus of the teams have on each rack that exists.
TeamRackList(w) ==
  /\ At(w, "team_racks", "start")
  /\ LET f == Pay(w)
         skus == Ids({s \in Db.skus : s.team \in f.teams /\ s.warehouse = f.warehouse})
         On(r) == {p \in Db.placements : p.rack = r.id /\ p.sku \in skus}
     IN  Answer(w, {[id |-> r.id, count |-> MapThenSumSet(LAMBDA p : p.count, On(r))] :
                      r \in {r \in Db.racks : On(r) # {} /\ (f.q = "" \/ r.name \in Like[f.q])}})

-----------------------------------------------------------------------------
\* TeamWarehouseReturnInfo.  NULL in either column is a nil pointer; a deleted
\* warehouse is still found.
ReadReturnInfo(w) ==
  /\ At(w, "return_info", "start")
  /\ LET infos == {i \in Db.teamInfos : i.team = Pay(w).team}
     IN  IF infos = {} THEN Refuse(w)
         ELSE \E i \in infos :
                IF Null \in {i.warehouse, i.user} THEN Panic(w)
                ELSE Keep(w, "info", i, "warehouse")

ReturnWarehouse(w) ==
  /\ At(w, "return_info", "warehouse")
  /\ LET id == Got(w).info.warehouse
     IN  IF id \notin DOMAIN warehouses \cup {0} THEN Refuse(w)
         ELSE Keep(w, "warehouse", Rows({id} \ {0}), "user")

ReturnUser(w) ==
  /\ At(w, "return_info", "user")
  /\ LET id == Got(w).info.user
     IN  IF id \notin Ids(Db.users) \cup {0} THEN Refuse(w)
         ELSE Answer(w, {[warehouse |-> Got(w).warehouse, user |-> {id} \ {0}]})

-----------------------------------------------------------------------------
ListStep(w) ==
  \/ CountTeams(w) \/ PageTeams(w) \/ TeamRackList(w)
  \/ ReadReturnInfo(w) \/ ReturnWarehouse(w) \/ ReturnUser(w)
=============================================================================
