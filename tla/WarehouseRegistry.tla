------------------------- MODULE WarehouseRegistry -------------------------
(***************************************************************************)
(* The registry of warehouses (v2/warehouse): create, which writes a team, *)
(* a warehouse of the same id and its owner in one transaction and then    *)
(* sends the id, and update, delete and the reads, one statement each.     *)
(***************************************************************************)
EXTENDS ServiceTables

CONSTANTS
  Times,            \* text that parses as HH:MM -> how the time is written
  FirstTeams,       \* rows of teams at the start
  FirstWarehouses,  \* rows of warehouses at the start
  FirstOwners       \* rows of user_team_roles at the start

ASSUME RegistryAssumption ==
  /\ IsFiniteSet(DOMAIN FirstTeams) /\ DOMAIN FirstTeams \subseteq Nat \ {0}
  /\ \A o \in FirstOwners : o.team \in DOMAIN FirstTeams
  /\ \A i \in DOMAIN FirstWarehouses :
       /\ DOMAIN FirstWarehouses[i] = {"name", "fee", "open", "deleted"}
       /\ FirstWarehouses[i].open \in {Times[s] : s \in DOMAIN Times} \cup {""}

VARIABLES
  teams,       \* id -> committed row of teams
  warehouses,  \* id -> committed row of warehouses
  owners,      \* committed rows of user_team_roles: [team, user]
  teamSeq      \* last id the sequence of teams gave out

registryVars == <<teams, warehouses, owners, teamSeq>>
registryRows == <<teams, warehouses, owners>>

RegistryInit ==
  /\ teams = FirstTeams
  /\ warehouses = FirstWarehouses
  /\ owners = FirstOwners
  /\ teamSeq = Max({0} \cup DOMAIN FirstTeams)

\* Mutant: the text is stored as it came.
RawHHMM(s) == s

\* parseHHMM, then formatHHMM: what is no time of a day is stored as none.
HHMM(s) == IF s \in DOMAIN Times THEN Times[s] ELSE ""

\* The columns of a message that create and update both write.
Columns(p) == [name |-> p.name, fee |-> p.fee, open |-> HHMM(p.open)]

NewRow(p) == [name |-> p.name, fee |-> p.fee, open |-> HHMM(p.open), deleted |-> FALSE]

-----------------------------------------------------------------------------
\* WarehouseCreate.  A rollback does not give an id back.

\* Mutant: the id after the largest in the table, not the next of the sequence.
InsertTeamAfterLast(w) ==
  /\ At(w, "create", "start")
  /\ IF Pay(w).user = 0 THEN Refuse(w) ELSE Keep(w, "team", Max(DOMAIN teams) + 1, "warehouse")
  /\ teamSeq' = teamSeq + 1
  /\ UNCHANGED registryRows

InsertTeam(w) ==
  /\ At(w, "create", "start")
  /\ IF Pay(w).user = 0 THEN Refuse(w) /\ UNCHANGED teamSeq
     ELSE Keep(w, "team", teamSeq + 1, "warehouse") /\ teamSeq' = teamSeq + 1
  /\ UNCHANGED registryRows

\* The id of the team may already be that of a warehouse.
InsertWarehouse(w) ==
  /\ At(w, "create", "warehouse")
  /\ IF Got(w).team \in DOMAIN warehouses THEN Refuse(w)
     ELSE Keep(w, "row", NewRow(Pay(w)), "owner")
  /\ UNCHANGED registryVars

InsertOwner(w) ==
  /\ At(w, "create", "owner")
  /\ Keep(w, "owner", [team |-> Got(w).team, user |-> Pay(w).user], "commit")
  /\ UNCHANGED registryVars

CommitCreate(w) ==
  /\ At(w, "create", "commit")
  /\ LET got == Got(w)
     IN  /\ teams' = Put(teams, got.team, [name |-> Pay(w).name])
         /\ warehouses' = Put(warehouses, got.team, got.row)
         /\ owners' = owners \cup {got.owner}
  /\ Keep(w, "committed", TRUE, "send")
  /\ UNCHANGED teamSeq

\* The last message of the stream carries the id.  When it cannot be sent, or
\* the answer to COMMIT was lost, the client sees an error.
SendCreated(w) ==
  /\ At(w, "create", "send")
  /\ \E tag \in {"ok", "lost"} : Ends(w, [tag |-> tag, data |-> Got(w).team])
  /\ UNCHANGED registryVars

\* A statement fails, or the client has gone and its context is cancelled; the
\* progress messages that could not be sent stop nothing.
FailCreate(w) ==
  /\ call[w].kind = "create" /\ call[w].pc \in {"start", "warehouse", "owner", "commit"}
  /\ Refuse(w)
  /\ UNCHANGED registryVars

-----------------------------------------------------------------------------
\* Update and delete find their row by its id alone; none is no error.

\* Mutant: Save of a row built from the message.
SaveWarehouse(w) ==
  /\ At(w, "update", "start")
  /\ warehouses' = [i \in DOMAIN warehouses |->
                      IF i = Pay(w).id THEN NewRow(Pay(w)) ELSE warehouses[i]]
  /\ Answer(w, {})
  /\ UNCHANGED <<teams, owners, teamSeq>>

UpdateWarehouse(w) ==
  /\ At(w, "update", "start")
  /\ warehouses' = [i \in DOMAIN warehouses |->
                      IF i = Pay(w).id
                      THEN [NewRow(Pay(w)) EXCEPT !.deleted = warehouses[i].deleted]
                      ELSE warehouses[i]]
  /\ Answer(w, {})
  /\ UNCHANGED <<teams, owners, teamSeq>>

DeleteWarehouse(w) ==
  /\ At(w, "delete", "start")
  /\ warehouses' = [i \in DOMAIN warehouses |->
                      IF i = Pay(w).id THEN [warehouses[i] EXCEPT !.deleted = TRUE]
                      ELSE warehouses[i]]
  /\ Answer(w, {})
  /\ UNCHANGED <<teams, owners, teamSeq>>

-----------------------------------------------------------------------------
\* The reads.

Shown == {i \in DOMAIN warehouses : ~warehouses[i].deleted}

Rows(ids) == {[id |-> i, row |-> warehouses[i]] : i \in ids}

WarehouseDetail(w) ==
  /\ At(w, "warehouse_detail", "start")
  /\ IF Pay(w).id \in Shown THEN Answer(w, Rows({Pay(w).id})) ELSE Refuse(w)

WarehouseIDs(w) ==
  /\ At(w, "warehouse_ids", "start")
  /\ Answer(w, Rows(DOMAIN warehouses \cap Pay(w).ids))

WarehouseList(w) ==
  /\ At(w, "warehouse_list", "start")
  /\ Answer(w, Rows({i \in Shown : Pay(w).q = "" \/ warehouses[i].name \in Like[Pay(w).q]}))

\* Warehouse.GetWarehouseFee: the fixed fee, which must be set, or a percentage
\* of the value, rounded up and in hundreds, at most the largest fee.
Fee(f, value) ==
  IF f.fixed THEN f.fix
  ELSE Min({f.max, 100 * ((value * f.percent + 99) \div 100)})

GetWarehouseFee(w) ==
  /\ At(w, "fee", "start")
  /\ IF Pay(w).id \notin Shown THEN Refuse(w)
     ELSE LET f == warehouses[Pay(w).id].fee
          IN  IF f.fixed /\ f.fix = 0 THEN Refuse(w) ELSE Answer(w, {Fee(f, Pay(w).value)})

-----------------------------------------------------------------------------
CreateStep(w) ==
  InsertTeam(w) \/ InsertWarehouse(w) \/ InsertOwner(w) \/ CommitCreate(w) \/ SendCreated(w)

RegistryRead(w) ==
  WarehouseDetail(w) \/ WarehouseIDs(w) \/ WarehouseList(w) \/ GetWarehouseFee(w)

RegistryStep(w) ==
  \/ CreateStep(w) \/ UpdateWarehouse(w) \/ DeleteWarehouse(w)
  \/ RegistryRead(w) /\ UNCHANGED registryVars
=============================================================================
