------------------------ MODULE ServiceWrites_proofs -----------------------
(***************************************************************************)
(* What the RPCs of v2 write: warehouses with their teams and owners, and  *)
(* the notes of transactions, for any workers, calls and contents of the   *)
(* tables.                                                                 *)
(***************************************************************************)
EXTENDS ServiceCalls_proofs

-----------------------------------------------------------------------------
(* The first ids of the sequences. *)

\* A finite set of numbers has a greatest: of its subsets that have none a
\* smallest would, without one of its elements, have none either.
LEMMA Greatest ==
  ASSUME NEW S, S \subseteq Nat, IsFiniteSet(S), S # {}
  PROVE  \E i \in S : \A j \in S : j <= i
<1> DEFINE Bad == {T \in SUBSET S : T # {} /\ \A i \in T : \E j \in T : ~(j <= i)}
<1>1. SUFFICES ASSUME Bad # {} PROVE FALSE
  <2>1. S \notin Bad
    BY <1>1
  <2> QED BY <2>1
<1>2. IsWellFoundedOn(StrictSubsetOrdering(S), SUBSET S)
  BY FS_StrictSubsetOrderingWellFounded, FS_FiniteSubsetsOfFinite
<1>3. Bad \subseteq SUBSET S
  OBVIOUS
<1>4. PICK T \in Bad : \A U \in Bad : <<U, T>> \notin StrictSubsetOrdering(S)
  <2> HIDE DEF Bad
  <2> QED BY <1>1, <1>2, <1>3, WFMin
<1>5. \A U \in Bad : ~(U \subseteq T /\ U # T)
  BY <1>3, <1>4 DEF StrictSubsetOrdering
<1>6. PICK i \in T : TRUE
  OBVIOUS
<1>7. PICK j \in T : ~(j <= i)
  OBVIOUS
<1> DEFINE U == T \ {i}
<1>8. \A k \in U : \E m \in U : ~(m <= k)
  <2> SUFFICES ASSUME NEW k \in U PROVE \E m \in U : ~(m <= k)
    OBVIOUS
  <2>1. PICK m \in T : ~(m <= k)
    OBVIOUS
  <2>2. CASE m # i
    BY <2>1, <2>2
  <2>3. CASE m = i
    BY <1>7, <2>1, <2>3
  <2> QED BY <2>2, <2>3
<1>9. j \in U /\ U \in SUBSET S
  BY <1>7
<1>10. U \in Bad
  BY <1>8, <1>9
<1> QED BY <1>5, <1>6, <1>10

\* A sequence starts behind the ids that are there.
LEMMA StartsBehind ==
  ASSUME NEW ids, ids \subseteq Nat, IsFiniteSet(ids)
  PROVE  Max({0} \cup ids) \in Nat /\ \A i \in ids : i <= Max({0} \cup ids)
<1> DEFINE S == {0} \cup ids
<1>1. S \subseteq Nat /\ S # {}
  OBVIOUS
<1>2. IsFiniteSet(S)
  BY FS_Singleton, FS_Union
<1> HIDE DEF S
<1>3. \E i \in S : \A j \in S : j <= i
  BY <1>1, <1>2, Greatest
<1>4. Max(S) \in S /\ \A j \in S : Max(S) >= j
  BY <1>1, <1>3 DEF Max
<1>5. Max(S) \in Nat /\ \A j \in S : j <= Max(S)
  BY <1>1, <1>4
<1> QED BY <1>5 DEF S

-----------------------------------------------------------------------------
(* What a create has done by its next statement. *)

\* A create that has the id of its team, and one whose COMMIT went through.
Numbered(c) == "team" \in DOMAIN c.got

Written(c) == c.pc = "send" \/ (c.pc = "done" /\ c.answer.tag \in {"ok", "lost"})

OwnersOf(os, id) == {o.user : o \in {o \in os : o.team = id}}

\* The team of a create is not in the table before its COMMIT, and with its
\* warehouse and its one owner from then on.
CreateOk(c, ts, ws, os, seq) ==
  /\ c.pc \in {"start", "warehouse", "owner", "commit", "send", "done"}
  /\ Numbered(c) => c.got.team \in 1 .. seq
  /\ c.pc = "start" => ~Numbered(c)
  /\ c.pc \in {"warehouse", "owner", "commit"} \/ Written(c) => Numbered(c)
  /\ Numbered(c) /\ ~Written(c) => c.got.team \notin DOMAIN ts
  /\ c.pc \in {"owner", "commit"} =>
       /\ "row" \in DOMAIN c.got /\ c.got.row = NewRow(c.pay)
       /\ c.got.team \notin DOMAIN ws
  /\ c.pc = "commit" =>
       "owner" \in DOMAIN c.got /\ c.got.owner = [team |-> c.got.team, user |-> c.pay.user]
  /\ Written(c) =>
       /\ c.got.team \in DOMAIN ts /\ ts[c.got.team].name = c.pay.name
       /\ c.got.team \in DOMAIN ws
       /\ OwnersOf(os, c.got.team) = {c.pay.user}
  /\ Written(c) /\ c.pc = "done" => c.answer.data = c.got.team

\* Ids are given out once, owners have a team and warehouses are whole rows.
RegistryRowsOk(ts, ws, os, seq) ==
  /\ seq \in Nat /\ DOMAIN ts \subseteq 1 .. seq
  /\ \A o \in os : o.team \in DOMAIN ts
  /\ \A i \in DOMAIN ws :
       /\ DOMAIN ws[i] = {"name", "fee", "open", "deleted"}
       /\ ws[i].open \in {Times[s] : s \in DOMAIN Times} \cup {""}

Creating(w) == call[w].kind = "create"

RegistryInv ==
  /\ RegistryRowsOk(teams, warehouses, owners, teamSeq)
  /\ \A w \in Workers : Creating(w) => CreateOk(call[w], teams, warehouses, owners, teamSeq)
  /\ \A v, w \in Workers :
       v # w /\ Creating(v) /\ Creating(w) /\ Numbered(call[v]) /\ Numbered(call[w])
       => call[v].got.team # call[w].got.team

\* What a step does to no row but those of one id.
Apart(id) ==
  /\ teamSeq <= teamSeq'
  /\ \A i : i # id =>
       /\ i \in DOMAIN teams' <=> i \in DOMAIN teams
       /\ i \in DOMAIN teams => teams'[i] = teams[i]
       /\ i \in DOMAIN warehouses' <=> i \in DOMAIN warehouses
  /\ \A o : o.team # id => (o \in owners' <=> o \in owners)

\* A create does not see what is done under another id.
LEMMA OtherCreates ==
  ASSUME NEW c, CreateOk(c, teams, warehouses, owners, teamSeq), NEW id, Apart(id),
         Numbered(c) => c.got.team # id, teamSeq \in Nat, teamSeq' \in Nat
  PROVE  CreateOk(c, teams', warehouses', owners', teamSeq')
<1>1. Numbered(c) => c.got.team \in 1 .. teamSeq'
  BY DEF CreateOk, Apart
<1>2. ASSUME Numbered(c)
      PROVE  OwnersOf(owners', c.got.team) = OwnersOf(owners, c.got.team)
  BY <1>2 DEF OwnersOf, Apart
<1>3. Written(c) => Numbered(c)
  BY DEF CreateOk
<1>4. c.pc \in {"owner", "commit"} => Numbered(c)
  BY DEF CreateOk
<1> QED BY <1>1, <1>2, <1>3, <1>4 DEF CreateOk, Apart

\* A step of one create leaves the registry whole when it writes under its own
\* id, which is no other create's.
LEMMA RegistryKept ==
  ASSUME RegistryInv, NEW w \in Workers, NEW id, Apart(id),
         \A v \in Workers \ {w} : call'[v] = call[v],
         \A v \in Workers \ {w} : Creating(v) /\ Numbered(call[v]) => call[v].got.team # id,
         RegistryRowsOk(teams', warehouses', owners', teamSeq'),
         call'[w].kind = "create" =>
           /\ CreateOk(call'[w], teams', warehouses', owners', teamSeq')
           /\ Numbered(call'[w]) =>
                \/ call'[w].got.team = id
                \/ Creating(w) /\ Numbered(call[w]) /\ call'[w].got.team = call[w].got.team
  PROVE  RegistryInv'
<1>1. teamSeq \in Nat /\ teamSeq' \in Nat
  BY DEF RegistryInv, RegistryRowsOk
<1>2. ASSUME NEW v \in Workers, call'[v].kind = "create"
      PROVE  CreateOk(call'[v], teams', warehouses', owners', teamSeq')
  <2>1. CASE v = w
    BY <1>2, <2>1
  <2>2. CASE v # w
    <3>1. call'[v] = call[v] /\ Creating(v)
      BY <1>2, <2>2 DEF Creating
    <3>2. CreateOk(call[v], teams, warehouses, owners, teamSeq)
      BY <3>1 DEF RegistryInv
    <3> QED BY <1>1, <2>2, <3>1, <3>2, OtherCreates
  <2> QED BY <2>1, <2>2
<1>3. ASSUME NEW v \in Workers, NEW u \in Workers, v # u, call'[v].kind = "create",
             call'[u].kind = "create", Numbered(call'[v]), Numbered(call'[u])
      PROVE  call'[v].got.team # call'[u].got.team
  BY <1>3 DEF RegistryInv, Creating
<1> QED BY <1>2, <1>3 DEF RegistryInv, Creating, CreateOk, Numbered, Written, OwnersOf,
           RegistryRowsOk, NewRow, HHMM

\* A step that writes no row of the registry goes on as its own create allows.
LEMMA RegistrySame ==
  ASSUME RegistryInv, NEW w \in Workers, \A v \in Workers \ {w} : call'[v] = call[v],
         UNCHANGED registryVars,
         call'[w].kind = "create" =>
           /\ CreateOk(call'[w], teams, warehouses, owners, teamSeq)
           /\ Numbered(call'[w]) =>
                Creating(w) /\ Numbered(call[w]) /\ call'[w].got.team = call[w].got.team
  PROVE  RegistryInv'
<1>0. /\ teams' = teams /\ warehouses' = warehouses /\ owners' = owners
      /\ teamSeq' = teamSeq /\ teamSeq \in Nat
  BY DEF registryVars, RegistryInv, RegistryRowsOk
<1>1. Apart(0)
  BY <1>0 DEF Apart
<1>2. ASSUME NEW v \in Workers, Creating(v), Numbered(call[v])
      PROVE  call[v].got.team # 0
  <2>1. call[v].got.team \in 1 .. teamSeq
    BY <1>2 DEF RegistryInv, CreateOk
  <2> QED BY <1>0, <2>1
<1>3. RegistryRowsOk(teams', warehouses', owners', teamSeq')
  BY DEF RegistryInv, registryVars
<1> QED BY <1>1, <1>2, <1>3, RegistryKept DEF registryVars

\* A create that was refused has left nothing behind.
LEMMA RefusedCreate ==
  ASSUME CallsInv, RegistryInv, NEW w \in Workers, Creating(w), Refuse(w),
         call[w].pc \in {"start", "warehouse", "owner", "commit"}
  PROVE  /\ CreateOk(call'[w], teams, warehouses, owners, teamSeq)
         /\ call'[w].got = call[w].got
<1>1. CreateOk(call[w], teams, warehouses, owners, teamSeq)
  BY DEF RegistryInv
<1>2. /\ call'[w].got = call[w].got /\ call'[w].pc = "done" /\ call'[w].answer.tag = "error"
      /\ call'[w].pay = call[w].pay
  BY Ended DEF Refuse
<1>3. ~Written(call[w]) /\ ~Written(call'[w])
  BY <1>2 DEF Written
<1> QED BY <1>1, <1>2, <1>3 DEF CreateOk, Numbered

\* The team's id is the next one, which nobody has.
LEMMA InsertTeamKeeps ==
  ASSUME CallsInv, RegistryInv, NEW w \in Workers, InsertTeam(w),
         \A v \in Workers \ {w} : call'[v] = call[v]
  PROVE  RegistryInv'
<1>1. Creating(w) /\ call[w].pc = "start"
  BY DEF InsertTeam, At, Creating
<1>2. RegistryRowsOk(teams, warehouses, owners, teamSeq)
  BY DEF RegistryInv
<1>3. CASE Pay(w).user = 0
  <2>1. Refuse(w) /\ UNCHANGED registryVars
    BY <1>3 DEF InsertTeam, registryVars, registryRows
  <2> QED BY <1>1, <2>1, RefusedCreate, RegistrySame DEF Numbered
<1>4. CASE Pay(w).user # 0
  <2> DEFINE id == teamSeq + 1
  <2>1. /\ Keep(w, "team", id, "warehouse") /\ teamSeq' = id
        /\ teams' = teams /\ warehouses' = warehouses /\ owners' = owners
    BY <1>4 DEF InsertTeam, registryRows
  <2>2. /\ teamSeq \in Nat /\ DOMAIN teams \subseteq 1 .. teamSeq
    BY <1>2 DEF RegistryRowsOk
  <2>3. id \in 1 .. id /\ id \notin 1 .. teamSeq /\ teamSeq <= id /\ id \in Nat
        /\ 1 .. teamSeq \subseteq 1 .. id
    BY <2>2
  <2>4. \A v \in Workers : Creating(v) /\ Numbered(call[v]) => call[v].got.team # id
    BY <2>3 DEF RegistryInv, CreateOk
  <2> HIDE DEF id
  <2>5. Apart(id)
    BY <2>1, <2>3 DEF Apart
  <2>6. RegistryRowsOk(teams', warehouses', owners', teamSeq')
    BY <1>2, <2>1, <2>2, <2>3 DEF RegistryRowsOk
  <2>7. /\ "team" \in DOMAIN call'[w].got /\ call'[w].got["team"] = id
        /\ call'[w].pc = "warehouse"
    BY <2>1, Kept
  <2>8. CreateOk(call'[w], teams', warehouses', owners', teamSeq')
    BY <2>1, <2>2, <2>3, <2>7 DEF CreateOk, Numbered, Written
  <2> QED BY <2>4, <2>5, <2>6, <2>7, <2>8, RegistryKept
<1> QED BY <1>3, <1>4

\* The warehouse is to have the id of the team.
LEMMA InsertWarehouseKeeps ==
  ASSUME CallsInv, RegistryInv, NEW w \in Workers, InsertWarehouse(w),
         \A v \in Workers \ {w} : call'[v] = call[v]
  PROVE  RegistryInv'
<1>1. Creating(w) /\ call[w].pc = "warehouse" /\ UNCHANGED registryVars
  BY DEF InsertWarehouse, At, Creating
<1>2. CreateOk(call[w], teams, warehouses, owners, teamSeq)
  BY <1>1 DEF RegistryInv
<1>3. CASE Got(w).team \in DOMAIN warehouses
  <2>1. Refuse(w)
    BY <1>3 DEF InsertWarehouse
  <2> QED BY <1>1, <2>1, RefusedCreate, RegistrySame DEF Numbered
<1>4. CASE Got(w).team \notin DOMAIN warehouses
  <2> DEFINE row == NewRow(call[w].pay)
  <2>1. Keep(w, "row", row, "owner")
    BY <1>4 DEF InsertWarehouse, Pay
  <2> HIDE DEF row
  <2>2. /\ "team" \in DOMAIN call[w].got /\ call[w].got["team"] \in 1 .. teamSeq
        /\ call[w].got["team"] \notin DOMAIN teams
    BY <1>1, <1>2 DEF CreateOk, Numbered, Written
  <2>3. /\ "team" \in DOMAIN call'[w].got /\ call'[w].got["team"] = call[w].got["team"]
        /\ "row" \in DOMAIN call'[w].got /\ call'[w].got["row"] = row
        /\ call'[w].pc = "owner" /\ call'[w].pay = call[w].pay
    BY <2>1, <2>2, Kept
  <2>4. CreateOk(call'[w], teams, warehouses, owners, teamSeq)
    BY <1>4, <2>2, <2>3 DEF CreateOk, Numbered, Written, Got, row
  <2> QED BY <1>1, <2>2, <2>3, <2>4, RegistrySame DEF Numbered
<1> QED BY <1>3, <1>4

\* The owner is to be the user of the message.
LEMMA InsertOwnerKeeps ==
  ASSUME CallsInv, RegistryInv, NEW w \in Workers, InsertOwner(w),
         \A v \in Workers \ {w} : call'[v] = call[v]
  PROVE  RegistryInv'
<1> DEFINE owner == [team |-> call[w].got.team, user |-> call[w].pay.user]
<1>1. Creating(w) /\ call[w].pc = "owner" /\ UNCHANGED registryVars
  BY DEF InsertOwner, At, Creating
<1>2. CreateOk(call[w], teams, warehouses, owners, teamSeq)
  BY <1>1 DEF RegistryInv
<1>3. Keep(w, "owner", owner, "commit")
  BY DEF InsertOwner, Pay, Got
<1> HIDE DEF owner
<1>4. /\ "team" \in DOMAIN call[w].got /\ call[w].got["team"] \in 1 .. teamSeq
      /\ call[w].got["team"] \notin DOMAIN teams
      /\ "row" \in DOMAIN call[w].got /\ call[w].got["row"] = NewRow(call[w].pay)
      /\ call[w].got["team"] \notin DOMAIN warehouses
  BY <1>1, <1>2 DEF CreateOk, Numbered, Written
<1>5. /\ "team" \in DOMAIN call'[w].got /\ call'[w].got["team"] = call[w].got["team"]
      /\ "row" \in DOMAIN call'[w].got /\ call'[w].got["row"] = call[w].got["row"]
      /\ "owner" \in DOMAIN call'[w].got /\ call'[w].got["owner"] = owner
      /\ call'[w].pc = "commit" /\ call'[w].pay = call[w].pay
  BY <1>3, <1>4, Kept
<1>6. owner = [team |-> call'[w].got["team"], user |-> call'[w].pay.user]
  BY <1>5 DEF owner
<1>7. CreateOk(call'[w], teams, warehouses, owners, teamSeq)
  BY <1>4, <1>5, <1>6 DEF CreateOk, Numbered, Written
<1> QED BY <1>1, <1>4, <1>5, <1>7, RegistrySame DEF Numbered

\* What create and update write is a whole row.
LEMMA NewRowIs ==
  ASSUME NEW p
  PROVE  /\ DOMAIN NewRow(p) = {"name", "fee", "open", "deleted"}
         /\ NewRow(p).open \in {Times[s] : s \in DOMAIN Times} \cup {""}
         /\ NewRow(p).deleted = FALSE
         /\ Row(NewRow(p)) = Columns(p)
BY DEF NewRow, HHMM, Row, Columns

\* A COMMIT adds the team, its warehouse and its owner at once, all three under
\* an id that none of the tables has.
LEMMA CommitWrites ==
  ASSUME CallsInv, RegistryInv, NEW w \in Workers, CommitCreate(w)
  PROVE  \E id :
           /\ id = call[w].got.team /\ id \in 1 .. teamSeq /\ teamSeq' = teamSeq
           /\ id \notin DOMAIN teams /\ id \notin DOMAIN warehouses
           /\ DOMAIN teams' = DOMAIN teams \cup {id}
           /\ teams'[id] = [name |-> call[w].pay.name]
           /\ \A i \in DOMAIN teams : teams'[i] = teams[i]
           /\ DOMAIN warehouses' = DOMAIN warehouses \cup {id}
           /\ warehouses'[id] = NewRow(call[w].pay)
           /\ \A i \in DOMAIN warehouses : warehouses'[i] = warehouses[i]
           /\ owners' = owners \cup {[team |-> id, user |-> call[w].pay.user]}
           /\ \A o \in owners : o.team # id
<1> DEFINE id == call[w].got.team
           team == [name |-> call[w].pay.name]
           row == NewRow(call[w].pay)
           owner == [team |-> id, user |-> call[w].pay.user]
<1>1. call[w].kind = "create" /\ call[w].pc = "commit"
  BY DEF CommitCreate, At
<1>2. CreateOk(call[w], teams, warehouses, owners, teamSeq)
  BY <1>1 DEF RegistryInv, Creating
<1>3. /\ id \in 1 .. teamSeq /\ id \notin DOMAIN teams /\ id \notin DOMAIN warehouses
      /\ call[w].got.row = row /\ call[w].got.owner = owner
  BY <1>1, <1>2 DEF CreateOk, Numbered, Written
<1>4. /\ teams' = Put(teams, id, team) /\ warehouses' = Put(warehouses, id, row)
      /\ owners' = owners \cup {owner} /\ teamSeq' = teamSeq
  BY <1>3 DEF CommitCreate, Got, Pay
<1>5. \A o \in owners : o.team # id
  BY <1>3 DEF RegistryInv, RegistryRowsOk
<1> HIDE DEF id, team, row, owner
<1>6. /\ DOMAIN teams' = DOMAIN teams \cup {id} /\ teams'[id] = team
      /\ \A i \in DOMAIN teams : teams'[i] = teams[i]
  <2>1. teams' = Put(teams, id, team) /\ id \notin DOMAIN teams
    BY <1>3, <1>4
  <2> QED BY <2>1 DEF Put
<1>7. /\ DOMAIN warehouses' = DOMAIN warehouses \cup {id} /\ warehouses'[id] = row
      /\ \A i \in DOMAIN warehouses : warehouses'[i] = warehouses[i]
  <2>1. warehouses' = Put(warehouses, id, row) /\ id \notin DOMAIN warehouses
    BY <1>3, <1>4
  <2> QED BY <2>1 DEF Put
<1>8. /\ id = call[w].got.team /\ team = [name |-> call[w].pay.name]
      /\ row = NewRow(call[w].pay) /\ owner = [team |-> id, user |-> call[w].pay.user]
  BY DEF id, team, row, owner
<1> QED BY <1>3, <1>4, <1>5, <1>6, <1>7, <1>8

\* And leaves the registry whole.
LEMMA CommitCreateKeeps ==
  ASSUME CallsInv, RegistryInv, NEW w \in Workers, CommitCreate(w),
         \A v \in Workers \ {w} : call'[v] = call[v]
  PROVE  RegistryInv'
<1>1. PICK id :
        /\ id = call[w].got.team /\ id \in 1 .. teamSeq /\ teamSeq' = teamSeq
        /\ id \notin DOMAIN teams /\ id \notin DOMAIN warehouses
        /\ DOMAIN teams' = DOMAIN teams \cup {id}
        /\ teams'[id] = [name |-> call[w].pay.name]
        /\ \A i \in DOMAIN teams : teams'[i] = teams[i]
        /\ DOMAIN warehouses' = DOMAIN warehouses \cup {id}
        /\ warehouses'[id] = NewRow(call[w].pay)
        /\ \A i \in DOMAIN warehouses : warehouses'[i] = warehouses[i]
        /\ owners' = owners \cup {[team |-> id, user |-> call[w].pay.user]}
        /\ \A o \in owners : o.team # id
  BY CommitWrites
<1>2. /\ call[w].kind = "create" /\ call[w].pc = "commit"
      /\ \E rows : Keep(w, "committed", rows, "send")
  BY DEF CommitCreate, At
<1>3. CreateOk(call[w], teams, warehouses, owners, teamSeq)
  BY <1>2 DEF RegistryInv, Creating
<1>4. "team" \in DOMAIN call[w].got
  BY <1>2, <1>3 DEF CreateOk, Numbered
<1>5. /\ "team" \in DOMAIN call'[w].got /\ call'[w].got["team"] = id
      /\ call'[w].pc = "send" /\ call'[w].pay = call[w].pay /\ call'[w].kind = "create"
  <2>1. PICK rows : Keep(w, "committed", rows, "send")
    BY <1>2
  <2>2. id = call[w].got["team"]
    BY <1>1
  <2> QED BY <1>2, <1>4, <2>1, <2>2, Kept
<1>6. OwnersOf(owners', id) = {call[w].pay.user}
  <2> DEFINE owner == [team |-> id, user |-> call[w].pay.user]
  <2>1. owner.team = id /\ owner.user = call[w].pay.user
    OBVIOUS
  <2>2. owners' = owners \cup {owner} /\ \A o \in owners : o.team # id
    BY <1>1
  <2> HIDE DEF owner
  <2>3. {o \in owners' : o.team = id} = {owner}
    BY <2>1, <2>2
  <2> QED BY <2>1, <2>3 DEF OwnersOf
<1>7. teams'[id].name = call[w].pay.name
  BY <1>1
<1>8. CreateOk(call'[w], teams', warehouses', owners', teamSeq')
  BY <1>1, <1>5, <1>6, <1>7 DEF CreateOk, Numbered, Written
<1>9. Apart(id)
  <2>1. teamSeq \in Nat
    BY DEF RegistryInv, RegistryRowsOk
  <2> QED BY <1>1, <2>1 DEF Apart
<1>10. \A v \in Workers \ {w} : Creating(v) /\ Numbered(call[v]) => call[v].got.team # id
  BY <1>1, <1>2, <1>4 DEF RegistryInv, Creating, Numbered
<1>11. RegistryRowsOk(teams', warehouses', owners', teamSeq')
  <2>1. RegistryRowsOk(teams, warehouses, owners, teamSeq)
    BY DEF RegistryInv
  <2>2. \A o \in owners' : o.team \in DOMAIN teams'
    <3>1. owners' = owners \cup {[team |-> id, user |-> call[w].pay.user]}
      BY <1>1
    <3>2. DOMAIN teams' = DOMAIN teams \cup {id} /\ \A o \in owners : o.team \in DOMAIN teams
      BY <1>1, <2>1 DEF RegistryRowsOk
    <3> QED BY <3>1, <3>2
  <2>3. \A i \in DOMAIN warehouses' :
          /\ DOMAIN warehouses'[i] = {"name", "fee", "open", "deleted"}
          /\ warehouses'[i].open \in {Times[s] : s \in DOMAIN Times} \cup {""}
    <3> DEFINE row == NewRow(call[w].pay)
    <3>1. /\ DOMAIN row = {"name", "fee", "open", "deleted"}
          /\ row.open \in {Times[s] : s \in DOMAIN Times} \cup {""}
      BY NewRowIs
    <3>2. /\ DOMAIN warehouses' = DOMAIN warehouses \cup {id} /\ warehouses'[id] = row
          /\ \A i \in DOMAIN warehouses : warehouses'[i] = warehouses[i]
      BY <1>1
    <3> HIDE DEF row
    <3> QED BY <2>1, <3>1, <3>2 DEF RegistryRowsOk
  <2> QED BY <1>1, <2>1, <2>2, <2>3 DEF RegistryRowsOk
<1> QED BY <1>5, <1>8, <1>9, <1>10, <1>11, RegistryKept

\* What is sent is the id, whether it arrives or not.
LEMMA SendCreatedKeeps ==
  ASSUME CallsInv, RegistryInv, NEW w \in Workers, SendCreated(w),
         \A v \in Workers \ {w} : call'[v] = call[v]
  PROVE  RegistryInv'
<1>1. PICK tag \in {"ok", "lost"} : Ends(w, [tag |-> tag, data |-> call[w].got.team])
  BY DEF SendCreated, Got
<1>2. Creating(w) /\ call[w].pc = "send" /\ UNCHANGED registryVars
  BY DEF SendCreated, At, Creating
<1>3. CreateOk(call[w], teams, warehouses, owners, teamSeq)
  BY <1>2 DEF RegistryInv
<1>4. /\ call'[w].answer.tag = tag /\ call'[w].answer.data = call[w].got.team
      /\ call'[w].pc = "done" /\ call'[w].got = call[w].got /\ call'[w].pay = call[w].pay
  BY <1>1, Ended
<1>5. CreateOk(call'[w], teams, warehouses, owners, teamSeq)
  BY <1>2, <1>3, <1>4 DEF CreateOk, Numbered, Written
<1>6. Numbered(call[w])
  BY <1>2, <1>3 DEF CreateOk, Written
<1> QED BY <1>2, <1>4, <1>5, <1>6, RegistrySame

\* Update and delete write whole rows, and no row appears or disappears.
LEMMA RowsRewritten ==
  ASSUME RegistryInv, NEW w \in Workers, UpdateWarehouse(w) \/ DeleteWarehouse(w)
  PROVE  /\ UNCHANGED <<teams, owners, teamSeq>>
         /\ DOMAIN warehouses' = DOMAIN warehouses
         /\ RegistryRowsOk(teams', warehouses', owners', teamSeq')
<1>1. RegistryRowsOk(teams, warehouses, owners, teamSeq)
  BY DEF RegistryInv
<1>2. UNCHANGED <<teams, owners, teamSeq>>
  BY DEF UpdateWarehouse, DeleteWarehouse
<1>3. \E id : warehouses' = [i \in DOMAIN warehouses |->
        IF i = id THEN warehouses'[id] ELSE warehouses[i]]
  BY DEF UpdateWarehouse, DeleteWarehouse
<1>4. ASSUME NEW i \in DOMAIN warehouses
      PROVE  /\ DOMAIN warehouses'[i] = {"name", "fee", "open", "deleted"}
             /\ warehouses'[i].open \in {Times[s] : s \in DOMAIN Times} \cup {""}
  <2> DEFINE row == NewRow(Pay(w))
  <2>1. /\ DOMAIN warehouses[i] = {"name", "fee", "open", "deleted"}
        /\ warehouses[i].open \in {Times[s] : s \in DOMAIN Times} \cup {""}
    BY <1>1 DEF RegistryRowsOk
  <2>2. /\ DOMAIN row = {"name", "fee", "open", "deleted"}
        /\ row.open \in {Times[s] : s \in DOMAIN Times} \cup {""}
    BY NewRowIs
  <2> HIDE DEF row
  <2>3. \/ warehouses'[i] = warehouses[i]
        \/ warehouses'[i] = [row EXCEPT !.deleted = warehouses[i].deleted]
        \/ warehouses'[i] = [warehouses[i] EXCEPT !.deleted = TRUE]
    BY DEF UpdateWarehouse, DeleteWarehouse, row
  <2> QED BY <2>1, <2>2, <2>3
<1>5. DOMAIN warehouses' = DOMAIN warehouses
  BY DEF UpdateWarehouse, DeleteWarehouse
<1> QED BY <1>1, <1>2, <1>4, <1>5 DEF RegistryRowsOk

\* So no create notices.
LEMMA RewriteKeeps ==
  ASSUME CallsInv, RegistryInv, NEW w \in Workers, UpdateWarehouse(w) \/ DeleteWarehouse(w),
         \A v \in Workers \ {w} : call'[v] = call[v], call'[w].kind = call[w].kind
  PROVE  RegistryInv'
<1>1. teamSeq \in Nat
  BY DEF RegistryInv, RegistryRowsOk
<1>2. Apart(0)
  BY <1>1, RowsRewritten DEF Apart
<1>3. ASSUME NEW v \in Workers, Creating(v), Numbered(call[v])
      PROVE  call[v].got.team # 0
  <2>1. call[v].got.team \in 1 .. teamSeq
    BY <1>3 DEF RegistryInv, CreateOk
  <2> QED BY <1>1, <2>1
<1>4. call'[w].kind # "create"
  BY DEF UpdateWarehouse, DeleteWarehouse, At
<1> QED BY <1>2, <1>3, <1>4, RowsRewritten, RegistryKept

\* A call that is about something else does not touch the registry.
LEMMA OtherKindsKeep ==
  ASSUME RegistryInv, NEW w \in Workers, \A v \in Workers \ {w} : call'[v] = call[v],
         UNCHANGED registryVars, call'[w].kind # "create"
  PROVE  RegistryInv'
BY RegistrySame

\* Every step leaves the registry whole.
LEMMA RegistryNext ==
  ASSUME CallsInv, RegistryInv, [Next]_vars
  PROVE  RegistryInv'
<1>1. CASE UNCHANGED <<call, registryVars>>
  BY <1>1 DEF RegistryInv, Creating, CreateOk, Numbered, Written, OwnersOf, RegistryRowsOk,
     registryVars
<1>2. CASE \E w \in Workers : Serve(w) \/ Fail(w)
  <2>1. PICK w \in Workers : Serve(w) \/ Fail(w)
    BY <1>2
  <2>2. Goes(w)
    BY <2>1, OutboundGoes, InventoryGoes, ListGoes, RegistryGoes, NotesGo
       DEF Serve, Fail, RegistryStep
  <2>3. (\A v \in Workers \ {w} : call'[v] = call[v]) /\ call'[w].kind = call[w].kind
    BY <2>2, Gone
  <2>4. CASE CreateStep(w)
    BY <2>3, <2>4, InsertTeamKeeps, InsertWarehouseKeeps, InsertOwnerKeeps, CommitCreateKeeps,
       SendCreatedKeeps DEF CreateStep
  <2>5. CASE UpdateWarehouse(w) \/ DeleteWarehouse(w)
    BY <2>3, <2>5, RewriteKeeps
  <2>6. CASE FailCreate(w)
    BY <2>3, <2>6, RefusedCreate, RegistrySame DEF FailCreate, Creating, Numbered
  <2>7. CASE UNCHANGED registryVars /\ call[w].kind # "create"
    BY <2>3, <2>7, OtherKindsKeep
  <2>8. \/ CreateStep(w) \/ UpdateWarehouse(w) \/ DeleteWarehouse(w) \/ FailCreate(w)
        \/ UNCHANGED registryVars /\ call[w].kind # "create"
    BY <2>1, OutboundGoes, InventoryGoes, ListGoes, NotesGo DEF Serve, Fail, RegistryStep
  <2> QED BY <2>4, <2>5, <2>6, <2>7, <2>8
<1>3. CASE \E w \in Workers : Between(w)
  <2>1. PICK w \in Workers : Between(w)
    BY <1>3
  <2>2. /\ \A v \in Workers \ {w} : call'[v] = call[v]
        /\ call'[w] = Idle \/ \E r : call'[w] = Entered(r)
    <3>1. \/ call' = [call EXCEPT ![w] = Idle]
          \/ \E r : call' = [call EXCEPT ![w] = Entered(r)]
      BY <2>1 DEF Between, Return, Accept, Entered
    <3> QED BY <3>1 DEF CallsInv
  <2>3. UNCHANGED registryVars
    BY <2>1 DEF Between
  <2>4. CASE call'[w] = Idle
    BY <2>2, <2>3, <2>4, OtherKindsKeep DEF Idle
  <2>5. CASE \E r : call'[w] = Entered(r)
    <3>1. CreateOk(call'[w], teams, warehouses, owners, teamSeq) /\ ~Numbered(call'[w])
      BY <2>5 DEF CreateOk, Numbered, Written, Entered, NoRows, NoAnswer
    <3> QED BY <2>2, <2>3, <3>1, RegistrySame
  <2> QED BY <2>2, <2>4, <2>5
<1>4. CASE Change /\ UNCHANGED <<blacklist, registryVars, noteVars>>
  BY <1>1, <1>4 DEF Change
<1> QED BY <1>1, <1>2, <1>3, <1>4 DEF Next, vars, tableVars

\* The registry is whole at the start.
LEMMA RegistryInitOk == Init => RegistryInv
<1> SUFFICES ASSUME Init PROVE RegistryInv
  OBVIOUS
<1>1. Max({0} \cup DOMAIN FirstTeams) \in Nat
      /\ \A i \in DOMAIN FirstTeams : i <= Max({0} \cup DOMAIN FirstTeams)
  BY StartsBehind, RegistryAssumption
<1>2. /\ teams = FirstTeams /\ warehouses = FirstWarehouses /\ owners = FirstOwners
      /\ teamSeq = Max({0} \cup DOMAIN FirstTeams)
  BY DEF Init, RegistryInit
<1>3. RegistryRowsOk(teams, warehouses, owners, teamSeq)
  <2>1. teamSeq \in Nat /\ \A i \in DOMAIN teams : i <= teamSeq
    BY <1>1, <1>2
  <2>2. DOMAIN teams \subseteq Nat \ {0}
    BY <1>2, RegistryAssumption
  <2>3. DOMAIN teams \subseteq 1 .. teamSeq
    <3> SUFFICES ASSUME NEW i \in DOMAIN teams PROVE i \in 1 .. teamSeq
      OBVIOUS
    <3> QED BY <2>1, <2>2
  <2> QED BY <1>2, <2>1, <2>3, RegistryAssumption DEF RegistryRowsOk
<1>4. \A w \in Workers : call[w].kind = "none"
  BY DEF Init, TablesInit, Idle
<1> QED BY <1>3, <1>4 DEF RegistryInv, Creating

\* What is proved of the registry holds of every behaviour.
LEMMA RegistryHolds == Spec => [](CallsInv /\ RegistryInv)
<1>1. CallsInv /\ RegistryInv /\ [Next]_vars => (CallsInv /\ RegistryInv)'
  BY CallsNext, RegistryNext
<1> QED BY <1>1, CallsInit, RegistryInitOk, PTL DEF Spec

\* warehouse_create.go:40, 86: what a create answers is what the tables have: the
\* team, the warehouse and its one owner when an id was answered or its answer
\* was lost, and nothing when there was an error, whatever other calls did.
THEOREM CreateAnswersBookHolds == Spec => []CreateAnswersBook
<1>1. ASSUME CallsInv, RegistryInv
      PROVE  CreateAnswersBook
  <2> DEFINE id(w) == IF "team" \in DOMAIN Got(w) THEN Got(w).team ELSE 0
             ownersOf(w) == {o.user : o \in {o \in owners : o.team = id(w)}}
  <2>1. SUFFICES ASSUME NEW w \in Workers, At(w, "create", "done")
        PROVE  IF call[w].answer.tag \in {"ok", "lost"}
               THEN /\ call[w].answer.data = id(w)
                    /\ id(w) \in DOMAIN teams /\ teams[id(w)].name = Pay(w).name
                    /\ id(w) \in DOMAIN warehouses
                    /\ ownersOf(w) = {Pay(w).user}
               ELSE id(w) \notin DOMAIN teams /\ ownersOf(w) = {}
    BY DEF CreateAnswersBook
  <2>2. CreateOk(call[w], teams, warehouses, owners, teamSeq)
    BY <1>1, <2>1 DEF RegistryInv, Creating, At
  <2>3. RegistryRowsOk(teams, warehouses, owners, teamSeq)
    BY <1>1 DEF RegistryInv
  <2>4. call[w].pc = "done"
    BY <2>1 DEF At
  <2>5. CASE call[w].answer.tag \in {"ok", "lost"}
    <3>1. Written(call[w])
      BY <2>4, <2>5 DEF Written
    <3>2. id(w) = call[w].got.team
      BY <2>2, <3>1 DEF CreateOk, Numbered, Got
    <3> QED BY <2>2, <2>4, <2>5, <3>1, <3>2 DEF CreateOk, OwnersOf, Pay
  <2>6. CASE call[w].answer.tag \notin {"ok", "lost"}
    <3>1. ~Written(call[w])
      BY <2>4, <2>6 DEF Written
    <3>2. id(w) \notin DOMAIN teams
      <4>1. CASE Numbered(call[w])
        BY <2>2, <3>1, <4>1 DEF CreateOk, Numbered, Got
      <4>2. CASE ~Numbered(call[w])
        <5>1. id(w) = 0
          BY <4>2 DEF Numbered, Got
        <5>2. teamSeq \in Nat /\ DOMAIN teams \subseteq 1 .. teamSeq
          BY <2>3 DEF RegistryRowsOk
        <5> QED BY <5>1, <5>2
      <4> QED BY <4>1, <4>2
    <3>3. \A o \in owners : o.team # id(w)
      BY <2>3, <3>2 DEF RegistryRowsOk
    <3> HIDE DEF id
    <3> QED BY <2>6, <3>2, <3>3
  <2> QED BY <2>5, <2>6
<1>2. CallsInv /\ RegistryInv => CreateAnswersBook
  BY <1>1
<1> QED BY <1>2, RegistryHolds, PTL

-----------------------------------------------------------------------------
(* The registry implements the book of warehouses. *)

BookOf(ws, ts, os) == [i \in DOMAIN ws |-> Entry(ws[i], i, ts, os)]

Made(row, user) == [row |-> row, team |-> TRUE, owners |-> {user}, deleted |-> FALSE]

\* A message of create or update has contents of the book, one of create its user.
LEMMA AskedIs ==
  ASSUME CallsInv, NEW w \in Workers, NEW kind \in {"create", "update"}, call[w].kind = kind
  PROVE  /\ Columns(call[w].pay) \in BookContents
         /\ kind = "create" => call[w].pay.user \in BookUsers
<1>1. call[w] # Idle
  BY DEF Idle
<1>2. PICK r \in UNION Loads : call[w].kind = r.kind /\ call[w].pay = r.pay
  BY <1>1 DEF CallsInv, Serving
<1>3. r \in {r_1 \in UNION Loads : r_1.kind \in {"create", "update"}}
  BY <1>2
<1>4. call[w].pay \in Asked({"create", "update"})
  BY <1>2, <1>3 DEF Asked
<1>5. kind = "create" => call[w].pay \in Asked({"create"})
  BY <1>2 DEF Asked
<1> QED BY <1>4, <1>5 DEF BookContents, BookUsers

\* The step that makes an entry.
Enters(id, row, user) ==
  /\ id \notin DOMAIN warehouses /\ id \in DOMAIN warehouses'
  /\ BookOf(warehouses', teams', owners') =
       [i \in DOMAIN warehouses \cup {id} |->
          IF i = id THEN Made(row, user) ELSE BookOf(warehouses, teams, owners)[i]]

\* A COMMIT makes one entry, with its team and its one owner.
LEMMA CommitEnters ==
  ASSUME CallsInv, RegistryInv, NEW w \in Workers, CommitCreate(w)
  PROVE  \E id : \E row \in BookContents, user \in BookUsers : Enters(id, row, user)
<1> DEFINE row == Columns(call[w].pay)
           user == call[w].pay.user
           new == NewRow(call[w].pay)
<1>1. PICK id :
        /\ id = call[w].got.team /\ id \in 1 .. teamSeq /\ teamSeq' = teamSeq
        /\ id \notin DOMAIN teams /\ id \notin DOMAIN warehouses
        /\ DOMAIN teams' = DOMAIN teams \cup {id}
        /\ teams'[id] = [name |-> call[w].pay.name]
        /\ \A i \in DOMAIN teams : teams'[i] = teams[i]
        /\ DOMAIN warehouses' = DOMAIN warehouses \cup {id}
        /\ warehouses'[id] = NewRow(call[w].pay)
        /\ \A i \in DOMAIN warehouses : warehouses'[i] = warehouses[i]
        /\ owners' = owners \cup {[team |-> id, user |-> call[w].pay.user]}
        /\ \A o \in owners : o.team # id
  BY CommitWrites
<1>2. row \in BookContents /\ user \in BookUsers
  BY AskedIs DEF CommitCreate, At
<1> DEFINE owner == [team |-> id, user |-> user]
<1>3. owner.team = id /\ owner.user = user
  OBVIOUS
<1>4. Row(new) = row /\ new.deleted = FALSE
  BY NewRowIs
<1>5. /\ DOMAIN warehouses' = DOMAIN warehouses \cup {id} /\ warehouses'[id] = new
      /\ \A i \in DOMAIN warehouses : warehouses'[i] = warehouses[i]
      /\ DOMAIN teams' = DOMAIN teams \cup {id}
      /\ owners' = owners \cup {owner} /\ \A o \in owners : o.team # id
      /\ id \notin DOMAIN warehouses
  BY <1>1
<1> HIDE DEF row, user, new, owner
<1>6. Entry(warehouses'[id], id, teams', owners') = Made(row, user)
  <2>1. {o \in owners' : o.team = id} = {owner}
    BY <1>3, <1>5
  <2>2. {o.user : o \in {o \in owners' : o.team = id}} = {user}
    BY <1>3, <2>1
  <2>3. (id \in DOMAIN teams') = TRUE
    BY <1>5
  <2> QED BY <1>4, <1>5, <2>2, <2>3 DEF Entry, Made
<1>7. ASSUME NEW i \in DOMAIN warehouses
      PROVE  Entry(warehouses'[i], i, teams', owners') = Entry(warehouses[i], i, teams, owners)
  <2>1. i # id /\ warehouses'[i] = warehouses[i]
    BY <1>5
  <2>2. {o \in owners' : o.team = i} = {o \in owners : o.team = i}
    BY <1>3, <1>5, <2>1
  <2>3. (i \in DOMAIN teams') = (i \in DOMAIN teams)
    BY <1>5, <2>1
  <2> QED BY <2>1, <2>2, <2>3 DEF Entry
<1>8. \A i \in DOMAIN warehouses : i # id
  BY <1>5
<1>9. BookOf(warehouses', teams', owners') =
        [i \in DOMAIN warehouses \cup {id} |->
           IF i = id THEN Made(row, user) ELSE BookOf(warehouses, teams, owners)[i]]
  BY <1>5, <1>6, <1>7, <1>8 DEF BookOf
<1>10. Enters(id, row, user)
  BY <1>5, <1>9 DEF Enters
<1> QED BY <1>2, <1>10

\* An update revises what the message names of one entry or none.
LEMMA UpdateRevises ==
  ASSUME CallsInv, RegistryInv, NEW w \in Workers, UpdateWarehouse(w)
  PROVE  \/ BookOf(warehouses', teams', owners') = BookOf(warehouses, teams, owners)
         \/ \E id \in DOMAIN warehouses, row \in BookContents :
              BookOf(warehouses', teams', owners') =
                [BookOf(warehouses, teams, owners) EXCEPT ![id].row = row]
<1> DEFINE id == Pay(w).id
           row == Columns(call[w].pay)
           new == NewRow(call[w].pay)
<1>1. row \in BookContents
  BY AskedIs DEF UpdateWarehouse, At
<1>2. /\ warehouses' = [i \in DOMAIN warehouses |->
                          IF i = id THEN [new EXCEPT !.deleted = warehouses[i].deleted]
                          ELSE warehouses[i]]
      /\ teams' = teams /\ owners' = owners
  BY DEF UpdateWarehouse, Pay
<1>3. DOMAIN new = {"name", "fee", "open", "deleted"} /\ Row(new) = row
  BY NewRowIs
<1>4. \A x : Row([new EXCEPT !.deleted = x]) = row /\ [new EXCEPT !.deleted = x].deleted = x
  BY DEF Row, NewRow, Columns
<1> HIDE DEF id, row, new
<1>5. CASE id \in DOMAIN warehouses
  <2> DEFINE B == BookOf(warehouses, teams, owners)
             C == BookOf(warehouses', teams', owners')
  <2>1. DOMAIN B = DOMAIN warehouses /\ DOMAIN C = DOMAIN warehouses
    BY <1>2 DEF BookOf
  <2>2. \A i \in DOMAIN warehouses : i # id => C[i] = B[i]
    BY <1>2 DEF BookOf
  <2> DEFINE old == warehouses[id]
             new2 == warehouses'[id]
             team == id \in DOMAIN teams
             users == {o.user : o \in {o \in owners : o.team = id}}
  <2>6. new2 = [new EXCEPT !.deleted = old.deleted]
    BY <1>2, <1>5
  <2>7. Row(new2) = row /\ new2.deleted = old.deleted
    BY <1>4, <2>6
  <2>8. C[id] = Entry(new2, id, teams, owners) /\ B[id] = Entry(old, id, teams, owners)
    BY <1>2, <1>5 DEF BookOf
  <2>9. \A r : Entry(r, id, teams, owners) =
               [row |-> Row(r), team |-> team, owners |-> users, deleted |-> r.deleted]
    BY Zenon DEF Entry
  <2>3. C[id] = [B[id] EXCEPT !.row = row]
    <3> HIDE DEF B, C, old, new2, team, users
    <3>1. C[id] = [row |-> row, team |-> team, owners |-> users, deleted |-> old.deleted]
      BY <2>7, <2>8, <2>9
    <3>2. B[id] = [row |-> Row(old), team |-> team, owners |-> users, deleted |-> old.deleted]
      BY <2>8, <2>9
    <3> QED BY <3>1, <3>2
  <2>4. C = [i \in DOMAIN warehouses |-> C[i]]
    BY <1>2 DEF BookOf
  <2>5. C = [B EXCEPT ![id].row = row]
    <3> HIDE DEF B, C
    <3> QED BY <1>5, <2>1, <2>2, <2>3, <2>4
  <2> QED BY <1>1, <1>5, <2>5
<1>6. CASE id \notin DOMAIN warehouses
  BY <1>2, <1>6 DEF BookOf
<1> QED BY <1>5, <1>6

\* A delete closes one entry or none.
LEMMA DeleteCloses ==
  ASSUME RegistryInv, NEW w \in Workers, DeleteWarehouse(w)
  PROVE  \/ BookOf(warehouses', teams', owners') = BookOf(warehouses, teams, owners)
         \/ \E id \in DOMAIN warehouses :
              BookOf(warehouses', teams', owners') =
                [BookOf(warehouses, teams, owners) EXCEPT ![id].deleted = TRUE]
<1> DEFINE id == Pay(w).id
<1>1. /\ warehouses' = [i \in DOMAIN warehouses |->
                          IF i = id THEN [warehouses[i] EXCEPT !.deleted = TRUE]
                          ELSE warehouses[i]]
      /\ teams' = teams /\ owners' = owners
  BY DEF DeleteWarehouse
<1>2. \A i \in DOMAIN warehouses : DOMAIN warehouses[i] = {"name", "fee", "open", "deleted"}
  BY DEF RegistryInv, RegistryRowsOk
<1> HIDE DEF id
<1>3. CASE id \in DOMAIN warehouses
  <2> DEFINE B == BookOf(warehouses, teams, owners)
             C == BookOf(warehouses', teams', owners')
             old == warehouses[id]
             new == warehouses'[id]
  <2>1. DOMAIN B = DOMAIN warehouses /\ DOMAIN C = DOMAIN warehouses
    BY <1>1 DEF BookOf
  <2>2. \A i \in DOMAIN warehouses : i # id => C[i] = B[i]
    BY <1>1 DEF BookOf
  <2>3. new = [old EXCEPT !.deleted = TRUE]
    BY <1>1, <1>3
  <2>4. /\ new.name = old.name /\ new.fee = old.fee /\ new.open = old.open
        /\ new.deleted = TRUE
    BY <1>2, <1>3, <2>3
  <2>5. C[id] = Entry(new, id, teams, owners) /\ B[id] = Entry(old, id, teams, owners)
    BY <1>1, <1>3 DEF BookOf
  <2> DEFINE team == id \in DOMAIN teams
             users == {o.user : o \in {o \in owners : o.team = id}}
             yes == TRUE
  <2>9. \A r : Entry(r, id, teams, owners) =
               [row |-> Row(r), team |-> team, owners |-> users, deleted |-> r.deleted]
    BY Zenon DEF Entry
  <2>10. Row(new) = Row(old)
    BY <2>4 DEF Row
  <2>11. new.deleted = yes
    BY <2>4
  <2>12. C[id] = [B[id] EXCEPT !.deleted = yes]
    <3> HIDE DEF B, C, old, new, team, users, yes
    <3>1. C[id] = [row |-> Row(old), team |-> team, owners |-> users, deleted |-> yes]
      BY <2>5, <2>9, <2>10, <2>11
    <3>2. B[id] = [row |-> Row(old), team |-> team, owners |-> users, deleted |-> old.deleted]
      BY <2>5, <2>9
    <3> QED BY <3>1, <3>2
  <2>6. C[id] = [B[id] EXCEPT !.deleted = TRUE]
    BY <2>12 DEF yes
  <2>7. C = [i \in DOMAIN warehouses |-> C[i]]
    BY <1>1 DEF BookOf
  <2>8. C = [B EXCEPT ![id].deleted = TRUE]
    <3> HIDE DEF B, C
    <3> QED BY <1>3, <2>1, <2>2, <2>6, <2>7
  <2> QED BY <1>3, <2>8
<1>4. CASE id \notin DOMAIN warehouses
  BY <1>1, <1>4 DEF BookOf
<1> QED BY <1>3, <1>4

\* Every step of the service is one step of the book or none.
LEMMA BookStep ==
  ASSUME CallsInv, RegistryInv, [Next]_vars
  PROVE  \/ BookOf(warehouses', teams', owners') = BookOf(warehouses, teams, owners)
         \/ \E id : \E row \in BookContents, user \in BookUsers : Enters(id, row, user)
         \/ \E id \in DOMAIN warehouses :
              \/ \E row \in BookContents :
                   BookOf(warehouses', teams', owners') =
                     [BookOf(warehouses, teams, owners) EXCEPT ![id].row = row]
              \/ BookOf(warehouses', teams', owners') =
                   [BookOf(warehouses, teams, owners) EXCEPT ![id].deleted = TRUE]
<1>1. CASE \E w \in Workers : CommitCreate(w)
  BY <1>1, CommitEnters
<1>2. CASE \E w \in Workers : UpdateWarehouse(w)
  BY <1>2, UpdateRevises
<1>3. CASE \E w \in Workers : DeleteWarehouse(w)
  BY <1>3, DeleteCloses
<1>4. CASE ~ \E w \in Workers : CommitCreate(w) \/ UpdateWarehouse(w) \/ DeleteWarehouse(w)
  <2>1. UNCHANGED <<teams, warehouses, owners>>
    <3>1. CASE \E w \in Workers : Serve(w) \/ Fail(w)
      <4>1. PICK w \in Workers : Serve(w) \/ Fail(w)
        BY <3>1
      <4>2. \/ UNCHANGED registryVars
            \/ InsertTeam(w) \/ InsertWarehouse(w) \/ InsertOwner(w) \/ SendCreated(w)
            \/ FailCreate(w)
        BY <1>4, <4>1 DEF Serve, Fail, RegistryStep, CreateStep
      <4> QED BY <4>2 DEF registryVars, registryRows, InsertTeam, InsertWarehouse, InsertOwner,
                 SendCreated, FailCreate
    <3>2. CASE \/ UNCHANGED vars \/ \E w \in Workers : Between(w)
               \/ Change /\ UNCHANGED <<blacklist, registryVars, noteVars>>
      BY <3>2 DEF vars, registryVars, Between
    <3> QED BY <3>1, <3>2 DEF Next
  <2> QED BY <2>1
<1> QED BY <1>1, <1>2, <1>3, <1>4

\* warehouse_create.go:60, warehouse_update.go and warehouse_delete.go implement the
\* book: an entry is made at once, with its team and its one owner, under an id
\* that no entry has or had, and from then on it is revised or closed.
THEOREM WarehouseBookHolds == Spec => ImplementsWarehouseBook
<1> DEFINE book == [i \in DOMAIN warehouses |-> Entry(warehouses[i], i, teams, owners)]
<1>1. Init => book = FirstBook
  BY DEF Init, RegistryInit, FirstBook
<1>2. ASSUME CallsInv, RegistryInv, [Next]_vars
      PROVE  [Book!Next]_book
  <2>1. book = BookOf(warehouses, teams, owners)
        /\ book' = BookOf(warehouses', teams', owners')
    BY DEF BookOf
  <2>2. DOMAIN book = DOMAIN warehouses /\ DOMAIN book' = DOMAIN warehouses'
    OBVIOUS
  <2>3. CASE book' = book
    BY <2>3
  <2>4. CASE \E id : \E row \in BookContents, user \in BookUsers : Enters(id, row, user)
    <3>1. PICK id : \E row \in BookContents, user \in BookUsers : Enters(id, row, user)
      BY <2>4
    <3>2. Book!Enter(id)
      BY <2>1, <3>1 DEF Book!Enter, Enters, Made
    <3> QED BY <2>2, <3>1, <3>2 DEF Book!Next, Enters
  <2>5. CASE \E id \in DOMAIN warehouses :
               \/ \E row \in BookContents :
                    BookOf(warehouses', teams', owners') =
                      [BookOf(warehouses, teams, owners) EXCEPT ![id].row = row]
               \/ BookOf(warehouses', teams', owners') =
                    [BookOf(warehouses, teams, owners) EXCEPT ![id].deleted = TRUE]
    BY <2>1, <2>2, <2>5 DEF Book!Next, Book!Revise, Book!Close
  <2> QED BY <1>2, <2>1, <2>3, <2>4, <2>5, BookStep
<1>3. CallsInv /\ RegistryInv /\ [Next]_vars => [Book!Next]_book
  BY <1>2
<1> QED BY <1>1, <1>3, RegistryHolds, PTL DEF Spec, ImplementsWarehouseBook, Book!Spec

-----------------------------------------------------------------------------
(* What a replace of notes has done by its next statement. *)

TextsOf(p) == {n.text : n \in {n \in p.notes : n.type = "common"}}

\* A common note of the transaction of a message, and of its order where the
\* message names one.
InScope(n, p) == n.tx = p.tx /\ n.type = "common" /\ p.order \in {0, n.order}

\* A replace has seen notes of its scope alone, and takes away every one of
\* them that is still there; what it has inserted is new.
ReplaceOk(c, ns, seq) ==
  /\ c.pc \in {"start", "delete", "deleting", "insert", "commit", "done"}
  /\ c.pc \in {"deleting", "insert", "commit"} =>
       /\ "seen" \in DOMAIN c.got
       /\ \A n \in c.got.seen : InScope(n, c.pay) /\ n.id \in 0 .. seq
  /\ c.pc \in {"insert", "commit"} =>
       /\ "deleted" \in DOMAIN c.got
       /\ c.got.deleted \subseteq c.got.seen /\ c.got.seen \cap ns \subseteq c.got.deleted
  /\ c.pc = "commit" =>
       /\ "new" \in DOMAIN c.got /\ c.got.new \cap ns = {}
       /\ \A n \in c.got.new : n.tx = c.pay.tx /\ n.type = "common" /\ n.id \in 0 .. seq
       /\ {n.text : n \in c.got.new} = TextsOf(c.pay)

NoteRowsOk(ns, seq) ==
  /\ seq \in Nat
  /\ \A n \in ns : n.id \in 0 .. seq
  /\ \A n \in ns \ FirstNotes : n.type = "common"

Inserted(c) == c.kind = "note_create" /\ c.pc = "commit"

HasSeen(c) == c.kind = "note_create" /\ c.pc \in {"deleting", "insert", "commit"}

NotesInv ==
  /\ NoteRowsOk(notes, noteSeq)
  /\ \A w \in Workers : call[w].kind = "note_create" => ReplaceOk(call[w], notes, noteSeq)
  /\ \A v, w \in Workers :
       Inserted(call[v]) /\ HasSeen(call[w]) => call[v].got.new \cap call[w].got.seen = {}
  /\ \A v, w \in Workers :
       v # w /\ Inserted(call[v]) /\ Inserted(call[w]) => call[v].got.new \cap call[w].got.new = {}

\* A replace does not see what is done to other notes.
LEMMA OtherReplaces ==
  ASSUME NEW c, ReplaceOk(c, notes, noteSeq), noteSeq \in Nat, noteSeq' \in Nat,
         noteSeq <= noteSeq',
         c.pc = "commit" => c.got.new \cap notes' = {},
         c.pc \in {"deleting", "insert", "commit"} => c.got.seen \cap notes' \subseteq notes
  PROVE  ReplaceOk(c, notes', noteSeq')
<1>1. 0 .. noteSeq \subseteq 0 .. noteSeq'
  OBVIOUS
<1>2. c.pc \in {"deleting", "insert", "commit"} => \A n \in c.got.seen : n.id \in 0 .. noteSeq'
  BY <1>1 DEF ReplaceOk
<1>3. c.pc = "commit" => \A n \in c.got.new : n.id \in 0 .. noteSeq'
  BY <1>1 DEF ReplaceOk
<1> QED BY <1>2, <1>3 DEF ReplaceOk

\* A step of one call leaves the notes whole when what it adds is new to the
\* others and what it is about to add, too.
LEMMA NotesKept ==
  ASSUME NotesInv, NEW w \in Workers, \A v \in Workers \ {w} : call'[v] = call[v],
         NoteRowsOk(notes', noteSeq'), noteSeq <= noteSeq',
         \A v \in Workers \ {w} : Inserted(call[v]) => call[v].got.new \cap notes' = {},
         \A v \in Workers \ {w} : HasSeen(call[v]) => call[v].got.seen \cap notes' \subseteq notes,
         call'[w].kind = "note_create" => ReplaceOk(call'[w], notes', noteSeq'),
         Inserted(call'[w]) =>
           /\ call'[w].got.new \cap call'[w].got.seen = {}
           /\ \A v \in Workers \ {w} :
                /\ HasSeen(call[v]) => call'[w].got.new \cap call[v].got.seen = {}
                /\ Inserted(call[v]) => call'[w].got.new \cap call[v].got.new = {},
         HasSeen(call'[w]) =>
           \A v \in Workers \ {w} :
             Inserted(call[v]) => call[v].got.new \cap call'[w].got.seen = {}
  PROVE  NotesInv'
<1>1. noteSeq \in Nat /\ noteSeq' \in Nat
  BY DEF NotesInv, NoteRowsOk
<1>2. ASSUME NEW v \in Workers, call'[v].kind = "note_create"
      PROVE  ReplaceOk(call'[v], notes', noteSeq')
  <2>1. CASE v = w
    BY <1>2, <2>1
  <2>2. CASE v # w
    <3>1. call'[v] = call[v] /\ ReplaceOk(call[v], notes, noteSeq)
      BY <1>2, <2>2 DEF NotesInv
    <3>2. call[v].pc = "commit" => call[v].got.new \cap notes' = {}
      BY <1>2, <2>2, <3>1 DEF Inserted
    <3>3. call[v].pc \in {"deleting", "insert", "commit"} =>
            call[v].got.seen \cap notes' \subseteq notes
      BY <1>2, <2>2, <3>1 DEF HasSeen
    <3> QED BY <1>1, <3>1, <3>2, <3>3, OtherReplaces
  <2> QED BY <2>1, <2>2
<1>3. ASSUME NEW v \in Workers, NEW u \in Workers, Inserted(call'[v]), HasSeen(call'[u])
      PROVE  call'[v].got.new \cap call'[u].got.seen = {}
  <2>1. CASE v = w /\ u = w
    BY <1>3, <2>1
  <2>2. CASE v = w /\ u # w
    BY <1>3, <2>2
  <2>3. CASE v # w /\ u = w
    BY <1>3, <2>3
  <2>4. CASE v # w /\ u # w
    BY <1>3, <2>4 DEF NotesInv
  <2> QED BY <2>1, <2>2, <2>3, <2>4
<1>4. ASSUME NEW v \in Workers, NEW u \in Workers, v # u, Inserted(call'[v]), Inserted(call'[u])
      PROVE  call'[v].got.new \cap call'[u].got.new = {}
  <2>1. CASE v = w
    BY <1>4, <2>1
  <2>2. CASE u = w
    BY <1>4, <2>2
  <2>3. CASE v # w /\ u # w
    BY <1>4, <2>3 DEF NotesInv
  <2> QED BY <2>1, <2>2, <2>3
<1> QED BY <1>2, <1>3, <1>4 DEF NotesInv, Inserted, HasSeen, ReplaceOk, NoteRowsOk, TextsOf

\* A step that writes no note.
LEMMA NotesSame ==
  ASSUME NotesInv, NEW w \in Workers, \A v \in Workers \ {w} : call'[v] = call[v],
         UNCHANGED noteVars, ~HasSeen(call'[w]),
         call'[w].kind = "note_create" => ReplaceOk(call'[w], notes, noteSeq)
  PROVE  NotesInv'
<1>1. notes' = notes /\ noteSeq' = noteSeq /\ NoteRowsOk(notes, noteSeq)
  BY DEF noteVars, NotesInv
<1>2. noteSeq <= noteSeq'
  BY <1>1 DEF NoteRowsOk
<1>3. ~Inserted(call'[w])
  BY DEF Inserted, HasSeen
<1>4. \A v \in Workers : Inserted(call[v]) => call[v].got.new \cap notes = {}
  BY DEF NotesInv, Inserted, ReplaceOk
<1> QED BY <1>1, <1>2, <1>3, <1>4, NotesKept

\* A call that ended, or has yet to look for notes, promises nothing.
LEMMA FindOrEndKeeps ==
  ASSUME CallsInv, NotesInv, NEW w \in Workers, \A v \in Workers \ {w} : call'[v] = call[v],
         FindNotedTx(w) \/ FailNotes(w)
  PROVE  NotesInv'
<1>1. call'[w].pc \in {"delete", "done"}
  <2>1. CASE Refuse(w)
    BY <2>1, Unanswered
  <2>2. CASE \E rows : Keep(w, "tx", rows, "delete")
    BY <2>2, Kept
  <2> QED BY <2>1, <2>2 DEF FindNotedTx, FailNotes
<1>2. UNCHANGED noteVars
  BY DEF FindNotedTx, FailNotes
<1>3. ~HasSeen(call'[w]) /\ ReplaceOk(call'[w], notes, noteSeq)
  BY <1>1 DEF HasSeen, ReplaceOk
<1> QED BY <1>2, <1>3, NotesSame

\* DELETE sees common notes of its transaction.
LEMMA StartDeleteKeeps ==
  ASSUME CallsInv, NotesInv, NEW w \in Workers, \A v \in Workers \ {w} : call'[v] = call[v],
         StartDelete(w)
  PROVE  NotesInv'
<1> DEFINE seen == CommonNotes(call[w].pay.tx, call[w].pay.order)
<1>1. Keep(w, "seen", seen, "deleting")
  BY DEF StartDelete, Pay
<1>2. notes' = notes /\ noteSeq' = noteSeq /\ NoteRowsOk(notes, noteSeq)
  BY DEF StartDelete, noteVars, NotesInv
<1>3. seen \subseteq notes /\ \A n \in seen : InScope(n, call[w].pay)
  BY DEF CommonNotes, InScope
<1> HIDE DEF seen
<1>4. /\ "seen" \in DOMAIN call'[w].got /\ call'[w].got["seen"] = seen
      /\ call'[w].pc = "deleting" /\ call'[w].pay = call[w].pay
  BY <1>1, Kept
<1>5. ReplaceOk(call'[w], notes, noteSeq)
  BY <1>2, <1>3, <1>4 DEF ReplaceOk, NoteRowsOk
<1>6. ~Inserted(call'[w])
  BY <1>4 DEF Inserted
<1>7. \A v \in Workers : Inserted(call[v]) => call[v].got.new \cap notes = {}
  BY DEF NotesInv, Inserted, ReplaceOk
<1>8. noteSeq <= noteSeq'
  BY <1>2 DEF NoteRowsOk
<1> QED BY <1>2, <1>3, <1>4, <1>5, <1>6, <1>7, <1>8, NotesKept

\* It takes away those that are still there when it goes on.
LEMMA FinishDeleteKeeps ==
  ASSUME CallsInv, NotesInv, NEW w \in Workers, \A v \in Workers \ {w} : call'[v] = call[v],
         FinishDelete(w)
  PROVE  NotesInv'
<1> DEFINE deleted == call[w].got.seen \cap notes
<1>1. Keep(w, "deleted", deleted, "insert") /\ HasSeen(call[w])
  BY DEF FinishDelete, Got, At, HasSeen
<1>2. notes' = notes /\ noteSeq' = noteSeq /\ NoteRowsOk(notes, noteSeq)
  BY DEF FinishDelete, noteVars, NotesInv
<1>3. ReplaceOk(call[w], notes, noteSeq)
  BY <1>1 DEF NotesInv, HasSeen
<1>4. /\ "seen" \in DOMAIN call[w].got
      /\ \A n \in call[w].got.seen : InScope(n, call[w].pay) /\ n.id \in 0 .. noteSeq
  BY <1>1, <1>3 DEF ReplaceOk, HasSeen
<1>5. deleted \subseteq call[w].got.seen /\ call[w].got.seen \cap notes \subseteq deleted
  OBVIOUS
<1> HIDE DEF deleted
<1>6. /\ "seen" \in DOMAIN call'[w].got /\ call'[w].got["seen"] = call[w].got["seen"]
      /\ "deleted" \in DOMAIN call'[w].got /\ call'[w].got["deleted"] = deleted
      /\ call'[w].pc = "insert" /\ call'[w].pay = call[w].pay
  BY <1>1, <1>4, Kept
<1>7. ReplaceOk(call'[w], notes, noteSeq)
  BY <1>4, <1>5, <1>6 DEF ReplaceOk
<1>8. ~Inserted(call'[w])
  BY <1>6 DEF Inserted
<1>9. \A v \in Workers : Inserted(call[v]) =>
        call[v].got.new \cap notes = {} /\ call[v].got.new \cap call[w].got.seen = {}
  BY <1>1 DEF NotesInv, Inserted, ReplaceOk
<1>10. noteSeq <= noteSeq'
  BY <1>2 DEF NoteRowsOk
<1> QED BY <1>2, <1>6, <1>7, <1>8, <1>9, <1>10, NotesKept

\* What is inserted has the texts of the message and ids that are new.
LEMMA InsertNotesWrites ==
  ASSUME CallsInv, NotesInv, NEW w \in Workers, InsertNotes(w)
  PROVE  /\ notes' = notes /\ noteSeq' \in Nat /\ noteSeq <= noteSeq'
         /\ \E new :
              /\ Keep(w, "new", new, "commit")
              /\ \A n \in new : n.tx = call[w].pay.tx /\ n.type = "common"
              /\ \A n \in new : n.id \in 0 .. noteSeq' /\ n.id \notin 0 .. noteSeq
              /\ {n.text : n \in new} = TextsOf(call[w].pay)
<1> DEFINE texts == TextsOf(call[w].pay)
           ids == noteSeq + 1 .. noteSeq + Cardinality(texts)
           Note(i, t) == [id |-> i, tx |-> Pay(w).tx, type |-> "common", order |-> 0, text |-> t]
<1>1. call[w].kind = "note_create"
  BY DEF InsertNotes, At
<1>2. Cardinality(texts) \in Nat
  <2>1. call[w] # Idle
    BY <1>1 DEF Idle
  <2>2. IsFiniteSet(call[w].pay.notes)
    BY <1>1, <2>1, NotesAssumption DEF CallsInv, Serving
  <2> DEFINE common == {n \in call[w].pay.notes : n.type = "common"}
  <2>3. IsFiniteSet(common)
    BY <2>2, FS_Subset
  <2>4. IsFiniteSet({n.text : n \in common})
    <3> HIDE DEF common
    <3> DEFINE found == {n.text : n \in common}
               f == [n \in common |-> n.text]
    <3>1. f \in Surjection(common, found)
      BY DEF Surjection
    <3> HIDE DEF found, f
    <3>2. IsFiniteSet(found)
      BY <2>3, <3>1, FS_Surjection
    <3> QED BY <3>2 DEF found
  <2> QED BY <2>4, FS_CardinalityType DEF TextsOf
<1>3. PICK text \in [ids -> texts] :
        /\ {text[i] : i \in ids} = texts
        /\ Keep(w, "new", {Note(i, text[i]) : i \in ids}, "commit")
  BY DEF InsertNotes, TextsOf, Pay
<1>4. notes' = notes /\ noteSeq' = noteSeq + Cardinality(texts)
  BY DEF InsertNotes, TextsOf, Pay
<1>5. noteSeq \in Nat
  BY DEF NotesInv, NoteRowsOk
<1> DEFINE new == {Note(i, text[i]) : i \in ids}
<1>6. \A n \in new : n.tx = call[w].pay.tx /\ n.type = "common" /\ n.id \in ids
  BY DEF Pay
<1>7. {n.text : n \in new} = texts
  <2>1. \A i \in ids : Note(i, text[i]).text = text[i]
    OBVIOUS
  <2> HIDE DEF Note, ids, texts
  <2>2. {n.text : n \in new} = {text[i] : i \in ids}
    BY <2>1
  <2> QED BY <1>3, <2>2
<1> HIDE DEF texts
<1>8. \A i \in ids : i \in 0 .. noteSeq' /\ i \notin 0 .. noteSeq
  BY <1>2, <1>4, <1>5
<1>9. noteSeq' \in Nat /\ noteSeq <= noteSeq'
  BY <1>2, <1>4, <1>5
<1> HIDE DEF ids, Note
<1>10. Keep(w, "new", new, "commit")
  BY <1>3
<1>11. \A n \in new : n.id \in 0 .. noteSeq' /\ n.id \notin 0 .. noteSeq
  BY <1>6, <1>8
<1>12. \A n \in new : n.tx = call[w].pay.tx /\ n.type = "common"
  BY <1>6
<1> HIDE DEF new
<1> QED BY <1>4, <1>7, <1>9, <1>10, <1>11, <1>12 DEF texts

\* So they are of nobody else.
LEMMA InsertNotesKeeps ==
  ASSUME CallsInv, NotesInv, NEW w \in Workers, \A v \in Workers \ {w} : call'[v] = call[v],
         InsertNotes(w)
  PROVE  NotesInv'
<1>1. PICK new :
        /\ Keep(w, "new", new, "commit")
        /\ \A n \in new : n.tx = call[w].pay.tx /\ n.type = "common"
        /\ \A n \in new : n.id \in 0 .. noteSeq' /\ n.id \notin 0 .. noteSeq
        /\ {n.text : n \in new} = TextsOf(call[w].pay)
  BY InsertNotesWrites
<1>2. notes' = notes /\ noteSeq' \in Nat /\ noteSeq <= noteSeq'
  BY InsertNotesWrites
<1>3. noteSeq \in Nat /\ NoteRowsOk(notes, noteSeq) /\ 0 .. noteSeq \subseteq 0 .. noteSeq'
  BY <1>2 DEF NotesInv, NoteRowsOk
<1>4. HasSeen(call[w]) /\ call[w].pc = "insert" /\ ReplaceOk(call[w], notes, noteSeq)
  BY DEF InsertNotes, At, HasSeen, NotesInv
<1>5. /\ "seen" \in DOMAIN call[w].got /\ "deleted" \in DOMAIN call[w].got
      /\ \A n \in call[w].got.seen : InScope(n, call[w].pay) /\ n.id \in 0 .. noteSeq
      /\ call[w].got.deleted \subseteq call[w].got.seen
      /\ call[w].got.seen \cap notes \subseteq call[w].got.deleted
  BY <1>4 DEF ReplaceOk
<1>6. /\ "seen" \in DOMAIN call'[w].got /\ call'[w].got["seen"] = call[w].got["seen"]
      /\ "deleted" \in DOMAIN call'[w].got /\ call'[w].got["deleted"] = call[w].got["deleted"]
      /\ "new" \in DOMAIN call'[w].got /\ call'[w].got["new"] = new
      /\ call'[w].pc = "commit" /\ call'[w].pay = call[w].pay
  BY <1>1, <1>5, Kept
<1>7. new \cap notes = {}
  BY <1>1, <1>3 DEF NoteRowsOk
<1>8. NoteRowsOk(notes', noteSeq')
  BY <1>2, <1>3 DEF NoteRowsOk
<1>9. ReplaceOk(call'[w], notes', noteSeq')
  BY <1>1, <1>2, <1>3, <1>5, <1>6, <1>7 DEF ReplaceOk
<1>10. ASSUME NEW v \in Workers, HasSeen(call[v])
       PROVE  new \cap call[v].got.seen = {}
  <2>1. ReplaceOk(call[v], notes, noteSeq)
    BY <1>10 DEF NotesInv, HasSeen
  <2> QED BY <1>1, <1>10, <2>1 DEF ReplaceOk, HasSeen
<1>11. ASSUME NEW v \in Workers, Inserted(call[v])
       PROVE  new \cap call[v].got.new = {} /\ call[v].got.new \cap notes' = {}
              /\ call[v].got.new \cap call[w].got.seen = {}
  <2>1. ReplaceOk(call[v], notes, noteSeq)
    BY <1>11 DEF NotesInv, Inserted
  <2>2. \A n \in call[v].got.new : n.id \in 0 .. noteSeq
    BY <1>11, <2>1 DEF ReplaceOk, Inserted
  <2>3. call[v].got.new \cap notes = {}
    BY <1>11, <2>1 DEF ReplaceOk, Inserted
  <2> QED BY <1>1, <1>2, <1>4, <1>11, <2>2, <2>3 DEF NotesInv
<1> QED BY <1>2, <1>4, <1>6, <1>8, <1>9, <1>10, <1>11, NotesKept

\* What COMMIT makes of the notes.
LEMMA CommitNotesWrites ==
  ASSUME CallsInv, NotesInv, NEW w \in Workers, CommitNotes(w)
  PROVE  /\ notes' = (notes \ call[w].got.deleted) \cup call[w].got.new
         /\ noteSeq' = noteSeq
         /\ call[w].got.deleted \subseteq call[w].got.seen
         /\ call[w].got.seen \cap notes \subseteq call[w].got.deleted
         /\ call[w].got.new \cap notes = {} /\ call[w].got.new \cap call[w].got.seen = {}
         /\ \A n \in call[w].got.seen : InScope(n, call[w].pay)
         /\ \A n \in call[w].got.new :
              n.tx = call[w].pay.tx /\ n.type = "common" /\ n.id \in 0 .. noteSeq
         /\ {n.text : n \in call[w].got.new} = TextsOf(call[w].pay)
         /\ call'[w].pc = "done" /\ call'[w].answer.tag = "ok"
<1>1. call[w].kind = "note_create" /\ call[w].pc = "commit"
  BY DEF CommitNotes, At
<1>2. ReplaceOk(call[w], notes, noteSeq)
  BY <1>1 DEF NotesInv
<1>3. call[w].got.new \cap call[w].got.seen = {}
  BY <1>1 DEF NotesInv, Inserted, HasSeen
<1>4. notes' = (notes \ call[w].got.deleted) \cup call[w].got.new /\ noteSeq' = noteSeq
  BY DEF CommitNotes, Got
<1>5. call'[w].pc = "done" /\ call'[w].answer.tag = "ok"
  <2>1. PICK data : Answer(w, data)
    BY DEF CommitNotes
  <2> QED BY <2>1, Ended DEF Answer
<1> QED BY <1>1, <1>2, <1>3, <1>4, <1>5 DEF ReplaceOk

\* No other replace has seen or is about to add what it adds.
LEMMA CommitNotesKeeps ==
  ASSUME CallsInv, NotesInv, NEW w \in Workers, \A v \in Workers \ {w} : call'[v] = call[v],
         CommitNotes(w)
  PROVE  NotesInv'
<1>1. /\ notes' = (notes \ call[w].got.deleted) \cup call[w].got.new
      /\ noteSeq' = noteSeq
      /\ \A n \in call[w].got.new : n.type = "common" /\ n.id \in 0 .. noteSeq
      /\ call'[w].pc = "done"
  BY CommitNotesWrites
<1>2. NoteRowsOk(notes, noteSeq) /\ noteSeq <= noteSeq' /\ Inserted(call[w])
  BY <1>1 DEF NotesInv, NoteRowsOk, CommitNotes, At, Inserted
<1>3. NoteRowsOk(notes', noteSeq')
  BY <1>1, <1>2 DEF NoteRowsOk
<1>4. ASSUME NEW v \in Workers \ {w}, Inserted(call[v])
      PROVE  call[v].got.new \cap notes' = {}
  <2>1. call[v].got.new \cap notes = {} /\ call[v].got.new \cap call[w].got.new = {}
    BY <1>2, <1>4 DEF NotesInv, Inserted, ReplaceOk
  <2> QED BY <1>1, <2>1
<1>5. ASSUME NEW v \in Workers \ {w}, HasSeen(call[v])
      PROVE  call[v].got.seen \cap notes' \subseteq notes
  <2>1. call[w].got.new \cap call[v].got.seen = {}
    BY <1>2, <1>5 DEF NotesInv
  <2> QED BY <1>1, <2>1
<1>6. ~HasSeen(call'[w]) /\ ~Inserted(call'[w]) /\ ReplaceOk(call'[w], notes', noteSeq')
  BY <1>1 DEF HasSeen, Inserted, ReplaceOk
<1> QED BY <1>2, <1>3, <1>4, <1>5, <1>6, NotesKept

\* Every step leaves the notes whole.
LEMMA NotesNext ==
  ASSUME CallsInv, NotesInv, [Next]_vars
  PROVE  NotesInv'
<1>1. CASE UNCHANGED <<call, noteVars>>
  BY <1>1 DEF NotesInv, ReplaceOk, NoteRowsOk, Inserted, HasSeen, TextsOf, noteVars
<1>2. CASE \E w \in Workers : Serve(w) \/ Fail(w)
  <2>1. PICK w \in Workers : Serve(w) \/ Fail(w)
    BY <1>2
  <2>2. Goes(w)
    BY <2>1, OutboundGoes, InventoryGoes, ListGoes, RegistryGoes, NotesGo
       DEF Serve, Fail, RegistryStep
  <2>3. (\A v \in Workers \ {w} : call'[v] = call[v]) /\ call'[w].kind = call[w].kind
    BY <2>2, Gone
  <2>4. CASE NoteWrite(w) \/ FailNotes(w)
    BY <2>3, <2>4, FindOrEndKeeps, StartDeleteKeeps, FinishDeleteKeeps, InsertNotesKeeps,
       CommitNotesKeeps DEF NoteWrite
  <2>5. CASE UNCHANGED noteVars /\ call[w].kind # "note_create"
    BY <2>3, <2>5, NotesSame DEF HasSeen
  <2>6. \/ NoteWrite(w) \/ FailNotes(w)
        \/ UNCHANGED noteVars /\ call[w].kind # "note_create"
    <3>1. NoteRead(w) => call[w].kind # "note_create"
      BY DEF NoteRead, FindListedTx, ListNotes, At
    <3> QED
      BY <2>1, <3>1, OutboundGoes, InventoryGoes, ListGoes, RegistryGoes
         DEF Serve, Fail, RegistryStep, NotesStep
  <2> QED BY <2>4, <2>5, <2>6
<1>3. CASE \E w \in Workers : Between(w)
  <2>1. PICK w \in Workers : Between(w)
    BY <1>3
  <2>2. /\ \A v \in Workers \ {w} : call'[v] = call[v]
        /\ call'[w] = Idle \/ \E r : call'[w] = Entered(r)
    <3>1. \/ call' = [call EXCEPT ![w] = Idle]
          \/ \E r : call' = [call EXCEPT ![w] = Entered(r)]
      BY <2>1 DEF Between, Return, Accept, Entered
    <3> QED BY <3>1 DEF CallsInv
  <2>3. UNCHANGED noteVars
    BY <2>1 DEF Between
  <2>4. /\ ~HasSeen(call'[w])
        /\ call'[w].kind = "note_create" => ReplaceOk(call'[w], notes, noteSeq)
    <3>1. CASE call'[w] = Idle
      <4>1. call'[w].kind = "none"
        BY <3>1 DEF Idle
      <4> QED BY <4>1 DEF HasSeen
    <3>2. CASE \E r : call'[w] = Entered(r)
      <4>1. call'[w].pc = "start"
        BY <3>2 DEF Entered
      <4> QED BY <4>1 DEF HasSeen, ReplaceOk
    <3> QED BY <2>2, <3>1, <3>2
  <2> QED BY <2>2, <2>3, <2>4, NotesSame
<1>4. CASE Change /\ UNCHANGED <<blacklist, registryVars, noteVars>>
  BY <1>1, <1>4 DEF Change
<1> QED BY <1>1, <1>2, <1>3, <1>4 DEF Next, vars, tableVars

\* The notes are whole at the start.
LEMMA NotesInitOk == Init => NotesInv
<1> SUFFICES ASSUME Init PROVE NotesInv
  OBVIOUS
<1> DEFINE ids == Ids(FirstNotes)
<1>1. ids \subseteq Nat /\ IsFiniteSet(ids)
  <2> DEFINE f == [n \in FirstNotes |-> n.id]
  <2>1. f \in Surjection(FirstNotes, ids)
    BY DEF Surjection, Ids
  <2> HIDE DEF f, ids
  <2>2. IsFiniteSet(ids)
    BY <2>1, FS_Surjection, NotesAssumption
  <2> QED BY <2>2, NotesAssumption DEF ids
<1>2. notes = FirstNotes /\ noteSeq = Max({0} \cup ids)
  BY DEF Init, NotesInit
<1>3. \A n \in notes : n.id \in ids
  BY <1>2 DEF Ids
<1> HIDE DEF ids
<1>4. Max({0} \cup ids) \in Nat /\ \A i \in ids : i <= Max({0} \cup ids)
  BY <1>1, StartsBehind
<1>5. NoteRowsOk(notes, noteSeq)
  <2>1. noteSeq \in Nat /\ \A i \in ids : i <= noteSeq
    BY <1>2, <1>4
  <2>2. \A i \in ids : i \in 0 .. noteSeq
    BY <1>1, <2>1
  <2>3. notes \ FirstNotes = {}
    BY <1>2
  <2> QED BY <1>3, <2>1, <2>2, <2>3 DEF NoteRowsOk
<1>6. \A w \in Workers : call[w].kind = "none"
  BY DEF Init, TablesInit, Idle
<1> QED BY <1>5, <1>6 DEF NotesInv, Inserted, HasSeen

\* What is proved of the notes holds of every behaviour.
LEMMA NotesHold == Spec => [](CallsInv /\ NotesInv)
<1>1. CallsInv /\ NotesInv /\ [Next]_vars => (CallsInv /\ NotesInv)'
  BY CallsNext, NotesNext
<1> QED BY <1>1, CallsInit, NotesInitOk, PTL DEF Spec

\* transaction_note_create.go: the common notes of a transaction, of one order of
\* it where the message names one, are replaced at once by those of one message,
\* also when two messages for it are on the way: none that the replace saw stays,
\* no note of another transaction, order or type goes, and what comes is of the
\* transaction of the message.
THEOREM NotesReplacedWholeHolds == Spec => NotesReplacedWhole
<1> DEFINE whole ==
      notes' # notes => \E w \in Workers :
        /\ Commits(w)
        /\ \A n \in notes \ notes' :
             /\ n.tx = Pay(w).tx /\ n.type = "common"
             /\ Pay(w).order \in {0, n.order}
        /\ \A n \in notes' \ notes : n.tx = Pay(w).tx
        /\ Got(w).seen \cap notes' = {}
        /\ {n.text : n \in notes' \ notes} =
             {n.text : n \in {n \in Pay(w).notes : n.type = "common"}}
<1>1. ASSUME CallsInv, NotesInv, Next
      PROVE  whole
  <2>1. SUFFICES ASSUME notes' # notes PROVE whole
    OBVIOUS
  <2>2. PICK w \in Workers : CommitNotes(w)
    BY <1>1, <2>1 DEF Next, Serve, Fail, Between, NotesStep, NoteWrite, FailNotes, FindNotedTx,
       StartDelete, FinishDelete, InsertNotes, noteVars
  <2>3. /\ notes' = (notes \ call[w].got.deleted) \cup call[w].got.new
        /\ call[w].got.deleted \subseteq call[w].got.seen
        /\ call[w].got.seen \cap notes \subseteq call[w].got.deleted
        /\ call[w].got.new \cap notes = {} /\ call[w].got.new \cap call[w].got.seen = {}
        /\ \A n \in call[w].got.seen : InScope(n, call[w].pay)
        /\ \A n \in call[w].got.new : n.tx = call[w].pay.tx
        /\ {n.text : n \in call[w].got.new} = TextsOf(call[w].pay)
        /\ call'[w].pc = "done" /\ call'[w].answer.tag = "ok"
    BY <1>1, <2>2, CommitNotesWrites
  <2>4. Commits(w)
    BY <2>2, <2>3 DEF CommitNotes, Commits, At
  <2>5. /\ \A n \in notes \ notes' :
             /\ n.tx = Pay(w).tx /\ n.type = "common"
             /\ Pay(w).order \in {0, n.order}
        /\ \A n \in notes' \ notes : n.tx = Pay(w).tx
    BY <2>3 DEF Pay, InScope
  <2>6. Got(w).seen \cap notes' = {}
    BY <2>3 DEF Got
  <2>7. notes' \ notes = call[w].got.new
    BY <2>3
  <2>8. {n.text : n \in notes' \ notes} = TextsOf(Pay(w))
    BY <2>3, <2>7 DEF Pay
  <2> QED BY <2>4, <2>5, <2>6, <2>8 DEF TextsOf
<1>2. CallsInv /\ NotesInv /\ [Next]_vars => [whole]_vars
  BY <1>1
<1> HIDE DEF whole
<1>3. Spec => [][whole]_vars
  BY <1>2, NotesHold, PTL DEF Spec
<1> QED BY <1>3 DEF whole, NotesReplacedWhole

-----------------------------------------------------------------------------
(* Types. *)

SkusEver == UNION {Ids(History[i].skus) : i \in DOMAIN History}

BlacklistInv == blacklist \subseteq SkusEver \cup FirstBlacklist

\* Only skus that the table has at some time are blacklisted.
LEMMA BlacklistNext ==
  ASSUME CallsInv, BlacklistInv, [Next]_vars
  PROVE  BlacklistInv'
<1>1. Ids(Db.skus) \subseteq SkusEver
  BY DEF CallsInv, Db, SkusEver
<1>2. CASE UNCHANGED blacklist
  BY <1>2 DEF BlacklistInv, SkusEver
<1>3. CASE \E w \in Workers : AddToBlacklist(w) \/ RemoveFromBlacklist(w)
  <2>1. blacklist' \subseteq blacklist \cup Ids(Db.skus)
    BY <1>3 DEF AddToBlacklist, RemoveFromBlacklist
  <2> QED BY <1>1, <2>1 DEF BlacklistInv, SkusEver
<1>4. UNCHANGED blacklist \/ \E w \in Workers : AddToBlacklist(w) \/ RemoveFromBlacklist(w)
  BY DEF Next, Serve, Fail, Between, InventoryStep, NotesStep, vars
<1> QED BY <1>2, <1>3, <1>4

\* The calls, the warehouses, the notes and the blacklist are of their types.
THEOREM ServiceTyped == Spec => []TypeOK
<1>1. Init => BlacklistInv
  BY DEF Init, InventoryInit, BlacklistInv
<1>2. CallsInv /\ BlacklistInv /\ [Next]_vars => BlacklistInv'
  BY BlacklistNext
<1>3. ASSUME CallsInv, RegistryInv, NotesInv, BlacklistInv
      PROVE  TypeOK
  <2>1. now \in Moments /\ load \subseteq UNION Loads
    BY <1>3 DEF CallsInv, Moments
  <2>2. ASSUME NEW w \in {v \in Workers : call[v] # Idle}
        PROVE  /\ call[w].answer.tag \in {"none", "ok", "error", "panic", "lost"}
               /\ (call[w].pc = "done") = (call[w].answer.tag # "none")
    BY <1>3 DEF CallsInv, Serving, Tags
  <2>3. blacklist \subseteq Ids(Ever(LAMBDA d : d.skus)) \cup FirstBlacklist
    <3>1. SkusEver \subseteq Ids(Ever(LAMBDA d : d.skus))
      BY DEF SkusEver, Ever, Ids, Moments
    <3> QED BY <1>3, <3>1 DEF BlacklistInv
  <2>4. \A i \in DOMAIN warehouses :
          warehouses[i].open \in {Times[s] : s \in DOMAIN Times} \cup {""}
    BY <1>3 DEF RegistryInv, RegistryRowsOk
  <2>5. DOMAIN teams \subseteq 0 .. teamSeq
    <3>1. teamSeq \in Nat /\ DOMAIN teams \subseteq 1 .. teamSeq
      BY <1>3 DEF RegistryInv, RegistryRowsOk
    <3>2. 1 .. teamSeq \subseteq 0 .. teamSeq
      BY <3>1
    <3> QED BY <3>1, <3>2
  <2>6. Ids(notes) \subseteq 0 .. noteSeq
    BY <1>3 DEF NotesInv, NoteRowsOk, Ids
  <2>7. \A n \in notes \ FirstNotes : n.type \in NoteTypes
    BY <1>3 DEF NotesInv, NoteRowsOk, NoteTypes
  <2> QED BY <2>1, <2>2, <2>3, <2>4, <2>5, <2>6, <2>7 DEF TypeOK
<1>4. CallsInv /\ RegistryInv /\ NotesInv /\ BlacklistInv => TypeOK
  BY <1>3
<1> QED BY <1>1, <1>2, <1>4, RegistryHolds, NotesHold, PTL DEF Spec
=============================================================================
