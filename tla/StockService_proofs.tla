------------------------ MODULE StockService_proofs ------------------------
(***************************************************************************)
(* Theorems about StockService, for any number of requests, PrepareSkus    *)
(* calls, messages and skus and any content of the inventory tables: types,*)
(* row locks that exclude each other, the books of a day, events entered   *)
(* once and acknowledged only after that, keys of the change log.          *)
(***************************************************************************)
EXTENDS StockService, ChangeLog_proofs

TypeInv == TypeOK /\ ChainOK

\* A place in the chain that is typed and, in a loop, inside the list.
Good(state) ==
  /\ state \in HandlerState
  /\ state.pc # "idle" => state.msg \in Messages
  /\ state.pc \in {"insert_log", "lock_sku", "upsert_daily"}
       => state.next \in 1 .. Len(state.changes)

-----------------------------------------------------------------------------
(* The results of stage two are well typed. *)

\* A query over finite tables has finitely many rows.
LEMMA JoinRowsFinite ==
  ASSUME NEW tx
  PROVE  IsFiniteSet(JoinRows(Db, tx))
BY DbAssumption, JoinFinite DEF FiniteTables

\* Every row of the join carries an item of the table and integers.
LEMMA JoinRowsType ==
  ASSUME NEW tx, NEW row \in JoinRows(Db, tx)
  PROVE  /\ row.item \in Db.item
         /\ row.problem.count \in Int
         /\ row.cost.fee \in Int
<1>1. PICK i \in ItemsOf(Db, tx) :
        row \in Joined(i, ProblemsOf(Db, i), CostsOf(Db, tx))
  BY DEF JoinRows
<1>2. PICK p \in ProblemsOf(Db, i), c \in CostsOf(Db, tx) :
        row = [item |-> i, problem |-> p, cost |-> c]
  BY <1>1 DEF Joined
<1>3. p.count \in Int
  BY DbAssumption DEF ProblemsOf, NoProblem
<1>4. c.fee \in Int
  BY DbAssumption DEF CostsOf, NoCost
<1> QED BY <1>2, <1>3, <1>4 DEF ItemsOf

\* The actor column is a natural, with SQL NULL read as 0.
LEMMA ActorType ==
  ASSUME NEW tx \in DOMAIN Db.tx, NEW type
  PROVE  ActorOf(Db, tx, type) \in Nat
<1>1. CASE type = "ORDER_CANCELED" /\ CancelsOf(Db, tx) # {}
  <2>1. (CHOOSE c \in CancelsOf(Db, tx) : TRUE) \in CancelsOf(Db, tx)
    BY <1>1
  <2>2. (CHOOSE c \in CancelsOf(Db, tx) : TRUE).by \in Nat
    BY <2>1, DbAssumption DEF CancelsOf
  <2> QED BY <1>1, <2>2 DEF ActorOf
<1>2. CASE ~(type = "ORDER_CANCELED" /\ CancelsOf(Db, tx) # {})
  BY <1>2, DbAssumption DEF ActorOf
<1> QED BY <1>1, <1>2

\* A selected row makes a typed change log record.
LEMMA ChangeType ==
  ASSUME NEW m \in Messages, NEW tx, NEW type, NEW row \in ChangedRows(Db, tx, type)
  PROVE  ChangeOf(Db, m, tx, type, row) \in ChangeRecord
<1>1. tx \in DOMAIN Db.tx /\ row \in JoinRows(Db, tx)
  BY DEF ChangedRows
<1>2. /\ row.item.sku \in SkuNames
      /\ row.item.count \in Int /\ row.item.price \in Int
      /\ row.problem.count \in Int /\ row.cost.fee \in Int
  BY <1>1, JoinRowsType, DbAssumption
<1>3. Sign(type) \in Int
  BY DEF Sign
<1>4. CountOf(row, type) \in Int
  BY <1>2, <1>3 DEF CountOf
<1>5. AmountOf(row, type) \in Int
  BY <1>2, <1>4 DEF AmountOf
<1>6. ActorOf(Db, tx, type) \in Nat
  BY <1>1, ActorType
<1>7. Db.tx[tx].warehouse \in Warehouses /\ tx \in Nat
  BY <1>1, DbAssumption
<1>8. m \in ExtIds
  BY HandlerAssumption
<1> QED BY <1>2, <1>4, <1>5, <1>6, <1>7, <1>8 DEF ChangeOf, ChangeRecord

Results ==
  [tag : {"event", "nil", "error"}, day : Days, changes : Seq(ChangeRecord)]

\* An error and a missing event are typed results.
LEMMA ConstantResults == Failed \in Results /\ Nothing \in Results
<1>1. 0 \in Days
  BY TablesAssumption DEF Days
<1>2. <<>> \in Seq(ChangeRecord)
  OBVIOUS
<1> QED BY <1>1, <1>2 DEF Failed, Nothing, Results

\* The time of the event is a day of the model.
LEMMA TimesType ==
  ASSUME NEW tx, NEW type
  PROVE  TimesOf(Db, tx, type) \subseteq Days
<1>1. 0 \in Days
  BY TablesAssumption DEF Days
<1>2. {c.at : c \in CancelsOf(Db, tx)} \subseteq Days
  BY DbAssumption DEF CancelsOf
<1>3. tx \in DOMAIN Db.tx => Db.tx[tx].created \in Days /\ Db.tx[tx].arrived \in Days
  BY DbAssumption
<1> QED BY <1>1, <1>2, <1>3 DEF TimesOf

\* Whatever the tables hold, CreateStockChangeLog returns a typed result.
LEMMA CreateStockChangeLogType ==
  ASSUME NEW m \in Messages, NEW tx, NEW type
  PROVE  CreateStockChangeLog(Db, m, tx, type) \subseteq Results
<1> DEFINE rows == ChangedRows(Db, tx, type)
<1>1. Cardinality(rows) \in Nat
  <2>1. IsFiniteSet(rows)
    BY JoinRowsFinite, FS_Subset DEF ChangedRows
  <2> QED BY <2>1, FS_CardinalityType
<1>2. ASSUME NEW day \in TimesOf(Db, tx, type), NEW order \in SetToSeqs(rows)
      PROVE  StockChange(day, [i \in 1 .. Len(order) |->
                                 ChangeOf(Db, m, tx, type, order[i])]) \in Results
  <2>1. order \in [1 .. Cardinality(rows) -> rows]
    BY DEF SetToSeqs
  <2>2. Len(order) = Cardinality(rows)
    BY <1>1, <2>1
  <2>3. \A i \in 1 .. Len(order) : ChangeOf(Db, m, tx, type, order[i]) \in ChangeRecord
    BY <2>1, <2>2, ChangeType
  <2> DEFINE cs == [i \in 1 .. Len(order) |-> ChangeOf(Db, m, tx, type, order[i])]
  <2>4. cs \in Seq(ChangeRecord)
    <3>1. Len(order) \in Nat
      BY <1>1, <2>2
    <3>2. cs \in [1 .. Len(order) -> ChangeRecord]
      BY <2>3
    <3> HIDE DEF cs
    <3> QED BY <3>1, <3>2
  <2>5. day \in Days
    BY TimesType
  <2>6. StockChange(day, cs) \in Results
    <3> HIDE DEF cs
    <3> QED BY <2>4, <2>5 DEF StockChange, Results
  <2> QED BY <2>6
<1>3. ASSUME NEW r \in Logged(Db, m, tx, type)
      PROVE  r \in Results
  <2>1. PICK day \in TimesOf(Db, tx, type),
             order \in SetToSeqs(ChangedRows(Db, tx, type)) :
          r = StockChange(day, [i \in 1 .. Len(order) |->
                                  ChangeOf(Db, m, tx, type, order[i])])
    BY DEF Logged
  <2> QED BY <2>1, <1>2
<1> QED BY <1>3, ConstantResults DEF CreateStockChangeLog

\* Stage two hands a typed result on, whatever the message names.
LEMMA StageTwoType ==
  ASSUME NEW m \in Messages
  PROVE  StageTwo(m) \subseteq Results
<1>1. ASSUME NEW r \in Results
      PROVE  ErrShadowed(r) \in Results
  BY ConstantResults DEF ErrShadowed
<1>2. \A tx, type : CreateStockChangeLog(Db, m, tx, type) \subseteq Results
  BY CreateStockChangeLogType
<1>3. Event[m].kind = "StockChange" =>
        StockChange(Event[m].day, Event[m].changes) \in Results
  BY EventAssumption DEF StockChange, Results
<1> QED BY <1>1, <1>2, <1>3, ConstantResults DEF StageTwo

-----------------------------------------------------------------------------
(* Types. *)

\* Each statement on daily_sku_histories writes a typed row.
LEMMA RowsType ==
  /\ NoRows \in [Keys -> Row]
  /\ \A init, count \in Int : InsertedRow(init, count) \in Row
  /\ \A row \in Row, count \in Int : UpdatedRow(row, count) \in Row
  /\ \A init \in Int : PreparedRow(init) \in Row
<1>1. NoRow \in Row
  BY DEF NoRow, Row
<1>2. NoRows \in [Keys -> Row]
  BY <1>1 DEF NoRows
<1>3. \A start, end, diff \in Int : NewRow(start, end, diff) \in Row
  BY DEF NewRow, Row
<1>4. \A init, count \in Int : InsertedRow(init, count) \in Row
  BY <1>3 DEF InsertedRow
<1>5. ASSUME NEW row \in Row, NEW count \in Int
      PROVE  UpdatedRow(row, count) \in Row
  <2>1. row.start \in Int /\ row.end + count \in Int /\ row.diff + count \in Int
    BY DEF Row
  <2> QED BY <2>1, <1>3 DEF UpdatedRow
<1>6. \A init \in Int : PreparedRow(init) \in Row
  BY <1>3 DEF PreparedRow
<1> QED BY <1>2, <1>4, <1>5, <1>6

\* The states in which a transaction starts and ends are typed.
LEMMA IdleType ==
  /\ Good(Idle)
  /\ \A m \in Messages, pc \in {"dedup", "reply"} :
       Good([Idle EXCEPT !.pc = pc, !.msg = m])
  /\ PrepareIdle \in PreparerState
<1>1. NoRows \in [Keys -> Row]
  BY RowsType
<1>2. 0 \in Days
  BY TablesAssumption DEF Days
<1>3. <<>> \in Seq(ChangeRecord)
  OBVIOUS
<1> HIDE DEF NoRows
<1>4. Idle \in HandlerState
  BY <1>1, <1>2, <1>3 DEF Idle, HandlerState
<1>5. Good(Idle)
  BY <1>4 DEF Good, Idle
<1>6. ASSUME NEW m \in Messages, NEW pc \in {"dedup", "reply"}
      PROVE  Good([Idle EXCEPT !.pc = pc, !.msg = m])
  <2> DEFINE one == [Idle EXCEPT !.pc = pc]
             two == [one EXCEPT !.msg = m]
  <2>1. one \in HandlerState
    BY <1>4 DEF HandlerState
  <2>2. two \in HandlerState /\ two.msg = m /\ two.pc = pc
    BY <2>1 DEF HandlerState
  <2>3. two = [Idle EXCEPT !.pc = pc, !.msg = m]
    OBVIOUS
  <2>4. Good(two)
    BY <2>2 DEF Good
  <2> QED BY <2>3, <2>4
<1>7. PrepareIdle \in PreparerState
  BY <1>1 DEF PrepareIdle, PreparerState
<1> QED BY <1>5, <1>6, <1>7

\* The loops of stages three and four never leave the list of changes.
LEMMA AdvanceType ==
  ASSUME NEW state, Good(state), state.msg \in Messages, state.next \in 1 .. Len(state.changes),
         NEW here \in {"insert_log", "lock_sku"},
         NEW after \in {"lock_sku", "commit"}
  PROVE  Good(Advance(state, here, after))
<1>1. state \in HandlerState /\ Len(state.changes) \in Nat
  BY DEF Good, HandlerState
<1>2. CASE state.next < Len(state.changes)
  <2>1. Advance(state, here, after) = [state EXCEPT !.pc = here, !.next = @ + 1]
    BY <1>2 DEF Advance
  <2>2. state.next + 1 \in 1 .. Len(state.changes)
    BY <1>1, <1>2
  <2> DEFINE one == [state EXCEPT !.pc = here]
             n == state.next + 1
             two == [one EXCEPT !.next = n]
  <2>3. one \in HandlerState /\ one.msg \in Messages /\ one.changes = state.changes
    BY <1>1 DEF HandlerState
  <2>n. n \in Nat \ {0}
    BY <1>1, <2>2
  <2>4. /\ two \in HandlerState /\ two.msg \in Messages
        /\ two.next = n /\ two.changes = state.changes
    <3> HIDE DEF n, one
    <3> QED BY <2>n, <2>3 DEF HandlerState
  <2>5. two = Advance(state, here, after)
    BY <2>1
  <2> HIDE DEF two
  <2> QED BY <2>2, <2>4, <2>5 DEF Good
<1>3. CASE ~(state.next < Len(state.changes))
  <2>1. Advance(state, here, after) = [state EXCEPT !.pc = after, !.next = 1]
    BY <1>3 DEF Advance
  <2>2. 1 \in 1 .. Len(state.changes)
    BY <1>1
  <2> DEFINE one == [state EXCEPT !.pc = after]
             two == [one EXCEPT !.next = 1]
  <2>3. one \in HandlerState /\ one.msg \in Messages /\ one.changes = state.changes
    BY <1>1 DEF HandlerState
  <2>4. /\ two \in HandlerState /\ two.msg \in Messages
        /\ two.next = 1 /\ two.changes = state.changes
    <3>1. 1 \in Nat \ {0}
      OBVIOUS
    <3> HIDE DEF one
    <3> QED BY <3>1, <2>3 DEF HandlerState
  <2>5. two = Advance(state, here, after)
    BY <2>1
  <2> HIDE DEF two
  <2> QED BY <2>2, <2>4, <2>5 DEF Good
<1> QED BY <1>2, <1>3

\* A step that gives one request a good state keeps all of them good.
LEMMA TypeOfTxn ==
  ASSUME TypeInv, NEW h \in Handlers, NEW state, Good(state),
         txn' = [txn EXCEPT ![h] = state]
  PROVE  txn' \in [Handlers -> HandlerState] /\ ChainOK'
BY DEF TypeInv, TypeOK, HandlerTypeOK, ChainOK, Good

\* Under the invariant every request is in a good state.
LEMMA GoodTxn ==
  ASSUME TypeInv, NEW h \in Handlers
  PROVE  Good(txn[h])
BY DEF TypeInv, TypeOK, HandlerTypeOK, ChainOK, Good

\* In a loop the current change is a record of the list.
LEMMA ChangeTyped ==
  ASSUME TypeInv, NEW h \in Handlers,
         txn[h].pc \in {"insert_log", "lock_sku", "upsert_daily"}
  PROVE  Change(h) \in ChangeRecord /\ txn[h].next \in 1 .. Len(txn[h].changes)
BY GoodTxn DEF Good, HandlerState, Change

\* Publishing rows and releasing locks keeps the tables typed.
LEMMA TablesTyped ==
  ASSUME TablesTypeOK, NEW staged \in [Keys -> Row], NEW p \in Processes
  PROVE  /\ PublishRows(staged) \in [Keys -> Row]
         /\ ReleaseLocks(p) \in [Skus -> Processes \cup {None}]
BY DEF TablesTypeOK, PublishRows, Visible, ReleaseLocks

\* The empty database is typed.
LEMMA InitType == Init => TypeInv
<1> SUFFICES ASSUME Init PROVE TypeInv
  OBVIOUS
<1>1. TablesTypeOK
  BY RowsType DEF Init, TablesInit, TablesTypeOK
<1>2. HandlerTypeOK /\ ChainOK
  <2>1. txn \in [Handlers -> HandlerState] /\ ChainOK
    BY IdleType DEF Init, HandlerInit, ChainOK, Good
  <2> QED BY <2>1, HandlerAssumption DEF Init, HandlerInit, HandlerTypeOK
<1>3. PrepareTypeOK
  <2>1. prep \in [Preparers -> PreparerState]
    BY IdleType DEF Init, PrepareInit
  <2> QED BY <2>1, TablesAssumption, PrepareAssumption
             DEF Init, PrepareInit, PrepareTypeOK, Days
<1> QED BY <1>1, <1>2, <1>3 DEF TypeInv, TypeOK

\* A rollback keeps the types.
LEMMA RollBackType ==
  ASSUME TypeInv, NEW h \in Handlers, RollBack(h), UNCHANGED prepareVars
  PROVE  TypeInv'
<1>1. txn' \in [Handlers -> HandlerState] /\ ChainOK'
  BY IdleType, TypeOfTxn DEF RollBack
<1>2. TablesTypeOK'
  BY TablesTyped, RowsType, HandlerAssumption
     DEF RollBack, TypeInv, TypeOK, TablesTypeOK
<1> QED BY <1>1, <1>2 DEF RollBack, TypeInv, TypeOK, HandlerTypeOK, PrepareTypeOK, prepareVars

\* A step of the chain to a good state keeps the types.
LEMMA ContinueType ==
  ASSUME TypeInv, NEW h \in Handlers, NEW state, Good(state), Continue(h, state),
         UNCHANGED prepareVars
  PROVE  TypeInv'
<1>1. txn' \in [Handlers -> HandlerState] /\ ChainOK'
  BY TypeOfTxn DEF Continue
<1> QED BY <1>1 DEF Continue, TypeInv, TypeOK, HandlerTypeOK, PrepareTypeOK,
                    TablesTypeOK, prepareVars, tables

\* A transaction may leave stages one and two for a place outside the loops.
LEMMA GoodPc ==
  ASSUME NEW state \in HandlerState, state.msg \in Messages,
         NEW pc \in {"create_change_log", "commit"}
  PROVE  Good([state EXCEPT !.pc = pc])
BY DEF Good, HandlerState

\* Every step of the chain keeps the types.
LEMMA HandlerStepType ==
  ASSUME TypeInv, NEW h \in Handlers, HandlerStep(h), UNCHANGED prepareVars
  PROVE  TypeInv'
<1>g. Good(txn[h]) /\ txn[h] \in HandlerState
  BY GoodTxn DEF Good
<1>m. txn[h].msg \in Messages
  BY <1>g DEF Good, HandlerStep, SkipDuplicate, Claim, MakeChangeLog, InsertLog,
              LockSku, UpsertDaily, Commit, Acknowledge
<1>1. CASE SkipDuplicate(h)
  BY <1>1, <1>g, <1>m, GoodPc, ContinueType DEF SkipDuplicate
<1>2. CASE Claim(h)
  <2> DEFINE one == [txn[h] EXCEPT !.pc = "create_change_log"]
             two == [one EXCEPT !.claimed = TRUE]
  <2>1. one \in HandlerState /\ one.msg \in Messages /\ one.pc = "create_change_log"
    BY <1>g, <1>m DEF HandlerState
  <2>2. Good(two)
    BY <2>1 DEF Good, HandlerState
  <2>3. two = [txn[h] EXCEPT !.pc = "create_change_log", !.claimed = TRUE]
    OBVIOUS
  <2> HIDE DEF two
  <2> QED BY <1>2, <2>2, <2>3, ContinueType DEF Claim
<1>3. CASE MakeChangeLog(h)
  <2>1. PICK r \in StageTwo(txn[h].msg) :
          \/ r.tag = "error" /\ RollBack(h)
          \/ r.tag = "nil" /\ Continue(h, [txn[h] EXCEPT !.pc = "commit"])
          \/ /\ r.tag = "event"
             /\ Continue(h, [txn[h] EXCEPT
                  !.day = r.day, !.changes = r.changes, !.next = 1,
                  !.pc = IF r.changes = <<>> THEN "commit" ELSE "insert_log"])
    BY <1>3 DEF MakeChangeLog
  <2>2. r \in Results
    BY <1>m, <2>1, StageTwoType
  <2>3. CASE r.tag = "error" /\ RollBack(h)
    BY <2>3, RollBackType
  <2>4. CASE r.tag = "nil" /\ Continue(h, [txn[h] EXCEPT !.pc = "commit"])
    BY <2>4, <1>g, <1>m, GoodPc, ContinueType
  <2>5. CASE Continue(h, [txn[h] EXCEPT
               !.day = r.day, !.changes = r.changes, !.next = 1,
               !.pc = IF r.changes = <<>> THEN "commit" ELSE "insert_log"])
    <3> DEFINE pc == IF r.changes = <<>> THEN "commit" ELSE "insert_log"
               one == [txn[h] EXCEPT !.day = r.day]
               two == [one EXCEPT !.changes = r.changes]
               three == [two EXCEPT !.next = 1]
               four == [three EXCEPT !.pc = pc]
    <3>1. one \in HandlerState /\ one.msg \in Messages
      BY <1>g, <1>m, <2>2 DEF HandlerState, Results
    <3>2. two \in HandlerState /\ two.msg \in Messages /\ two.changes = r.changes
      BY <3>1, <2>2 DEF HandlerState, Results
    <3>3. /\ three \in HandlerState /\ three.msg \in Messages
          /\ three.changes = r.changes /\ three.next = 1
      <4>1. 1 \in Nat \ {0}
        OBVIOUS
      <4> HIDE DEF two
      <4> QED BY <4>1, <3>2 DEF HandlerState
    <3>4. /\ four \in HandlerState /\ four.msg \in Messages
          /\ four.changes = r.changes /\ four.next = 1 /\ four.pc = pc
      BY <3>3 DEF HandlerState
    <3>5. four = [txn[h] EXCEPT
               !.day = r.day, !.changes = r.changes, !.next = 1,
               !.pc = IF r.changes = <<>> THEN "commit" ELSE "insert_log"]
      OBVIOUS
    <3>6. r.changes # <<>> => 1 \in 1 .. Len(r.changes)
      BY <2>2 DEF Results
    <3> HIDE DEF four
    <3>7. Good(four)
      BY <3>4, <3>6 DEF Good
    <3> QED BY <2>5, <3>5, <3>7, ContinueType
  <2> QED BY <2>1, <2>3, <2>4, <2>5
<1>4. CASE InsertLog(h)
  <2>1. Change(h) \in ChangeRecord /\ txn[h].next \in 1 .. Len(txn[h].changes)
    BY <1>4, ChangeTyped DEF InsertLog
  <2>2. CASE RollBack(h)
    BY <2>2, RollBackType
  <2>3. CASE Continue(h, Advance(txn[h], "insert_log", "lock_sku"))
    BY <2>3, <2>1, <1>g, <1>m, AdvanceType, ContinueType
  <2>4. CASE Continue(h, Advance([txn[h] EXCEPT !.log = @ \cup {Change(h)}],
                                 "insert_log", "lock_sku"))
    <3> DEFINE state == [txn[h] EXCEPT !.log = @ \cup {Change(h)}]
    <3>1. Good(state) /\ state.msg \in Messages /\ state.next \in 1 .. Len(state.changes)
      BY <1>g, <1>m, <2>1 DEF Good, HandlerState
    <3> HIDE DEF state
    <3>2. Good(Advance(state, "insert_log", "lock_sku"))
      BY <3>1, AdvanceType
    <3> QED BY <3>2, <2>4, ContinueType DEF state
  <2> QED BY <1>4, <2>2, <2>3, <2>4 DEF InsertLog
<1>5. CASE LockSku(h)
  <2>1. CASE RollBack(h)
    BY <2>1, RollBackType
  <2>2. CASE /\ Change(h).sku \in Skus
             /\ skuLock' = [skuLock EXCEPT ![Change(h).sku] = h]
             /\ txn' = [txn EXCEPT ![h].pc = "upsert_daily"]
             /\ UNCHANGED <<published, acked, eventLog, changeLog, faults, daily, stock>>
    <3>1. txn[h].next \in 1 .. Len(txn[h].changes)
      BY <1>5, ChangeTyped DEF LockSku
    <3>2. Good([txn[h] EXCEPT !.pc = "upsert_daily"])
      BY <1>g, <1>m, <3>1 DEF Good, HandlerState
    <3>3. txn' = [txn EXCEPT ![h] = [txn[h] EXCEPT !.pc = "upsert_daily"]]
      BY <2>2
    <3>4. txn' \in [Handlers -> HandlerState] /\ ChainOK'
      BY <3>2, <3>3, TypeOfTxn
    <3>5. TablesTypeOK'
      BY <2>2, HandlerAssumption DEF TypeInv, TypeOK, TablesTypeOK
    <3> QED BY <2>2, <3>4, <3>5
            DEF TypeInv, TypeOK, HandlerTypeOK, PrepareTypeOK, prepareVars
  <2> QED BY <1>5, <2>1, <2>2 DEF LockSku
<1>6. CASE UpsertDaily(h)
  <2> DEFINE row == UpsertedRow(Visible(txn[h].rows, KeyOf(h)),
                                stock[Change(h).sku], Change(h).count)
             state == [txn[h] EXCEPT !.rows[KeyOf(h)] = row]
  <2>1. Change(h) \in ChangeRecord /\ txn[h].next \in 1 .. Len(txn[h].changes)
    BY <1>6, ChangeTyped DEF UpsertDaily
  <2>2. KeyOf(h) \in Keys => row \in Row
    <3> SUFFICES ASSUME KeyOf(h) \in Keys PROVE row \in Row
      OBVIOUS
    <3>1. Change(h).sku \in Skus /\ Change(h).count \in Int
      BY <2>1 DEF KeyOf, Keys, ChangeRecord
    <3>2. stock[Change(h).sku] \in Int
      BY <3>1 DEF TypeInv, TypeOK, TablesTypeOK
    <3>3. Visible(txn[h].rows, KeyOf(h)) \in Row
      BY <1>g DEF TypeInv, TypeOK, TablesTypeOK, Visible, HandlerState
    <3> QED BY <3>1, <3>2, <3>3, RowsType DEF UpsertedRow
  <2>3. Good(state) /\ state.msg \in Messages /\ state.next \in 1 .. Len(state.changes)
    <3> HIDE DEF row
    <3>1. [txn[h].rows EXCEPT ![KeyOf(h)] = row] \in [Keys -> Row]
      BY <1>g, <2>2 DEF HandlerState
    <3>2. state = [txn[h] EXCEPT !.rows = [txn[h].rows EXCEPT ![KeyOf(h)] = row]]
      OBVIOUS
    <3>3. /\ state \in HandlerState /\ state.msg = txn[h].msg
          /\ state.next = txn[h].next /\ state.changes = txn[h].changes
      <4> HIDE DEF state
      <4> QED BY <1>g, <3>1, <3>2 DEF HandlerState
    <3> HIDE DEF state
    <3> QED BY <3>3, <2>1, <1>m DEF Good
  <2>4. Good(Advance(state, "lock_sku", "commit"))
    <3> HIDE DEF state
    <3> QED BY <2>3, AdvanceType
  <2>5. Continue(h, Advance(state, "lock_sku", "commit"))
    BY <1>6 DEF UpsertDaily
  <2> HIDE DEF state
  <2> QED BY <2>4, <2>5, ContinueType
<1>7. CASE Commit(h)
  <2>1. Good([Idle EXCEPT !.pc = "reply", !.msg = txn[h].msg])
    BY <1>m, IdleType
  <2>2. txn' \in [Handlers -> HandlerState] /\ ChainOK'
    BY <1>7, <2>1, TypeOfTxn DEF Commit
  <2>3. TablesTypeOK'
    BY <1>7, <1>g, TablesTyped, HandlerAssumption
       DEF Commit, TypeInv, TypeOK, TablesTypeOK, HandlerState
  <2>4. eventLog' \subseteq Messages
    BY <1>7, <1>m DEF Commit, TypeInv, TypeOK, HandlerTypeOK
  <2>5. changeLog' \subseteq ChangeRecord
    BY <1>7, <1>g DEF Commit, TypeInv, TypeOK, HandlerTypeOK, HandlerState
  <2> QED BY <1>7, <2>2, <2>3, <2>4, <2>5
          DEF Commit, TypeInv, TypeOK, HandlerTypeOK, PrepareTypeOK, prepareVars
<1>8. CASE Acknowledge(h)
  <2>1. txn' \in [Handlers -> HandlerState] /\ ChainOK'
    BY <1>8, IdleType, TypeOfTxn DEF Acknowledge
  <2> QED BY <1>8, <1>m, <2>1
          DEF Acknowledge, TypeInv, TypeOK, HandlerTypeOK, TablesTypeOK,
              PrepareTypeOK, prepareVars, tables
<1> QED BY <1>1, <1>2, <1>3, <1>4, <1>5, <1>6, <1>7, <1>8 DEF HandlerStep

\* Publishing, delivering and faults keep the types.
LEMMA EnvironmentType ==
  ASSUME TypeInv, UNCHANGED prepareVars,
         \/ \E m \in Messages : Publish(m)
         \/ \E h \in Handlers, m \in Messages : Deliver(h, m)
         \/ \E h \in Handlers : Fault(h)
  PROVE  TypeInv'
<1>1. ASSUME NEW m \in Messages, Publish(m)
      PROVE  TypeInv'
  <2>1. stock' \in [Skus -> Int]
    BY <1>1, HandlerAssumption DEF Publish, TypeInv, TypeOK, TablesTypeOK
  <2> QED BY <1>1, <2>1
          DEF Publish, TypeInv, TypeOK, HandlerTypeOK, ChainOK, TablesTypeOK,
              PrepareTypeOK, prepareVars
<1>2. ASSUME NEW h \in Handlers, NEW m \in Messages, Deliver(h, m)
      PROVE  TypeInv'
  <2>1. txn' \in [Handlers -> HandlerState] /\ ChainOK'
    BY <1>2, IdleType, TypeOfTxn DEF Deliver
  <2> QED BY <1>2, <2>1
          DEF Deliver, TypeInv, TypeOK, HandlerTypeOK, TablesTypeOK,
              PrepareTypeOK, prepareVars, tables
<1>3. ASSUME NEW h \in Handlers, Fault(h)
      PROVE  TypeInv'
  <2>1. txn' \in [Handlers -> HandlerState] /\ ChainOK'
    BY <1>3, IdleType, TypeOfTxn DEF Fault
  <2>2. TablesTypeOK'
    BY <1>3, TablesTyped, RowsType, HandlerAssumption
       DEF Fault, TypeInv, TypeOK, TablesTypeOK
  <2>3. faults' \in 0 .. MaxFaults
    BY <1>3, HandlerAssumption DEF Fault, TypeInv, TypeOK, HandlerTypeOK
  <2> QED BY <1>3, <2>1, <2>2, <2>3
          DEF Fault, TypeInv, TypeOK, HandlerTypeOK, PrepareTypeOK, prepareVars
<1> QED BY <1>1, <1>2, <1>3

\* An aborted PrepareSkus call keeps the types.
LEMMA AbortPrepareType ==
  ASSUME TypeInv, NEW p \in Preparers, AbortPrepare(p), UNCHANGED handlerVars
  PROVE  TypeInv'
<1>1. prep' \in [Preparers -> PreparerState]
  BY IdleType DEF AbortPrepare, TypeInv, TypeOK, PrepareTypeOK
<1>2. TablesTypeOK'
  BY TablesTyped, RowsType, PrepareAssumption
     DEF AbortPrepare, TypeInv, TypeOK, TablesTypeOK
<1> QED BY <1>1, <1>2 DEF AbortPrepare, TypeInv, TypeOK, HandlerTypeOK, ChainOK,
                          PrepareTypeOK, handlerVars

\* A call begins with whatever ids it is given.
LEMMA BeginType ==
  ASSUME TypeInv, NEW p \in Preparers, NEW batch, BeginPrepare(p, batch),
         UNCHANGED handlerVars
  PROVE  TypeInv'
<1>h. HandlerTypeOK' /\ ChainOK'
  BY DEF TypeInv, TypeOK, HandlerTypeOK, ChainOK, handlerVars
<1>p. prep \in [Preparers -> PreparerState] /\ today \in Days /\ calls \in 0 .. MaxCalls
  BY DEF TypeInv, TypeOK, PrepareTypeOK
<1>t. TablesTypeOK
  BY DEF TypeInv, TypeOK
<1> DEFINE one == [PrepareIdle EXCEPT !.pc = "select"]
           two == [one EXCEPT !.want = batch \cap Skus]
<1>1. one \in PreparerState
  BY IdleType DEF PreparerState
<1>2. two \in PreparerState
  BY <1>1 DEF PreparerState
<1>3. prep' = [prep EXCEPT ![p] = two]
  BY DEF BeginPrepare
<1>4. prep' \in [Preparers -> PreparerState]
  BY <1>p, <1>2, <1>3
<1>5. calls' \in 0 .. MaxCalls
  BY <1>p, PrepareAssumption DEF BeginPrepare
<1> QED BY <1>h, <1>p, <1>t, <1>4, <1>5
        DEF BeginPrepare, tables, TablesTypeOK, TypeInv, TypeOK, PrepareTypeOK

\* Every step of PrepareSkus keeps the types.
LEMMA PrepareType ==
  ASSUME TypeInv, PrepareNext, UNCHANGED handlerVars
  PROVE  TypeInv'
<1>h. HandlerTypeOK' /\ ChainOK'
  BY DEF TypeInv, TypeOK, HandlerTypeOK, ChainOK, handlerVars
<1>p. prep \in [Preparers -> PreparerState] /\ today \in Days /\ calls \in 0 .. MaxCalls
  BY DEF TypeInv, TypeOK, PrepareTypeOK
<1>t. TablesTypeOK
  BY DEF TypeInv, TypeOK
<1>1. CASE NextDay
  <2>1. today' \in Days
    BY <1>1, <1>p, TablesAssumption DEF NextDay, Days
  <2> QED BY <1>1, <1>h, <1>p, <1>t, <2>1
          DEF NextDay, tables, TablesTypeOK, TypeInv, TypeOK, PrepareTypeOK
<1>2. ASSUME NEW p \in Preparers, NEW batch \in SkuBatches, BeginPrepare(p, batch)
      PROVE  TypeInv'
  BY <1>2, BeginType
<1>3. ASSUME NEW p \in Preparers, LockRow(p)
      PROVE  TypeInv'
  <2>1. PICK s \in prep[p].want :
          /\ skuLock' = [skuLock EXCEPT ![s] = p]
          /\ prep' = [prep EXCEPT ![p].want = @ \ {s}, ![p].locked = @ \cup {s}]
    BY <1>3 DEF LockRow
  <2>2. s \in Skus /\ prep[p] \in PreparerState
    BY <1>p DEF PreparerState
  <2> DEFINE one == [prep[p] EXCEPT !.want = @ \ {s}]
             two == [one EXCEPT !.locked = prep[p].locked \cup {s}]
  <2>3. one \in PreparerState /\ one.locked = prep[p].locked
    BY <2>2 DEF PreparerState
  <2>4. two \in PreparerState
    BY <2>2, <2>3 DEF PreparerState
  <2>5. prep' = [prep EXCEPT ![p] = two]
    BY <2>1, <2>3, <1>p
  <2>6. prep' \in [Preparers -> PreparerState]
    BY <1>p, <2>4, <2>5
  <2>7. skuLock' \in [Skus -> Processes \cup {None}]
    BY <1>t, <2>1, <2>2, PrepareAssumption DEF TablesTypeOK
  <2> QED BY <1>3, <1>h, <1>p, <1>t, <2>6, <2>7
          DEF LockRow, TablesTypeOK, TypeInv, TypeOK, PrepareTypeOK
<1>4. ASSUME NEW p \in Preparers, EndSelect(p)
      PROVE  TypeInv'
  <2>1. prep' \in [Preparers -> PreparerState]
    BY <1>4, <1>p DEF EndSelect, PreparerState
  <2> QED BY <1>4, <1>h, <1>p, <1>t, <2>1
          DEF EndSelect, tables, TablesTypeOK, TypeInv, TypeOK, PrepareTypeOK
<1>5. ASSUME NEW p \in Preparers, InsertDay(p)
      PROVE  TypeInv'
  <2>1. PICK s \in prep[p].locked :
          prep' = [prep EXCEPT
             ![p].locked = @ \ {s},
             ![p].rows = IF daily[<<today, s, SkuWarehouse[s]>>].used THEN @
                         ELSE [@ EXCEPT ![<<today, s, SkuWarehouse[s]>>] =
                                          PreparedRow(stock[s])]]
    BY <1>5 DEF InsertDay
  <2> DEFINE key == <<today, s, SkuWarehouse[s]>>
             rows == IF daily[key].used THEN prep[p].rows
                     ELSE [prep[p].rows EXCEPT ![key] = PreparedRow(stock[s])]
             one == [prep[p] EXCEPT !.locked = @ \ {s}]
             two == [one EXCEPT !.rows = rows]
  <2>2. s \in Skus /\ prep[p] \in PreparerState
    BY <1>p DEF PreparerState
  <2>3. PreparedRow(stock[s]) \in Row
    BY <2>2, <1>t, RowsType DEF TablesTypeOK
  <2>4. rows \in [Keys -> Row]
    BY <2>2, <2>3 DEF PreparerState
  <2>5. one \in PreparerState /\ one.rows = prep[p].rows
    BY <2>2 DEF PreparerState
  <2>6. two \in PreparerState
    <3> HIDE DEF rows, one
    <3> QED BY <2>4, <2>5 DEF PreparerState
  <2>7. prep' = [prep EXCEPT ![p] = two]
    BY <2>1, <2>5, <1>p
  <2>8. prep' \in [Preparers -> PreparerState]
    <3> HIDE DEF two
    <3> QED BY <1>p, <2>6, <2>7
  <2> QED BY <1>5, <1>h, <1>p, <1>t, <2>8
          DEF InsertDay, tables, TablesTypeOK, TypeInv, TypeOK, PrepareTypeOK
<1>6. ASSUME NEW p \in Preparers, CommitPrepare(p)
      PROVE  TypeInv'
  <2>1. prep' \in [Preparers -> PreparerState]
    BY <1>6, <1>p, IdleType DEF CommitPrepare
  <2>2. prep[p].rows \in [Keys -> Row]
    BY <1>p DEF PreparerState
  <2>3. TablesTypeOK'
    BY <1>6, <1>t, <2>2, TablesTyped, PrepareAssumption DEF CommitPrepare, TablesTypeOK
  <2> QED BY <1>6, <1>h, <1>p, <2>1, <2>3
          DEF CommitPrepare, TypeInv, TypeOK, PrepareTypeOK
<1>7. ASSUME NEW p \in Preparers, AbortPrepare(p)
      PROVE  TypeInv'
  BY <1>7, AbortPrepareType
<1> QED BY <1>1, <1>2, <1>3, <1>4, <1>5, <1>6, <1>7 DEF PrepareNext, PrepareStep

\* The type invariant is inductive.
LEMMA NextType == TypeInv /\ [Next]_vars => TypeInv'
<1> SUFFICES ASSUME TypeInv, [Next]_vars PROVE TypeInv'
  OBVIOUS
<1>1. CASE HandlerNext /\ UNCHANGED prepareVars
  BY <1>1, HandlerStepType, EnvironmentType DEF HandlerNext
<1>2. CASE PrepareNext /\ UNCHANGED handlerVars
  BY <1>2, PrepareType
<1>3. CASE DetectDeadlock
  BY <1>3, RollBackType, AbortPrepareType
     DEF DetectDeadlock, AbortHandler, AbortPreparer
<1>4. CASE UNCHANGED vars
  BY <1>4 DEF vars, tables, handlerVars, prepareVars, TypeInv, TypeOK, HandlerTypeOK,
              ChainOK, TablesTypeOK, PrepareTypeOK
<1> QED BY <1>1, <1>2, <1>3, <1>4 DEF Next

\* Tables, requests and PrepareSkus calls stay typed, and no loop of the chain
\* leaves the list of changes, whatever the tables and the messages hold.
THEOREM TypesHold == Spec => []TypeInv
<1> QED BY InitType, NextType, PTL DEF Spec

\* The type invariant that the runs check holds of every instance.
THEOREM TypeOKHolds == Spec => []TypeOK
<1>1. TypeInv => TypeOK
  BY DEF TypeInv
<1> QED BY <1>1, TypesHold, PTL

-----------------------------------------------------------------------------
(* What each step does to a transaction, field by field. *)

\* The other requests, and what no request touches before it commits.
OthersKept(h) ==
  /\ \A g \in Handlers \ {h} : txn'[g] = txn[g]
  /\ UNCHANGED <<prep, stock, published, today>>

TablesKept == UNCHANGED <<acked, eventLog, changeLog, daily>>

LocksDropped(h) ==
  \A s \in Skus : skuLock'[s] = IF skuLock[s] = h THEN None ELSE skuLock[s]

Fresh(h) == ~txn'[h].claimed /\ txn'[h].log = {} /\ txn'[h].rows = NoRows

Delivered(h) ==
  /\ OthersKept(h) /\ TablesKept /\ skuLock' = skuLock
  /\ txn[h].pc = "idle" /\ txn'[h].pc = "dedup" /\ Fresh(h)
  /\ txn'[h].msg \in published

RolledBack(h) ==
  /\ OthersKept(h) /\ TablesKept /\ LocksDropped(h)
  /\ txn'[h].pc = "idle" /\ Fresh(h)

Acked(h) ==
  /\ OthersKept(h) /\ UNCHANGED <<eventLog, changeLog, daily, skuLock>>
  /\ acked' = acked \cup {txn[h].msg}
  /\ txn[h].pc = "reply" /\ txn'[h].pc = "idle" /\ Fresh(h)

\* A step of the chain: the message and the claim of the transaction, its log
\* rows and its daily rows as given.
Moved(h, claimed, log, rows) ==
  /\ OthersKept(h) /\ TablesKept
  /\ txn'[h].msg = txn[h].msg /\ txn'[h].claimed = claimed
  /\ txn'[h].log = log /\ txn'[h].rows = rows

Skipped(h) ==
  /\ Moved(h, txn[h].claimed, txn[h].log, txn[h].rows) /\ skuLock' = skuLock
  /\ txn[h].pc = "dedup" /\ txn'[h].pc = "commit" /\ txn[h].msg \in eventLog

Claimed(h) ==
  /\ Moved(h, TRUE, txn[h].log, txn[h].rows) /\ skuLock' = skuLock
  /\ txn[h].pc = "dedup" /\ txn'[h].pc = "create_change_log"
  /\ txn[h].msg \notin eventLog /\ ClaimedElsewhere(h) = {}

Made(h) ==
  /\ Moved(h, txn[h].claimed, txn[h].log, txn[h].rows) /\ skuLock' = skuLock
  /\ txn[h].pc = "create_change_log"
  /\ \E result \in StageTwo(txn[h].msg) :
       \/ txn'[h].pc = "commit" /\ (result.tag = "nil" \/ result.changes = <<>>)
       \/ /\ txn'[h].pc = "insert_log"
          /\ txn'[h].changes = result.changes /\ txn'[h].next = 1
          /\ txn'[h].day = result.day

Logs(h, log) ==
  /\ Moved(h, txn[h].claimed, log, txn[h].rows) /\ skuLock' = skuLock
  /\ txn[h].pc = "insert_log"
  /\ txn'[h].changes = txn[h].changes /\ txn'[h].day = txn[h].day
  /\ \/ /\ txn'[h].pc = "insert_log" /\ txn'[h].next = txn[h].next + 1
     \/ /\ txn'[h].pc = "lock_sku" /\ ~(txn[h].next < Len(txn[h].changes))
        /\ txn'[h].next = 1

Inserted(h) ==
  \/ /\ Logs(h, txn[h].log)
     /\ Holds(changeLog \cup txn[h].log, Change(h))
  \/ /\ Logs(h, txn[h].log \cup {Change(h)})
     /\ ~Holds(changeLog \cup txn[h].log, Change(h))
     /\ KeyHeldElsewhere(h) = {}

Locked(h) ==
  /\ Moved(h, txn[h].claimed, txn[h].log, txn[h].rows)
  /\ txn[h].pc = "lock_sku" /\ txn'[h].pc = "upsert_daily"
  /\ txn'[h].changes = txn[h].changes /\ txn'[h].day = txn[h].day
  /\ txn'[h].next = txn[h].next
  /\ Change(h).sku \in Skus /\ Change(h)' = Change(h)
  /\ skuLock[Change(h).sku] \in {None, h}
  /\ skuLock' = [skuLock EXCEPT ![Change(h).sku] = h]

Upserted(h) ==
  LET row == UpsertedRow(Visible(txn[h].rows, KeyOf(h)),
                         stock[Change(h).sku], Change(h).count)
  IN  /\ Moved(h, txn[h].claimed, txn[h].log,
               [txn[h].rows EXCEPT ![KeyOf(h)] = row])
      /\ skuLock' = skuLock
      /\ txn'[h].changes = txn[h].changes /\ txn'[h].day = txn[h].day
      /\ txn[h].pc = "upsert_daily"
      /\ \/ txn'[h].pc = "lock_sku" /\ txn'[h].next = txn[h].next + 1
         \/ txn'[h].pc = "commit" /\ ~(txn[h].next < Len(txn[h].changes))

Committed(h) ==
  /\ OthersKept(h) /\ LocksDropped(h) /\ acked' = acked
  /\ eventLog' = IF txn[h].claimed THEN eventLog \cup {txn[h].msg} ELSE eventLog
  /\ changeLog' = changeLog \cup txn[h].log
  /\ daily' = PublishRows(txn[h].rows)
  /\ txn[h].pc = "commit" /\ txn'[h].pc = "reply"
  /\ txn'[h].msg = txn[h].msg /\ Fresh(h)

HandlerEffect(h) ==
  \/ Delivered(h) \/ RolledBack(h) \/ Acked(h) \/ Skipped(h) \/ Claimed(h)
  \/ Made(h) \/ Inserted(h) \/ Locked(h) \/ Upserted(h) \/ Committed(h)

\* A step that only adds a message or passes a day.
NoEffect ==
  /\ UNCHANGED <<txn, prep, skuLock, daily, eventLog, changeLog, acked>>
  /\ today' = today \/ today < MaxDay
  /\ UNCHANGED <<published, stock>> \/ \E m \in Messages : Publish(m)

\* The fields of a transaction after a step.
LEMMA AdvanceFields ==
  ASSUME NEW state \in HandlerState, NEW here, NEW after
  PROVE  LET s == Advance(state, here, after)
         IN  /\ s.pc \in {here, after} /\ s.msg = state.msg
             /\ s.claimed = state.claimed /\ s.log = state.log
             /\ s.rows = state.rows /\ s.changes = state.changes /\ s.day = state.day
             /\ \/ s.pc = here /\ s.next = state.next + 1
                \/ /\ s.pc = after /\ ~(state.next < Len(state.changes))
                   /\ s.next = 1
<1>1. CASE state.next < Len(state.changes)
  BY <1>1 DEF Advance, HandlerState
<1>2. CASE ~(state.next < Len(state.changes))
  BY <1>2 DEF Advance, HandlerState
<1> QED BY <1>1, <1>2

\* A rollback and a fault leave an empty transaction without locks.
LEMMA RollBackEffect ==
  ASSUME TypeInv, NEW h \in Handlers, RollBack(h) \/ Fault(h), UNCHANGED prepareVars
  PROVE  RolledBack(h)
<1>1. txn' = [txn EXCEPT ![h] = Idle]
  BY DEF RollBack, Fault
<1>2. txn \in [Handlers -> HandlerState]
  BY DEF TypeInv, TypeOK, HandlerTypeOK
<1>3. txn'[h].pc = "idle" /\ Fresh(h)
  BY <1>1, <1>2 DEF Idle, Fresh
<1>4. LocksDropped(h)
  BY DEF RollBack, Fault, ReleaseLocks, LocksDropped
<1>5. OthersKept(h) /\ TablesKept
  BY <1>1, <1>2 DEF RollBack, Fault, OthersKept, TablesKept, prepareVars
<1> QED BY <1>3, <1>4, <1>5 DEF RolledBack

\* A step of the chain writes nothing but the state of its transaction.
LEMMA ContinueEffect ==
  ASSUME TypeInv, NEW h \in Handlers, NEW state, Continue(h, state),
         state.msg = txn[h].msg, UNCHANGED prepareVars
  PROVE  /\ txn'[h] = state
         /\ Moved(h, state.claimed, state.log, state.rows)
         /\ skuLock' = skuLock
BY DEF TypeInv, TypeOK, HandlerTypeOK, Continue, Moved, OthersKept, TablesKept,
       prepareVars, tables

\* Stage one either claims the message id or skips the rest of the chain.
LEMMA ClaimEffect ==
  ASSUME TypeInv, NEW h \in Handlers, SkipDuplicate(h) \/ Claim(h), UNCHANGED prepareVars
  PROVE  Skipped(h) \/ Claimed(h)
<1>t. txn[h] \in HandlerState
  BY DEF TypeInv, TypeOK, HandlerTypeOK
<1>1. CASE SkipDuplicate(h)
  <2> DEFINE state == [txn[h] EXCEPT !.pc = "commit"]
  <2>1. /\ state.pc = "commit" /\ state.msg = txn[h].msg
        /\ state.claimed = txn[h].claimed /\ state.log = txn[h].log
        /\ state.rows = txn[h].rows
    BY <1>t DEF HandlerState
  <2>2. Continue(h, state)
    BY <1>1 DEF SkipDuplicate
  <2> HIDE DEF state
  <2>3. /\ txn'[h] = state /\ skuLock' = skuLock
        /\ Moved(h, state.claimed, state.log, state.rows)
    BY <2>1, <2>2, ContinueEffect
  <2> QED BY <1>1, <2>1, <2>3 DEF SkipDuplicate, Skipped
<1>2. CASE Claim(h)
  <2> DEFINE state == [txn[h] EXCEPT !.pc = "create_change_log", !.claimed = TRUE]
  <2>1. /\ state.pc = "create_change_log" /\ state.msg = txn[h].msg
        /\ state.claimed = TRUE /\ state.log = txn[h].log
        /\ state.rows = txn[h].rows
    BY <1>t DEF HandlerState
  <2>2. Continue(h, state)
    BY <1>2 DEF Claim
  <2> HIDE DEF state
  <2>3. /\ txn'[h] = state /\ skuLock' = skuLock
        /\ Moved(h, state.claimed, state.log, state.rows)
    BY <2>1, <2>2, ContinueEffect
  <2> QED BY <1>2, <2>1, <2>3 DEF Claim, Claimed
<1> QED BY <1>1, <1>2

\* Stage two changes neither the claim nor anything staged.
LEMMA MakeEffect ==
  ASSUME TypeInv, NEW h \in Handlers, MakeChangeLog(h), UNCHANGED prepareVars
  PROVE  RolledBack(h) \/ Made(h)
<1>t. txn[h] \in HandlerState
  BY DEF TypeInv, TypeOK, HandlerTypeOK
<1>1. PICK r \in StageTwo(txn[h].msg) :
        \/ RollBack(h)
        \/ r.tag = "nil" /\ Continue(h, [txn[h] EXCEPT !.pc = "commit"])
        \/ Continue(h, [txn[h] EXCEPT
             !.day = r.day, !.changes = r.changes, !.next = 1,
             !.pc = IF r.changes = <<>> THEN "commit" ELSE "insert_log"])
  BY DEF MakeChangeLog
<1>2. CASE RollBack(h)
  BY <1>2, RollBackEffect
<1>3. ASSUME NEW state, Continue(h, state),
             \/ state.pc = "commit" /\ (r.tag = "nil" \/ r.changes = <<>>)
             \/ /\ state.pc = "insert_log" /\ state.changes = r.changes
                /\ state.next = 1 /\ state.day = r.day,
             state.msg = txn[h].msg,
             state.claimed = txn[h].claimed, state.log = txn[h].log,
             state.rows = txn[h].rows
      PROVE  Made(h)
  <2>1. /\ txn'[h] = state /\ skuLock' = skuLock
        /\ Moved(h, state.claimed, state.log, state.rows)
    BY <1>3, ContinueEffect
  <2> QED BY <1>3, <2>1 DEF MakeChangeLog, Made
<1>4. CASE r.tag = "nil" /\ Continue(h, [txn[h] EXCEPT !.pc = "commit"])
  <2> DEFINE state == [txn[h] EXCEPT !.pc = "commit"]
  <2>1. /\ state.pc = "commit" /\ state.msg = txn[h].msg
        /\ state.claimed = txn[h].claimed /\ state.log = txn[h].log
        /\ state.rows = txn[h].rows
    BY <1>t DEF HandlerState
  <2>2. Continue(h, state)
    BY <1>4
  <2> HIDE DEF state
  <2> QED BY <2>1, <2>2, <1>3, <1>4
<1>5. CASE Continue(h, [txn[h] EXCEPT
             !.day = r.day, !.changes = r.changes, !.next = 1,
             !.pc = IF r.changes = <<>> THEN "commit" ELSE "insert_log"])
  <2> DEFINE pc == IF r.changes = <<>> THEN "commit" ELSE "insert_log"
             state == [txn[h] EXCEPT !.day = r.day, !.changes = r.changes,
                                     !.next = 1, !.pc = pc]
  <2>1. /\ state.pc = pc /\ state.msg = txn[h].msg
        /\ state.claimed = txn[h].claimed /\ state.log = txn[h].log
        /\ state.rows = txn[h].rows /\ state.changes = r.changes /\ state.next = 1
        /\ state.day = r.day
    BY <1>t DEF HandlerState
  <2>2. Continue(h, state)
    BY <1>5
  <2>3. (pc = "commit" /\ r.changes = <<>>) \/ pc = "insert_log"
    OBVIOUS
  <2> HIDE DEF pc, state
  <2> QED BY <2>1, <2>2, <2>3, <1>3
<1> QED BY <1>1, <1>2, <1>4, <1>5

\* Stage three stages one change log row whose key nobody has, or none.
LEMMA InsertEffect ==
  ASSUME TypeInv, NEW h \in Handlers, InsertLog(h), UNCHANGED prepareVars
  PROVE  RolledBack(h) \/ Inserted(h)
<1>t. txn[h] \in HandlerState /\ txn[h].pc = "insert_log"
  BY DEF TypeInv, TypeOK, HandlerTypeOK, InsertLog
<1>1. CASE RollBack(h)
  BY <1>1, RollBackEffect
<1>2. ASSUME NEW state \in HandlerState,
             Continue(h, Advance(state, "insert_log", "lock_sku")),
             state.msg = txn[h].msg, state.claimed = txn[h].claimed,
             state.rows = txn[h].rows, state.changes = txn[h].changes,
             state.next = txn[h].next, state.day = txn[h].day
      PROVE  Logs(h, state.log)
  <2> DEFINE after == Advance(state, "insert_log", "lock_sku")
  <2>1. /\ after.changes = txn[h].changes /\ after.msg = txn[h].msg
        /\ after.day = txn[h].day
        /\ \/ after.pc = "insert_log" /\ after.next = txn[h].next + 1
           \/ /\ after.pc = "lock_sku" /\ ~(txn[h].next < Len(txn[h].changes))
              /\ after.next = 1
        /\ after.claimed = txn[h].claimed /\ after.log = state.log
        /\ after.rows = txn[h].rows
    BY <1>2, AdvanceFields
  <2>2. Continue(h, after)
    BY <1>2
  <2> HIDE DEF after
  <2>3. /\ txn'[h] = after /\ skuLock' = skuLock
        /\ Moved(h, after.claimed, after.log, after.rows)
    BY <2>1, <2>2, ContinueEffect
  <2> QED BY <1>t, <2>1, <2>3 DEF Logs
<1>3. CASE /\ Holds(changeLog \cup txn[h].log, Change(h))
           /\ Continue(h, Advance(txn[h], "insert_log", "lock_sku"))
  BY <1>3, <1>t, <1>2 DEF Inserted
<1>4. CASE /\ ~Holds(changeLog \cup txn[h].log, Change(h))
           /\ KeyHeldElsewhere(h) = {}
           /\ Continue(h, Advance([txn[h] EXCEPT !.log = @ \cup {Change(h)}],
                                  "insert_log", "lock_sku"))
  <2> DEFINE state == [txn[h] EXCEPT !.log = @ \cup {Change(h)}]
  <2>1. Change(h) \in ChangeRecord
    BY <1>t, ChangeTyped
  <2>2. /\ state \in HandlerState /\ state.msg = txn[h].msg
        /\ state.claimed = txn[h].claimed /\ state.rows = txn[h].rows
        /\ state.log = txn[h].log \cup {Change(h)}
        /\ state.changes = txn[h].changes /\ state.next = txn[h].next
        /\ state.day = txn[h].day
    BY <1>t, <2>1 DEF HandlerState
  <2>3. Continue(h, Advance(state, "insert_log", "lock_sku"))
    BY <1>4
  <2> HIDE DEF state
  <2> QED BY <2>2, <2>3, <1>2, <1>4 DEF Inserted
<1> QED BY <1>1, <1>3, <1>4 DEF InsertLog

\* SELECT ... FOR UPDATE takes a lock that is free or already the request's.
LEMMA LockEffect ==
  ASSUME TypeInv, NEW h \in Handlers, LockSku(h), UNCHANGED prepareVars
  PROVE  RolledBack(h) \/ Locked(h)
<1>t. txn \in [Handlers -> HandlerState] /\ txn[h] \in HandlerState
  BY DEF TypeInv, TypeOK, HandlerTypeOK
<1>1. CASE RollBack(h)
  BY <1>1, RollBackEffect
<1>2. CASE /\ txn[h].pc = "lock_sku"
           /\ Change(h).sku \in Skus
           /\ LockedElsewhere(h) = {}
           /\ skuLock' = [skuLock EXCEPT ![Change(h).sku] = h]
           /\ txn' = [txn EXCEPT ![h].pc = "upsert_daily"]
           /\ UNCHANGED <<published, acked, eventLog, changeLog, faults, daily, stock>>
  <2> DEFINE state == [txn[h] EXCEPT !.pc = "upsert_daily"]
  <2>1. /\ state.pc = "upsert_daily" /\ state.msg = txn[h].msg
        /\ state.claimed = txn[h].claimed /\ state.log = txn[h].log
        /\ state.rows = txn[h].rows /\ state.changes = txn[h].changes
        /\ state.next = txn[h].next /\ state.day = txn[h].day
    BY <1>t DEF HandlerState
  <2>2. txn' = [txn EXCEPT ![h] = state]
    BY <1>2
  <2> HIDE DEF state
  <2>3. txn'[h] = state /\ \A g \in Handlers \ {h} : txn'[g] = txn[g]
    BY <1>t, <2>2
  <2>4. Change(h)' = Change(h)
    BY <2>1, <2>3 DEF Change
  <2>5. Moved(h, txn[h].claimed, txn[h].log, txn[h].rows)
    BY <1>2, <2>1, <2>3 DEF Moved, OthersKept, TablesKept, prepareVars
  <2>6. skuLock[Change(h).sku] \in {None, h}
    BY <1>2 DEF LockedElsewhere
  <2> QED BY <1>2, <2>1, <2>3, <2>4, <2>5, <2>6 DEF Locked
<1> QED BY <1>1, <1>2 DEF LockSku

\* The upsert stages the row of one key and nothing else.
LEMMA UpsertEffect ==
  ASSUME TypeInv, NEW h \in Handlers, UpsertDaily(h), UNCHANGED prepareVars
  PROVE  Upserted(h)
<1>t. txn[h] \in HandlerState /\ txn[h].pc = "upsert_daily"
  BY DEF TypeInv, TypeOK, HandlerTypeOK, UpsertDaily
<1> DEFINE row == UpsertedRow(Visible(txn[h].rows, KeyOf(h)),
                              stock[Change(h).sku], Change(h).count)
           rows == [txn[h].rows EXCEPT ![KeyOf(h)] = row]
           state == [txn[h] EXCEPT !.rows = rows]
           after == Advance(state, "lock_sku", "commit")
<1>1. /\ state.msg = txn[h].msg /\ state.claimed = txn[h].claimed
      /\ state.log = txn[h].log /\ state.rows = rows
      /\ state.next = txn[h].next /\ state.changes = txn[h].changes
      /\ state.day = txn[h].day
  BY <1>t DEF HandlerState
<1>2. Continue(h, after)
  BY DEF UpsertDaily
<1>3. /\ after.msg = txn[h].msg /\ after.claimed = txn[h].claimed
      /\ after.log = txn[h].log /\ after.rows = rows
      /\ after.changes = txn[h].changes /\ after.day = txn[h].day
      /\ \/ after.pc = "lock_sku" /\ after.next = txn[h].next + 1
         \/ after.pc = "commit" /\ ~(txn[h].next < Len(txn[h].changes))
  <2>1. ASSUME NEW n, NEW pc
        PROVE  LET s == [state EXCEPT !.pc = pc, !.next = n]
               IN  /\ s.pc = pc /\ s.msg = txn[h].msg /\ s.next = n
                   /\ s.claimed = txn[h].claimed /\ s.log = txn[h].log
                   /\ s.rows = rows /\ s.changes = txn[h].changes
                   /\ s.day = txn[h].day
    BY <1>t DEF HandlerState
  <2>2. CASE state.next < Len(state.changes)
    <3>1. after = [state EXCEPT !.pc = "lock_sku", !.next = state.next + 1]
      BY <2>2 DEF Advance
    <3> HIDE DEF state, after, rows
    <3> QED BY <1>1, <3>1, <2>1
  <2>3. CASE ~(state.next < Len(state.changes))
    <3>1. after = [state EXCEPT !.pc = "commit", !.next = 1]
      BY <2>3 DEF Advance
    <3> HIDE DEF state, after, rows
    <3> QED BY <1>1, <2>3, <3>1, <2>1
  <2> QED BY <2>2, <2>3
<1> HIDE DEF after, state
<1>4. /\ txn'[h] = after /\ skuLock' = skuLock
      /\ Moved(h, after.claimed, after.log, after.rows)
  BY <1>2, <1>3, ContinueEffect
<1> QED BY <1>t, <1>3, <1>4 DEF Upserted

\* COMMIT publishes what was staged and leaves an empty transaction.
LEMMA CommitEffect ==
  ASSUME TypeInv, NEW h \in Handlers, Commit(h), UNCHANGED prepareVars
  PROVE  Committed(h)
<1>t. txn \in [Handlers -> HandlerState]
  BY DEF TypeInv, TypeOK, HandlerTypeOK
<1> DEFINE state == [Idle EXCEPT !.pc = "reply", !.msg = txn[h].msg]
<1>1. /\ state.pc = "reply" /\ state.msg = txn[h].msg
      /\ ~state.claimed /\ state.log = {} /\ state.rows = NoRows
  BY DEF Idle
<1>2. txn' = [txn EXCEPT ![h] = state]
  BY DEF Commit
<1> HIDE DEF state
<1>3. txn'[h] = state /\ \A g \in Handlers \ {h} : txn'[g] = txn[g]
  BY <1>t, <1>2
<1>4. OthersKept(h)
  BY <1>3 DEF Commit, OthersKept, prepareVars
<1>5. LocksDropped(h)
  BY DEF Commit, ReleaseLocks, LocksDropped
<1> QED BY <1>1, <1>3, <1>4, <1>5 DEF Commit, Committed, Fresh

\* A delivery opens an empty transaction.
LEMMA DeliverEffect ==
  ASSUME TypeInv, NEW h \in Handlers, NEW m \in Messages, Deliver(h, m),
         UNCHANGED prepareVars
  PROVE  Delivered(h)
<1>t. txn \in [Handlers -> HandlerState]
  BY DEF TypeInv, TypeOK, HandlerTypeOK
<1> DEFINE state == [Idle EXCEPT !.pc = "dedup", !.msg = m]
<1>1. /\ state.pc = "dedup" /\ ~state.claimed /\ state.log = {}
      /\ state.rows = NoRows /\ state.msg = m
  BY DEF Idle
<1>2. txn' = [txn EXCEPT ![h] = state]
  BY DEF Deliver
<1> HIDE DEF state
<1>3. txn'[h] = state /\ \A g \in Handlers \ {h} : txn'[g] = txn[g]
  BY <1>t, <1>2
<1> QED BY <1>1, <1>3 DEF Deliver, Delivered, OthersKept, TablesKept, Fresh, tables,
                          prepareVars

\* An answer ends an empty transaction.
LEMMA AcknowledgeEffect ==
  ASSUME TypeInv, NEW h \in Handlers, Acknowledge(h), UNCHANGED prepareVars
  PROVE  Acked(h)
<1>t. txn \in [Handlers -> HandlerState]
  BY DEF TypeInv, TypeOK, HandlerTypeOK
<1>1. txn'[h] = Idle /\ \A g \in Handlers \ {h} : txn'[g] = txn[g]
  BY <1>t DEF Acknowledge
<1> QED BY <1>1 DEF Acknowledge, Acked, OthersKept, Fresh, tables, prepareVars, Idle

-----------------------------------------------------------------------------
(* The same for PrepareSkus. *)

CallsKept(p) ==
  /\ \A q \in Preparers \ {p} : prep'[q] = prep[q]
  /\ UNCHANGED <<txn, acked, eventLog, changeLog, stock, published, today>>

Begun(p) ==
  /\ CallsKept(p) /\ UNCHANGED <<daily, skuLock>>
  /\ prep'[p].locked = {} /\ prep'[p].rows = NoRows

RowLocked(p) ==
  \E s \in Skus :
    /\ CallsKept(p) /\ daily' = daily
    /\ prep[p].pc # "idle" /\ prep'[p].pc # "idle"
    /\ skuLock[s] \in {None, p} /\ skuLock' = [skuLock EXCEPT ![s] = p]
    /\ prep'[p].locked = prep[p].locked \cup {s}
    /\ prep'[p].rows = prep[p].rows

Selected(p) ==
  /\ CallsKept(p) /\ UNCHANGED <<daily, skuLock>>
  /\ prep[p].pc # "idle" /\ prep'[p].pc # "idle"
  /\ prep'[p].locked = prep[p].locked /\ prep'[p].rows = prep[p].rows

DayInserted(p) ==
  \E s \in prep[p].locked :
    LET key == <<today, s, SkuWarehouse[s]>>
    IN  /\ CallsKept(p) /\ UNCHANGED <<daily, skuLock>>
        /\ prep[p].pc # "idle" /\ prep'[p].pc # "idle"
        /\ prep'[p].locked = prep[p].locked \ {s}
        /\ prep'[p].rows =
             IF daily[key].used THEN prep[p].rows
             ELSE [prep[p].rows EXCEPT ![key] = PreparedRow(stock[s])]

Ended(p) ==
  /\ CallsKept(p) /\ LocksDropped(p) /\ prep[p].pc # "idle"
  /\ daily' = daily \/ daily' = PublishRows(prep[p].rows)
  /\ prep'[p].locked = {} /\ prep'[p].rows = NoRows

PrepareEffect(p) ==
  Begun(p) \/ RowLocked(p) \/ Selected(p) \/ DayInserted(p) \/ Ended(p)

\* A PrepareSkus call begins, locks a row, goes on, stages a day or ends.
LEMMA PrepareEffects ==
  ASSUME TypeInv, NEW p \in Preparers, UNCHANGED handlerVars,
         \/ \E batch : BeginPrepare(p, batch)
         \/ PrepareStep(p)
         \/ AbortPrepare(p)
  PROVE  PrepareEffect(p)
<1>t. prep \in [Preparers -> PreparerState] /\ prep[p] \in PreparerState
  BY DEF TypeInv, TypeOK, PrepareTypeOK
<1> USE DEF CallsKept, handlerVars
<1>1. ASSUME NEW batch, BeginPrepare(p, batch)
      PROVE  Begun(p)
  <2> DEFINE state == [PrepareIdle EXCEPT !.pc = "select", !.want = batch \cap Skus]
  <2>1. state.locked = {} /\ state.rows = NoRows
    BY DEF PrepareIdle
  <2>2. prep' = [prep EXCEPT ![p] = state]
    BY <1>1 DEF BeginPrepare
  <2> HIDE DEF state
  <2> QED BY <1>1, <1>t, <2>1, <2>2 DEF BeginPrepare, Begun, tables
<1>2. CASE LockRow(p)
  <2>1. PICK s \in prep[p].want :
          /\ skuLock[s] \in {None, p}
          /\ skuLock' = [skuLock EXCEPT ![s] = p]
          /\ prep' = [prep EXCEPT ![p].want = @ \ {s}, ![p].locked = @ \cup {s}]
    BY <1>2 DEF LockRow
  <2>2. s \in Skus
    BY <1>t DEF PreparerState
  <2> DEFINE one == [prep[p] EXCEPT !.want = @ \ {s}]
             two == [one EXCEPT !.locked = prep[p].locked \cup {s}]
  <2>3. /\ one \in PreparerState /\ one.locked = prep[p].locked
        /\ one.rows = prep[p].rows /\ one.pc = prep[p].pc
    BY <1>t DEF PreparerState
  <2>4. /\ two.locked = prep[p].locked \cup {s} /\ two.rows = prep[p].rows
        /\ two.pc = prep[p].pc
    <3> HIDE DEF one
    <3> QED BY <2>3 DEF PreparerState
  <2>5. prep' = [prep EXCEPT ![p] = two]
    BY <2>1, <2>3, <1>t
  <2> HIDE DEF two
  <2>6. prep'[p] = two /\ \A q \in Preparers \ {p} : prep'[q] = prep[q]
    BY <1>t, <2>5
  <2>7. RowLocked(p)
    BY <1>2, <2>1, <2>2, <2>4, <2>6 DEF LockRow, RowLocked
  <2> QED BY <2>7 DEF PrepareEffect
<1>3. CASE EndSelect(p)
  <2>1. /\ prep'[p].locked = prep[p].locked /\ prep'[p].rows = prep[p].rows
        /\ \A q \in Preparers \ {p} : prep'[q] = prep[q]
    BY <1>3, <1>t DEF EndSelect, PreparerState
  <2>2. Selected(p)
    BY <1>3, <2>1 DEF EndSelect, Selected, tables
  <2> QED BY <2>2 DEF PrepareEffect
<1>4. CASE InsertDay(p)
  <2>1. PICK s \in prep[p].locked :
          prep' = [prep EXCEPT
             ![p].locked = @ \ {s},
             ![p].rows = IF daily[<<today, s, SkuWarehouse[s]>>].used THEN @
                         ELSE [@ EXCEPT ![<<today, s, SkuWarehouse[s]>>] =
                                          PreparedRow(stock[s])]]
    BY <1>4 DEF InsertDay
  <2> DEFINE key == <<today, s, SkuWarehouse[s]>>
             rows == IF daily[key].used THEN prep[p].rows
                     ELSE [prep[p].rows EXCEPT ![key] = PreparedRow(stock[s])]
             one == [prep[p] EXCEPT !.locked = @ \ {s}]
             two == [one EXCEPT !.rows = rows]
  <2>2. /\ one \in PreparerState /\ one.rows = prep[p].rows
        /\ one.locked = prep[p].locked \ {s} /\ one.pc = prep[p].pc
    BY <1>t DEF PreparerState
  <2>3. /\ two.locked = prep[p].locked \ {s} /\ two.rows = rows
        /\ two.pc = prep[p].pc
    <3> HIDE DEF one, rows
    <3> QED BY <2>2 DEF PreparerState
  <2>4. prep' = [prep EXCEPT ![p] = two]
    BY <2>1, <2>2, <1>t
  <2> HIDE DEF two
  <2>5. prep'[p] = two /\ \A q \in Preparers \ {p} : prep'[q] = prep[q]
    BY <1>t, <2>4
  <2>6. CallsKept(p) /\ UNCHANGED <<daily, skuLock>>
    BY <1>4, <2>5 DEF InsertDay, tables
  <2>7. DayInserted(p)
    BY <1>4, <2>3, <2>5, <2>6 DEF DayInserted, InsertDay
  <2> QED BY <2>7 DEF PrepareEffect
<1>5. CASE CommitPrepare(p) \/ AbortPrepare(p)
  <2>1. prep' = [prep EXCEPT ![p] = PrepareIdle]
    BY <1>5 DEF CommitPrepare, AbortPrepare
  <2>2. /\ prep'[p].locked = {} /\ prep'[p].rows = NoRows
        /\ \A q \in Preparers \ {p} : prep'[q] = prep[q]
    BY <1>t, <2>1 DEF PrepareIdle
  <2>3. LocksDropped(p)
    BY <1>5 DEF CommitPrepare, AbortPrepare, ReleaseLocks, LocksDropped
  <2>4. Ended(p)
    BY <1>5, <2>2, <2>3 DEF CommitPrepare, AbortPrepare, Ended
  <2> QED BY <2>4 DEF PrepareEffect
<1> QED BY <1>1, <1>2, <1>3, <1>4, <1>5 DEF PrepareStep, PrepareEffect

\* Every step of the service is one of the effects.
LEMMA Effects ==
  ASSUME TypeInv, [Next]_vars
  PROVE  \/ NoEffect
         \/ \E h \in Handlers : HandlerEffect(h)
         \/ \E p \in Preparers : PrepareEffect(p)
<1>1. CASE HandlerNext /\ UNCHANGED prepareVars
  <2>1. ASSUME NEW m \in Messages, Publish(m)
        PROVE  NoEffect
    BY <1>1, <2>1 DEF Publish, NoEffect, prepareVars
  <2>2. ASSUME NEW h \in Handlers, NEW m \in Messages, Deliver(h, m)
        PROVE  HandlerEffect(h)
    BY <1>1, <2>2, DeliverEffect DEF HandlerEffect
  <2>3. ASSUME NEW h \in Handlers, HandlerStep(h) \/ Fault(h)
        PROVE  HandlerEffect(h)
    BY <1>1, <2>3, RollBackEffect, ClaimEffect, MakeEffect, InsertEffect, LockEffect,
       UpsertEffect, CommitEffect, AcknowledgeEffect DEF HandlerStep, HandlerEffect
  <2> QED BY <1>1, <2>1, <2>2, <2>3 DEF HandlerNext
<1>2. CASE PrepareNext /\ UNCHANGED handlerVars
  <2>1. CASE NextDay
    BY <1>2, <2>1 DEF NextDay, NoEffect, handlerVars, tables
  <2>2. ASSUME NEW p \in Preparers,
               \/ \E batch \in SkuBatches : BeginPrepare(p, batch)
               \/ PrepareStep(p)
               \/ AbortPrepare(p)
        PROVE  PrepareEffect(p)
    BY <1>2, <2>2, PrepareEffects
  <2> QED BY <1>2, <2>1, <2>2 DEF PrepareNext
<1>3. CASE DetectDeadlock
  <2>1. ASSUME NEW h \in Handlers, AbortHandler(h)
        PROVE  HandlerEffect(h)
    BY <2>1, RollBackEffect DEF AbortHandler, HandlerEffect
  <2>2. ASSUME NEW p \in Preparers, AbortPreparer(p)
        PROVE  PrepareEffect(p)
    BY <2>2, PrepareEffects DEF AbortPreparer
  <2> QED BY <1>3, <2>1, <2>2 DEF DetectDeadlock
<1>4. CASE UNCHANGED vars
  BY <1>4 DEF vars, tables, handlerVars, prepareVars, NoEffect
<1> QED BY <1>1, <1>2, <1>3, <1>4 DEF Next

-----------------------------------------------------------------------------
(* The row locks. *)

\* Besides StagedRowsLocked: whoever is about to write a day holds the lock.
LockInv ==
  /\ StagedRowsLocked
  /\ \A h \in Handlers :
       txn[h].pc = "upsert_daily" =>
         Change(h).sku \in Skus /\ skuLock[Change(h).sku] = h
  /\ \A p \in Preparers : \A s \in prep[p].locked : skuLock[s] = p

\* The key a typed change writes.
LEMMA KeyTyped ==
  ASSUME TypeInv, NEW h \in Handlers, txn[h].pc = "upsert_daily",
         Change(h).sku \in Skus
  PROVE  KeyOf(h) \in Keys /\ KeyOf(h)[2] = Change(h).sku
<1>1. Change(h) \in ChangeRecord
  BY ChangeTyped
<1>2. txn[h].day \in Days
  BY DEF TypeInv, TypeOK, HandlerTypeOK, HandlerState
<1> QED BY <1>1, <1>2 DEF KeyOf, Keys, ChangeRecord

\* A transaction that has staged nothing has no row for any day.
LEMMA NoRowsUnused == \A k \in Keys : ~NoRows[k].used /\ NoRows[k] = NoRow
BY DEF NoRows, NoRow

\* A step of the event handler takes a lock from nobody, and a request that
\* ends gives back only its own.
LEMMA HandlerLocks ==
  ASSUME TypeInv, LockInv, NEW h \in Handlers, HandlerEffect(h)
  PROVE  LockInv'
<1>t. /\ \A g \in Handlers : txn[g] \in HandlerState
      /\ \A p \in Preparers : prep[p] \in PreparerState
      /\ skuLock \in [Skus -> Processes \cup {None}]
  BY DEF TypeInv, TypeOK, HandlerTypeOK, PrepareTypeOK, TablesTypeOK
<1>p. /\ None \notin Handlers /\ None \notin Preparers
      /\ Handlers \cap Preparers = {}
  BY TablesAssumption, ServiceAssumption
<1>k. \A k \in Keys : k[2] \in Skus
  BY DEF Keys
<1>i. /\ \A g \in Handlers, k \in Keys : txn[g].rows[k].used => skuLock[k[2]] = g
      /\ \A p \in Preparers, k \in Keys : prep[p].rows[k].used => skuLock[k[2]] = p
      /\ \A g \in Handlers :
           txn[g].pc = "upsert_daily" =>
             Change(g).sku \in Skus /\ skuLock[Change(g).sku] = g
      /\ \A p \in Preparers : \A s \in prep[p].locked : s \in Skus /\ skuLock[s] = p
  BY <1>t DEF LockInv, StagedRowsLocked, PreparerState
<1>o. OthersKept(h)
  BY DEF HandlerEffect, Delivered, RolledBack, Acked, Skipped, Claimed, Made,
         Inserted, Logs, Locked, Upserted, Committed, Moved
<1>c. \A g \in Handlers \ {h} : Change(g)' = Change(g)
  BY <1>o DEF OthersKept, Change
<1> SUFFICES
      /\ \A g \in Handlers, k \in Keys : txn'[g].rows[k].used => skuLock'[k[2]] = g
      /\ \A p \in Preparers, k \in Keys : prep[p].rows[k].used => skuLock'[k[2]] = p
      /\ \A g \in Handlers :
           txn'[g].pc = "upsert_daily" =>
             Change(g)'.sku \in Skus /\ skuLock'[Change(g)'.sku] = g
      /\ \A p \in Preparers : \A s \in prep[p].locked : skuLock'[s] = p
  BY <1>o DEF LockInv, StagedRowsLocked, OthersKept
<1>1. CASE Delivered(h) \/ Acked(h)
  BY <1>1, <1>i, <1>c, NoRowsUnused DEF Delivered, Acked, Fresh, OthersKept
<1>2. CASE RolledBack(h) \/ Committed(h)
  <2>1. txn'[h].pc # "upsert_daily" /\ txn'[h].rows = NoRows
    BY <1>2 DEF RolledBack, Committed, Fresh
  <2>2. \A s \in Skus : skuLock[s] # h => skuLock'[s] = skuLock[s]
    BY <1>2 DEF RolledBack, Committed, LocksDropped
  <2> QED BY <1>i, <1>c, <1>k, <1>o, <1>p, <2>1, <2>2, NoRowsUnused DEF OthersKept
<1>3. CASE Skipped(h) \/ Claimed(h) \/ Made(h) \/ Inserted(h)
  <2>1. /\ txn'[h].pc # "upsert_daily" /\ txn'[h].rows = txn[h].rows
        /\ skuLock' = skuLock
    BY <1>3 DEF Skipped, Claimed, Made, Inserted, Logs, Moved
  <2> QED BY <1>i, <1>c, <1>o, <2>1 DEF OthersKept
<1>4. CASE Locked(h)
  <2>1. /\ txn'[h].rows = txn[h].rows /\ Change(h)' = Change(h)
        /\ Change(h).sku \in Skus /\ skuLock[Change(h).sku] \in {None, h}
        /\ skuLock' = [skuLock EXCEPT ![Change(h).sku] = h]
    BY <1>4 DEF Locked, Moved
  <2>2. \A s \in Skus : skuLock'[s] = IF s = Change(h).sku THEN h ELSE skuLock[s]
    BY <1>t, <2>1
  <2>3. \A g \in Handlers, k \in Keys : txn'[g].rows[k].used => skuLock'[k[2]] = g
    BY <1>i, <1>k, <1>o, <1>p, <2>1, <2>2 DEF OthersKept
  <2>4. \A p \in Preparers, k \in Keys : prep[p].rows[k].used => skuLock'[k[2]] = p
    BY <1>i, <1>k, <1>p, <2>1, <2>2
  <2>5. \A g \in Handlers :
           txn'[g].pc = "upsert_daily" =>
             Change(g)'.sku \in Skus /\ skuLock'[Change(g)'.sku] = g
    BY <1>i, <1>c, <1>o, <1>p, <2>1, <2>2 DEF OthersKept
  <2>6. \A p \in Preparers : \A s \in prep[p].locked : skuLock'[s] = p
    BY <1>i, <1>p, <2>1, <2>2
  <2> QED BY <2>3, <2>4, <2>5, <2>6
<1>5. CASE Upserted(h)
  <2>1. /\ txn[h].pc = "upsert_daily" /\ txn'[h].pc # "upsert_daily"
        /\ skuLock' = skuLock
        /\ \A k \in Keys : k # KeyOf(h) => txn'[h].rows[k] = txn[h].rows[k]
    BY <1>5, <1>t DEF Upserted, Moved, HandlerState
  <2>2. KeyOf(h)[2] = Change(h).sku /\ skuLock[Change(h).sku] = h
    BY <2>1, <1>i, KeyTyped
  <2> QED BY <1>i, <1>c, <1>o, <2>1, <2>2 DEF OthersKept
<1> QED BY <1>1, <1>2, <1>3, <1>4, <1>5 DEF HandlerEffect

\* Neither does PrepareSkus take a lock from anybody.
LEMMA PrepareLocks ==
  ASSUME TypeInv, LockInv, NEW p \in Preparers, PrepareEffect(p)
  PROVE  LockInv'
<1>t. /\ \A g \in Handlers : txn[g] \in HandlerState
      /\ \A q \in Preparers : prep[q] \in PreparerState
      /\ skuLock \in [Skus -> Processes \cup {None}] /\ today \in Days
  BY DEF TypeInv, TypeOK, HandlerTypeOK, PrepareTypeOK, TablesTypeOK
<1>p. /\ None \notin Handlers /\ None \notin Preparers
      /\ Handlers \cap Preparers = {}
  BY TablesAssumption, ServiceAssumption
<1>k. \A k \in Keys : k[2] \in Skus
  BY DEF Keys
<1>i. /\ \A g \in Handlers, k \in Keys : txn[g].rows[k].used => skuLock[k[2]] = g
      /\ \A q \in Preparers, k \in Keys : prep[q].rows[k].used => skuLock[k[2]] = q
      /\ \A g \in Handlers :
           txn[g].pc = "upsert_daily" =>
             Change(g).sku \in Skus /\ skuLock[Change(g).sku] = g
      /\ \A q \in Preparers : \A s \in prep[q].locked : s \in Skus /\ skuLock[s] = q
  BY <1>t DEF LockInv, StagedRowsLocked, PreparerState
<1>o. CallsKept(p)
  BY DEF PrepareEffect, Begun, RowLocked, Selected, DayInserted, Ended
<1> SUFFICES
      /\ \A g \in Handlers, k \in Keys : txn[g].rows[k].used => skuLock'[k[2]] = g
      /\ \A q \in Preparers, k \in Keys : prep'[q].rows[k].used => skuLock'[k[2]] = q
      /\ \A g \in Handlers :
           txn[g].pc = "upsert_daily" =>
             Change(g).sku \in Skus /\ skuLock'[Change(g).sku] = g
      /\ \A q \in Preparers : \A s \in prep'[q].locked : skuLock'[s] = q
  <2>1. \A g \in Handlers : Change(g)' = Change(g)
    BY <1>o DEF CallsKept, Change
  <2> QED BY <1>o, <2>1 DEF LockInv, StagedRowsLocked, CallsKept
<1>1. CASE Begun(p)
  BY <1>1, <1>i, NoRowsUnused DEF Begun, CallsKept
<1>2. CASE RowLocked(p)
  <2>1. PICK s \in Skus :
          /\ skuLock[s] \in {None, p} /\ skuLock' = [skuLock EXCEPT ![s] = p]
          /\ prep'[p].locked = prep[p].locked \cup {s}
          /\ prep'[p].rows = prep[p].rows
    BY <1>2 DEF RowLocked
  <2>2. \A r \in Skus : skuLock'[r] = IF r = s THEN p ELSE skuLock[r]
    BY <1>t, <2>1
  <2>3. \A g \in Handlers, k \in Keys : txn[g].rows[k].used => skuLock'[k[2]] = g
    BY <1>i, <1>k, <1>p, <2>1, <2>2
  <2>4. \A q \in Preparers, k \in Keys : prep'[q].rows[k].used => skuLock'[k[2]] = q
    BY <1>i, <1>k, <1>o, <1>p, <2>1, <2>2 DEF CallsKept
  <2>5. \A g \in Handlers :
           txn[g].pc = "upsert_daily" =>
             Change(g).sku \in Skus /\ skuLock'[Change(g).sku] = g
    BY <1>i, <1>p, <2>1, <2>2
  <2>6. \A q \in Preparers : \A r \in prep'[q].locked : skuLock'[r] = q
    BY <1>i, <1>o, <1>p, <2>1, <2>2 DEF CallsKept
  <2> QED BY <2>3, <2>4, <2>5, <2>6
<1>3. CASE Selected(p)
  BY <1>3, <1>i DEF Selected, CallsKept
<1>4. CASE DayInserted(p)
  <2>1. PICK s \in prep[p].locked :
          LET key == <<today, s, SkuWarehouse[s]>>
          IN  /\ skuLock' = skuLock
              /\ prep'[p].locked = prep[p].locked \ {s}
              /\ prep'[p].rows =
                   IF daily[key].used THEN prep[p].rows
                   ELSE [prep[p].rows EXCEPT ![key] = PreparedRow(stock[s])]
    BY <1>4 DEF DayInserted
  <2>2. \A k \in Keys : prep'[p].rows[k].used => prep[p].rows[k].used \/ k[2] = s
    <3> TAKE k \in Keys
    <3>1. k # <<today, s, SkuWarehouse[s]>> => prep'[p].rows[k] = prep[p].rows[k]
      BY <1>t, <2>1 DEF PreparerState
    <3> QED BY <3>1
  <2>3. /\ skuLock[s] = p /\ skuLock' = skuLock
        /\ prep'[p].locked \subseteq prep[p].locked
    BY <1>i, <2>1
  <2>4. \A q \in Preparers, k \in Keys : prep'[q].rows[k].used => skuLock'[k[2]] = q
    BY <1>i, <1>o, <2>2, <2>3 DEF CallsKept
  <2>5. \A q \in Preparers : \A r \in prep'[q].locked : skuLock'[r] = q
    BY <1>i, <1>o, <2>3 DEF CallsKept
  <2> QED BY <1>i, <2>3, <2>4, <2>5
<1>5. CASE Ended(p)
  <2>1. prep'[p].locked = {} /\ prep'[p].rows = NoRows
    BY <1>5 DEF Ended
  <2>2. \A s \in Skus : skuLock[s] # p => skuLock'[s] = skuLock[s]
    BY <1>5 DEF Ended, LocksDropped
  <2> QED BY <1>i, <1>k, <1>o, <1>p, <2>1, <2>2, NoRowsUnused DEF CallsKept
<1> QED BY <1>1, <1>2, <1>3, <1>4, <1>5 DEF PrepareEffect

\* Every step keeps the lock invariant.
LEMMA LockStep == TypeInv /\ LockInv /\ [Next]_vars => LockInv'
<1> SUFFICES ASSUME TypeInv, LockInv, [Next]_vars PROVE LockInv'
  OBVIOUS
<1>1. CASE NoEffect
  BY <1>1 DEF NoEffect, LockInv, StagedRowsLocked, Change
<1> QED BY <1>1, Effects, HandlerLocks, PrepareLocks

\* Nobody has staged a row at first, nor holds a lock.
LEMMA InitLocks == Init => LockInv
BY NoRowsUnused DEF Init, HandlerInit, PrepareInit, Idle, PrepareIdle, LockInv,
                    StagedRowsLocked

\* The lock invariant holds in every reachable state.
LEMMA LockHolds == Spec => [](TypeInv /\ LockInv)
BY InitLocks, LockStep, TypesHold, PTL DEF Spec

\* A daily row is staged only under the lock of its sku, whichever way the
\* requests and the PrepareSkus calls interleave, fail or deadlock.
THEOREM StagedRowsLockedHolds == Spec => []StagedRowsLocked
<1>1. LockInv => StagedRowsLocked
  BY DEF LockInv
<1> QED BY <1>1, LockHolds, PTL

-----------------------------------------------------------------------------
(* The books of a day. *)

Balanced(row) == row.diff = row.end - row.start

\* Staged rows balance as well, agree with the committed row on the opening
\* stock, and PrepareSkus stages nothing but days that are still unopened.
BooksInv ==
  /\ DiffIsEndMinusStart
  /\ \A k \in Keys : ~daily[k].used => daily[k] = NoRow
  /\ \A h \in Handlers, k \in Keys :
       txn[h].rows[k].used =>
         /\ Balanced(txn[h].rows[k])
         /\ daily[k].used => txn[h].rows[k].start = daily[k].start
  /\ \A p \in Preparers, k \in Keys :
       prep[p].rows[k].used =>
         /\ ~daily[k].used /\ Balanced(prep[p].rows[k])
         /\ prep[p].rows[k].diff = 0

\* The three statements that write a day write balanced rows.
LEMMA RowsBalanced ==
  /\ \A init, count \in Int : InsertedRow(init, count).used
                              /\ Balanced(InsertedRow(init, count))
  /\ \A row \in Row, count \in Int : Balanced(row) =>
       /\ Balanced(UpdatedRow(row, count))
       /\ UpdatedRow(row, count).used /\ UpdatedRow(row, count).start = row.start
  /\ \A init \in Int : Balanced(PreparedRow(init)) /\ PreparedRow(init).diff = 0
<1>1. \A start, end, diff \in Int :
        LET row == NewRow(start, end, diff)
        IN  row.used /\ row.start = start /\ row.end = end /\ row.diff = diff
  BY DEF NewRow
<1>2. ASSUME NEW init \in Int, NEW count \in Int
      PROVE  InsertedRow(init, count).used /\ Balanced(InsertedRow(init, count))
  <2>1. init - count \in Int /\ count = init - (init - count)
    OBVIOUS
  <2> QED BY <1>1, <2>1 DEF InsertedRow, Balanced
<1>3. ASSUME NEW row \in Row, NEW count \in Int, Balanced(row)
      PROVE  /\ Balanced(UpdatedRow(row, count))
             /\ UpdatedRow(row, count).used /\ UpdatedRow(row, count).start = row.start
  <2>1. /\ row.start \in Int /\ row.end \in Int /\ row.diff \in Int
        /\ row.end + count \in Int /\ row.diff + count \in Int
    BY DEF Row
  <2>2. row.diff + count = (row.end + count) - row.start
    BY <2>1, <1>3 DEF Balanced
  <2> QED BY <1>1, <2>1, <2>2 DEF UpdatedRow, Balanced
<1>4. ASSUME NEW init \in Int
      PROVE  Balanced(PreparedRow(init)) /\ PreparedRow(init).diff = 0
  <2>1. 0 \in Int /\ 0 = init - init
    OBVIOUS
  <2> QED BY <1>1, <2>1 DEF PreparedRow, Balanced
<1> QED BY <1>2, <1>3, <1>4

\* The row an upsert writes balances and keeps the opening stock of the day.
LEMMA UpsertBalances ==
  ASSUME TypeInv, BooksInv, NEW h \in Handlers, txn[h].pc = "upsert_daily",
         KeyOf(h) \in Keys
  PROVE  LET row == UpsertedRow(Visible(txn[h].rows, KeyOf(h)),
                                stock[Change(h).sku], Change(h).count)
         IN  /\ Balanced(row)
             /\ daily[KeyOf(h)].used => row.start = daily[KeyOf(h)].start
<1> DEFINE seen == Visible(txn[h].rows, KeyOf(h))
<1>1. Change(h) \in ChangeRecord
  BY ChangeTyped
<1>2. Change(h).count \in Int /\ stock[Change(h).sku] \in Int
  BY <1>1 DEF ChangeRecord, KeyOf, Keys, TypeInv, TypeOK, TablesTypeOK
<1>3. txn[h].rows[KeyOf(h)] \in Row /\ daily[KeyOf(h)] \in Row
  BY DEF TypeInv, TypeOK, TablesTypeOK, HandlerTypeOK, HandlerState
<1>4. seen \in Row
  BY <1>3 DEF Visible
<1>5. /\ Balanced(seen)
      /\ daily[KeyOf(h)].used => seen.used /\ seen.start = daily[KeyOf(h)].start
  BY DEF BooksInv, DiffIsEndMinusStart, Balanced, Visible
<1> HIDE DEF seen
<1>6. CASE seen.used
  BY <1>2, <1>4, <1>5, <1>6, RowsBalanced DEF UpsertedRow, seen
<1>7. CASE ~seen.used
  BY <1>2, <1>5, <1>7, RowsBalanced DEF UpsertedRow, seen
<1> QED BY <1>6, <1>7

\* A step of the event handler keeps the books of every day.
LEMMA HandlerBooks ==
  ASSUME TypeInv, LockInv, BooksInv, NEW h \in Handlers, HandlerEffect(h)
  PROVE  /\ BooksInv'
         /\ \A k \in Keys :
              daily[k].used => daily'[k].used /\ daily'[k].start = daily[k].start
<1>t. \A g \in Handlers : txn[g] \in HandlerState
  BY DEF TypeInv, TypeOK, HandlerTypeOK
<1>o. OthersKept(h)
  BY DEF HandlerEffect, Delivered, RolledBack, Acked, Skipped, Claimed, Made,
         Inserted, Logs, Locked, Upserted, Committed, Moved
<1>i. /\ \A k \in Keys : Balanced(daily[k]) /\ (~daily[k].used => daily[k] = NoRow)
      /\ \A g \in Handlers, k \in Keys :
           txn[g].rows[k].used =>
             /\ Balanced(txn[g].rows[k])
             /\ daily[k].used => txn[g].rows[k].start = daily[k].start
      /\ \A p \in Preparers, k \in Keys :
           prep[p].rows[k].used =>
             /\ ~daily[k].used /\ Balanced(prep[p].rows[k])
             /\ prep[p].rows[k].diff = 0
  BY DEF BooksInv, DiffIsEndMinusStart, Balanced
<1>1. CASE /\ daily' = daily
           /\ \/ txn'[h].rows = txn[h].rows
              \/ txn'[h].rows = NoRows
  BY <1>1, <1>i, <1>o, NoRowsUnused
     DEF BooksInv, DiffIsEndMinusStart, Balanced, OthersKept
<1>2. CASE Upserted(h)
  <2> DEFINE row == UpsertedRow(Visible(txn[h].rows, KeyOf(h)),
                                stock[Change(h).sku], Change(h).count)
  <2>1. /\ daily' = daily /\ txn[h].pc = "upsert_daily"
        /\ txn'[h].rows = [txn[h].rows EXCEPT ![KeyOf(h)] = row]
    BY <1>2 DEF Upserted, Moved, TablesKept
  <2>2. KeyOf(h) \in Keys
    BY <2>1, KeyTyped DEF LockInv
  <2>3. /\ Balanced(row)
        /\ daily[KeyOf(h)].used => row.start = daily[KeyOf(h)].start
    BY <2>1, <2>2, UpsertBalances
  <2> HIDE DEF row
  <2>4. \A k \in Keys :
          txn'[h].rows[k] = IF k = KeyOf(h) THEN row ELSE txn[h].rows[k]
    BY <1>t, <2>1 DEF HandlerState
  <2>5. \A g \in Handlers, k \in Keys :
          txn'[g].rows[k].used =>
            /\ Balanced(txn'[g].rows[k])
            /\ daily[k].used => txn'[g].rows[k].start = daily[k].start
    BY <1>i, <1>o, <2>3, <2>4 DEF OthersKept
  <2>6. prep' = prep
    BY <1>o DEF OthersKept
  <2>7. BooksInv'
    BY <1>i, <2>1, <2>5, <2>6 DEF BooksInv, DiffIsEndMinusStart, Balanced
  <2> QED BY <2>1, <2>7
<1>3. CASE Committed(h)
  <2>1. /\ txn'[h].rows = NoRows
        /\ \A k \in Keys :
             daily'[k] = IF txn[h].rows[k].used THEN txn[h].rows[k] ELSE daily[k]
    BY <1>3 DEF Committed, Fresh, PublishRows, Visible
  <2>2. \A k \in Keys :
          Balanced(daily'[k]) /\ (~daily'[k].used => daily'[k] = NoRow)
    BY <1>i, <2>1
  <2>3. \A g \in Handlers \ {h}, k \in Keys :
          txn[g].rows[k].used => ~txn[h].rows[k].used
    BY DEF LockInv, StagedRowsLocked
  <2>4. \A p \in Preparers, k \in Keys :
          prep[p].rows[k].used => ~txn[h].rows[k].used
    BY ServiceAssumption DEF LockInv, StagedRowsLocked
  <2>5. \A g \in Handlers, k \in Keys :
          txn'[g].rows[k].used =>
             /\ Balanced(txn'[g].rows[k])
             /\ daily'[k].used => txn'[g].rows[k].start = daily'[k].start
    BY <1>i, <1>o, <2>1, <2>3, NoRowsUnused DEF OthersKept
  <2>6. \A p \in Preparers, k \in Keys :
          prep'[p].rows[k].used =>
             /\ ~daily'[k].used /\ Balanced(prep'[p].rows[k])
             /\ prep'[p].rows[k].diff = 0
    BY <1>i, <1>o, <2>1, <2>4 DEF OthersKept
  <2>7. BooksInv'
    BY <2>2, <2>5, <2>6 DEF BooksInv, DiffIsEndMinusStart, Balanced
  <2> QED BY <1>i, <2>1, <2>7
<1> QED BY <1>1, <1>2, <1>3 DEF HandlerEffect, Delivered, RolledBack, Acked, Skipped,
           Claimed, Made, Inserted, Logs, Locked, Moved, TablesKept, Fresh

\* A step of PrepareSkus keeps the books, and moves no day's difference.
LEMMA PrepareBooks ==
  ASSUME TypeInv, LockInv, BooksInv, NEW p \in Preparers, PrepareEffect(p)
  PROVE  /\ BooksInv'
         /\ \A k \in Keys :
              daily[k].used => daily'[k].used /\ daily'[k].start = daily[k].start
         /\ \A k \in Keys : daily'[k].diff = daily[k].diff
<1>t. /\ \A q \in Preparers : prep[q] \in PreparerState
      /\ today \in Days /\ \A s \in Skus : stock[s] \in Int
  BY DEF TypeInv, TypeOK, PrepareTypeOK, TablesTypeOK
<1>o. CallsKept(p)
  BY DEF PrepareEffect, Begun, RowLocked, Selected, DayInserted, Ended
<1>i. /\ \A k \in Keys : Balanced(daily[k]) /\ (~daily[k].used => daily[k] = NoRow)
      /\ \A g \in Handlers, k \in Keys :
           txn[g].rows[k].used =>
             /\ Balanced(txn[g].rows[k])
             /\ daily[k].used => txn[g].rows[k].start = daily[k].start
      /\ \A q \in Preparers, k \in Keys :
           prep[q].rows[k].used =>
             /\ ~daily[k].used /\ Balanced(prep[q].rows[k])
             /\ prep[q].rows[k].diff = 0
  BY DEF BooksInv, DiffIsEndMinusStart, Balanced
<1>1. CASE /\ daily' = daily
           /\ \/ prep'[p].rows = prep[p].rows
              \/ prep'[p].rows = NoRows
  BY <1>1, <1>i, <1>o, NoRowsUnused
     DEF BooksInv, DiffIsEndMinusStart, Balanced, CallsKept
<1>2. CASE DayInserted(p)
  <2>1. PICK s \in prep[p].locked :
          LET key == <<today, s, SkuWarehouse[s]>>
          IN  /\ daily' = daily
              /\ prep'[p].rows =
                   IF daily[key].used THEN prep[p].rows
                   ELSE [prep[p].rows EXCEPT ![key] = PreparedRow(stock[s])]
    BY <1>2 DEF DayInserted
  <2> DEFINE key == <<today, s, SkuWarehouse[s]>>
             row == PreparedRow(stock[s])
  <2>2. Balanced(row) /\ row.diff = 0
    <3>1. stock[s] \in Int
      BY <1>t DEF PreparerState
    <3> QED BY <3>1, RowsBalanced
  <2>3. \A k \in Keys :
          prep'[p].rows[k] = IF k = key /\ ~daily[k].used THEN row ELSE prep[p].rows[k]
    BY <1>t, <2>1 DEF PreparerState
  <2> HIDE DEF row, key
  <2>4. \A q \in Preparers, k \in Keys :
          prep'[q].rows[k].used =>
             /\ ~daily[k].used /\ Balanced(prep'[q].rows[k])
             /\ prep'[q].rows[k].diff = 0
    BY <1>i, <1>o, <2>2, <2>3 DEF CallsKept
  <2>5. txn' = txn /\ daily' = daily
    BY <1>o, <2>1 DEF CallsKept
  <2>6. BooksInv'
    BY <1>i, <2>4, <2>5 DEF BooksInv, DiffIsEndMinusStart, Balanced
  <2> QED BY <2>5, <2>6
<1>3. CASE Ended(p) /\ daily' = PublishRows(prep[p].rows)
  <2>1. /\ prep'[p].rows = NoRows
        /\ \A k \in Keys :
             daily'[k] = IF prep[p].rows[k].used THEN prep[p].rows[k] ELSE daily[k]
    BY <1>3 DEF Ended, PublishRows, Visible
  <2>2. \A k \in Keys :
          Balanced(daily'[k]) /\ (~daily'[k].used => daily'[k] = NoRow)
    BY <1>i, <2>1
  <2>3. \A g \in Handlers, k \in Keys :
          txn[g].rows[k].used => ~prep[p].rows[k].used
    BY ServiceAssumption DEF LockInv, StagedRowsLocked
  <2>4. \A q \in Preparers \ {p}, k \in Keys :
          prep[q].rows[k].used => ~prep[p].rows[k].used
    BY DEF LockInv, StagedRowsLocked
  <2>5. \A g \in Handlers, k \in Keys :
          txn'[g].rows[k].used =>
             /\ Balanced(txn'[g].rows[k])
             /\ daily'[k].used => txn'[g].rows[k].start = daily'[k].start
    BY <1>i, <1>o, <2>1, <2>3 DEF CallsKept
  <2>6. \A q \in Preparers, k \in Keys :
          prep'[q].rows[k].used =>
             /\ ~daily'[k].used /\ Balanced(prep'[q].rows[k])
             /\ prep'[q].rows[k].diff = 0
    BY <1>i, <1>o, <2>1, <2>4, NoRowsUnused DEF CallsKept
  <2>7. BooksInv'
    BY <2>2, <2>5, <2>6 DEF BooksInv, DiffIsEndMinusStart, Balanced
  <2>8. \A k \in Keys : daily'[k].diff = daily[k].diff
    BY <1>i, <2>1 DEF NoRow
  <2> QED BY <1>i, <2>1, <2>7, <2>8
<1> QED BY <1>1, <1>2, <1>3 DEF PrepareEffect, Begun, RowLocked, Selected, Ended

\* Every step keeps the books and the opening stock of every day.
LEMMA BooksStep ==
  TypeInv /\ LockInv /\ BooksInv /\ [Next]_vars =>
    /\ BooksInv'
    /\ \A k \in Keys :
         daily[k].used => daily'[k].used /\ daily'[k].start = daily[k].start
<1> SUFFICES ASSUME TypeInv, LockInv, BooksInv, [Next]_vars
             PROVE  /\ BooksInv'
                    /\ \A k \in Keys :
                         daily[k].used => daily'[k].used /\ daily'[k].start = daily[k].start
  OBVIOUS
<1>1. CASE NoEffect
  BY <1>1 DEF NoEffect, BooksInv, DiffIsEndMinusStart, Balanced
<1> QED BY <1>1, Effects, HandlerBooks, PrepareBooks

\* The empty books balance.
LEMMA InitBooks == Init => BooksInv
<1>1. \A k \in Keys : ~NoRows[k].used /\ Balanced(NoRows[k]) /\ NoRows[k] = NoRow
  BY DEF NoRows, NoRow, Balanced
<1> QED BY <1>1 DEF Init, TablesInit, HandlerInit, PrepareInit, Idle, PrepareIdle,
                    BooksInv, DiffIsEndMinusStart, Balanced

\* The books invariant holds in every reachable state.
LEMMA BooksHold == Spec => [](TypeInv /\ LockInv /\ BooksInv)
BY InitBooks, BooksStep, LockHolds, PTL DEF Spec

\* The books of every day balance, whatever requests and PrepareSkus calls
\* wrote them and in whatever order they committed.
THEOREM DiffIsEndMinusStartHolds == Spec => []DiffIsEndMinusStart
<1>1. BooksInv => DiffIsEndMinusStart
  BY DEF BooksInv
<1> QED BY <1>1, BooksHold, PTL

\* No commit removes a day or rewrites its opening stock.
THEOREM DayStartIsFixedHolds == Spec => DayStartIsFixed
<1>1. /\ TypeInv /\ LockInv /\ BooksInv /\ [Next]_vars
      => [\A k \in Keys :
            daily[k].used => daily'[k].used /\ daily'[k].start = daily[k].start]_vars
  BY BooksStep
<1> QED BY <1>1, BooksHold, PTL DEF Spec, DayStartIsFixed

-----------------------------------------------------------------------------
(* Recorded once, acknowledged only then. *)

\* The places of the chain behind stage one.
Working == {"create_change_log", "insert_log", "lock_sku", "upsert_daily"}

OnceInv ==
  /\ AckedIsRecorded
  /\ \A h \in Handlers :
       /\ txn[h].claimed => txn[h].msg \notin eventLog
       /\ txn[h].claimed => txn[h].pc \in Working \cup {"commit"}
       /\ ~txn[h].claimed => txn[h].rows = NoRows /\ txn[h].log = {}
       /\ txn[h].pc \in Working => txn[h].claimed
       /\ txn[h].pc = "commit" => txn[h].claimed \/ txn[h].msg \in eventLog
       /\ txn[h].pc = "reply" => txn[h].msg \in eventLog
  /\ \A g, h \in Handlers :
       g # h /\ txn[g].claimed /\ txn[h].claimed => txn[g].msg # txn[h].msg

\* A step of the event handler claims, records and acknowledges in order.
LEMMA HandlerOnce ==
  ASSUME TypeInv, OnceInv, NEW h \in Handlers, HandlerEffect(h)
  PROVE  OnceInv'
<1>o. OthersKept(h)
  BY DEF HandlerEffect, Delivered, RolledBack, Acked, Skipped, Claimed, Made,
         Inserted, Logs, Locked, Upserted, Committed, Moved
<1> USE DEF OnceInv, AckedIsRecorded, OthersKept, Working
<1>1. CASE Delivered(h) \/ RolledBack(h)
  <2>1. /\ txn'[h].pc \in {"dedup", "idle"} /\ ~txn'[h].claimed
        /\ txn'[h].rows = NoRows /\ txn'[h].log = {}
        /\ eventLog' = eventLog /\ acked' = acked
    BY <1>1 DEF Delivered, RolledBack, TablesKept, Fresh
  <2> QED BY <1>o, <2>1
<1>2. CASE Acked(h)
  <2>1. /\ txn'[h].pc = "idle" /\ ~txn'[h].claimed
        /\ txn'[h].rows = NoRows /\ txn'[h].log = {}
        /\ eventLog' = eventLog /\ acked' = acked \cup {txn[h].msg}
        /\ txn[h].pc = "reply"
    BY <1>2 DEF Acked, Fresh
  <2> QED BY <1>o, <2>1
<1>3. CASE Skipped(h)
  BY <1>3, <1>o DEF Skipped, Moved, TablesKept
<1>4. CASE Claimed(h)
  <2>1. \A g \in Handlers \ {h} : txn[g].claimed => txn[g].msg # txn[h].msg
    BY <1>4 DEF Claimed, ClaimedElsewhere
  <2> QED BY <1>4, <1>o, <2>1 DEF Claimed, Moved, TablesKept
<1>5. CASE Made(h) \/ Inserted(h) \/ Locked(h) \/ Upserted(h)
  <2>1. /\ txn[h].pc \in Working /\ txn'[h].pc \in Working \cup {"commit"}
        /\ txn'[h].claimed = txn[h].claimed /\ txn'[h].msg = txn[h].msg
        /\ eventLog' = eventLog /\ acked' = acked
    BY <1>5 DEF Made, Inserted, Logs, Locked, Upserted, Moved, TablesKept
  <2> QED BY <1>o, <2>1
<1>6. CASE Committed(h)
  <2>1. /\ txn[h].pc = "commit" /\ txn'[h].pc = "reply" /\ ~txn'[h].claimed
        /\ txn'[h].rows = NoRows /\ txn'[h].log = {} /\ txn'[h].msg = txn[h].msg
        /\ acked' = acked
        /\ eventLog' = IF txn[h].claimed THEN eventLog \cup {txn[h].msg} ELSE eventLog
    BY <1>6 DEF Committed, Fresh
  <2> QED BY <1>o, <2>1
<1> QED BY <1>1, <1>2, <1>3, <1>4, <1>5, <1>6 DEF HandlerEffect

\* Every step records a message once and acknowledges only what is recorded.
LEMMA OnceStep == TypeInv /\ OnceInv /\ [Next]_vars => OnceInv'
<1> SUFFICES ASSUME TypeInv, OnceInv, [Next]_vars PROVE OnceInv'
  OBVIOUS
<1>1. CASE NoEffect
  BY <1>1 DEF NoEffect, OnceInv, AckedIsRecorded
<1>2. ASSUME NEW p \in Preparers, PrepareEffect(p)
      PROVE  OnceInv'
  <2>1. UNCHANGED <<txn, acked, eventLog>>
    BY <1>2 DEF PrepareEffect, Begun, RowLocked, Selected, DayInserted, Ended, CallsKept
  <2> QED BY <2>1 DEF OnceInv, AckedIsRecorded
<1> QED BY <1>1, <1>2, Effects, HandlerOnce

\* No message is recorded at the start.
LEMMA InitOnce == Init => OnceInv
BY DEF Init, HandlerInit, Idle, OnceInv, AckedIsRecorded, Working

\* The invariant of the recorded messages holds in every reachable state.
LEMMA OnceHolds == Spec => [](TypeInv /\ OnceInv)
BY InitOnce, OnceStep, TypesHold, PTL DEF Spec

\* Pub/Sub is told that a message is done only when stock_event_logs has it,
\* through duplicates, crashes and lost answers.
THEOREM AckedIsRecordedHolds == Spec => []AckedIsRecorded
<1>1. OnceInv => AckedIsRecorded
  BY DEF OnceInv
<1> QED BY <1>1, OnceHolds, PTL

\* A day changes its difference only together with the record of one message
\* that had none: no second delivery can count it again.
THEOREM SumsChangeWithOneRecordHolds == Spec => SumsChangeWithOneRecord
<1> DEFINE Counted == (\E k \in Keys : daily'[k].diff # daily[k].diff)
                        => \E m \in Messages \ eventLog : eventLog' = eventLog \cup {m}
<1>1. TypeInv /\ LockInv /\ BooksInv /\ OnceInv /\ [Next]_vars => [Counted]_vars
  <2> SUFFICES ASSUME TypeInv, LockInv, BooksInv, OnceInv, [Next]_vars,
                      NEW k \in Keys, daily'[k].diff # daily[k].diff
               PROVE  \E m \in Messages \ eventLog : eventLog' = eventLog \cup {m}
    OBVIOUS
  <2>1. PICK h \in Handlers : HandlerEffect(h)
    BY Effects, PrepareBooks DEF NoEffect
  <2>2. Committed(h)
    BY <2>1 DEF HandlerEffect, Delivered, RolledBack, Acked, Skipped, Claimed, Made,
                Inserted, Logs, Locked, Upserted, Moved, TablesKept
  <2>3. txn[h].rows[k].used
    BY <2>2 DEF Committed, PublishRows, Visible
  <2>4. txn[h].claimed
    BY <2>3, NoRowsUnused DEF OnceInv
  <2>5. txn[h].msg \notin eventLog /\ txn[h].pc = "commit"
    BY <2>2, <2>4 DEF OnceInv, Committed
  <2>6. txn[h].msg \in Messages
    BY <2>5, GoodTxn DEF Good
  <2> QED BY <2>2, <2>4, <2>5, <2>6 DEF Committed
<1> QED BY <1>1, BooksHold, OnceHolds, PTL DEF Spec, SumsChangeWithOneRecord

-----------------------------------------------------------------------------
(* The change log. *)

\* The committed rows and those every transaction has staged.
AllRows == changeLog \cup UNION {txn[h].log : h \in Handlers}

LogInv == \A c, d \in AllRows : LogKey(c) = LogKey(d) => c = d

\* No step gives a second row the key of a change log row.
LEMMA LogStep ==
  ASSUME TypeInv, LogInv, [Next]_vars
  PROVE  LogInv'
<1>1. CASE AllRows' \subseteq AllRows
  BY <1>1 DEF LogInv
<1>2. ASSUME NEW h \in Handlers, HandlerEffect(h)
      PROVE  LogInv'
  <2>o. OthersKept(h)
    BY <1>2 DEF HandlerEffect, Delivered, RolledBack, Acked, Skipped, Claimed, Made,
                Inserted, Logs, Locked, Upserted, Committed, Moved
  <2>1. CASE changeLog' = changeLog /\ txn'[h].log \in {{}, txn[h].log}
    <3>1. AllRows' \subseteq AllRows
      BY <2>1, <2>o DEF AllRows, OthersKept
    <3> QED BY <3>1, <1>1
  <2>2. CASE Committed(h)
    <3>1. changeLog' = changeLog \cup txn[h].log /\ txn'[h].log = {}
      BY <2>2 DEF Committed, Fresh
    <3>2. AllRows' \subseteq AllRows
      BY <3>1, <2>o DEF AllRows, OthersKept
    <3> QED BY <3>2, <1>1
  <2>3. CASE /\ Logs(h, txn[h].log \cup {Change(h)})
             /\ ~Holds(changeLog \cup txn[h].log, Change(h))
             /\ KeyHeldElsewhere(h) = {}
    <3>1. changeLog' = changeLog /\ txn'[h].log = txn[h].log \cup {Change(h)}
      BY <2>3 DEF Logs, Moved, TablesKept
    <3>2. AllRows' \subseteq AllRows \cup {Change(h)}
      BY <3>1, <2>o DEF AllRows, OthersKept
    <3>3. \A g \in Handlers \ {h} : ~Holds(txn[g].log, Change(h))
      BY <2>3 DEF KeyHeldElsewhere
    <3>4. \A c \in AllRows : LogKey(c) # LogKey(Change(h))
      BY <2>3, <3>3 DEF AllRows, Holds
    <3> QED BY <3>2, <3>4 DEF LogInv
  <2> QED BY <1>2, <2>1, <2>2, <2>3 DEF HandlerEffect, Delivered, RolledBack, Acked,
             Skipped, Claimed, Made, Inserted, Logs, Locked, Upserted, Moved, TablesKept,
             Fresh
<1>3. ASSUME NEW p \in Preparers, PrepareEffect(p)
      PROVE  AllRows' = AllRows
  BY <1>3 DEF PrepareEffect, Begun, RowLocked, Selected, DayInserted, Ended, CallsKept,
              AllRows
<1>4. NoEffect => AllRows' = AllRows
  BY DEF NoEffect, AllRows
<1> QED BY <1>1, <1>2, <1>3, <1>4, Effects

\* Concurrent inserts never leave two rows of one sku, external id and amount.
THEOREM LogKeyUniqueHolds == Spec => []LogKeyUnique
<1>1. Init => LogInv
  BY DEF Init, HandlerInit, Idle, LogInv, AllRows
<1>2. LogInv => LogKeyUnique
  BY DEF LogInv, LogKeyUnique, AllRows
<1>3. TypeInv /\ LogInv /\ [Next]_vars => LogInv'
  BY LogStep
<1> QED BY <1>1, <1>2, <1>3, TypesHold, PTL DEF Spec
=============================================================================
