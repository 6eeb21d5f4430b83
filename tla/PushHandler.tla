---------------------------- MODULE PushHandler ----------------------------
(***************************************************************************)
(* The Pub/Sub push endpoint for stock events.  Every request is handled   *)
(* in one database transaction by a chain of four stages; each statement   *)
(* of the chain is a step here, so that requests interleave as they do in  *)
(* PostgreSQL under READ COMMITTED.  An error rolls the transaction back   *)
(* and is answered with a nack; nil is answered with an ack.               *)
(***************************************************************************)
EXTENDS StockTables, ChangeLog

CONSTANTS
  Handlers,    \* requests that the server handles at the same time
  Messages,    \* Pub/Sub message ids
  NoMessage,   \* no message
  ExtIds,      \* external_msg_id values: message ids, and those events carry
  Event,       \* message id -> [kind, ref, day, changes]
  Moves,       \* message id -> sku -> stock moved before it is published
  Db,          \* the tables CreateStockChangeLog reads
  MaxFaults    \* bound: failed connections, crashes and lost answers

ASSUME HandlerAssumption ==
  /\ Handlers \subseteq Processes
  /\ Messages \subseteq ExtIds
  /\ NoMessage \notin Messages
  /\ MaxFaults \in Nat
  /\ Moves \in [Messages -> [Skus -> Int]]

ChangeRecord ==
  [sku : SkuNames, warehouse : Warehouses, actor : Nat, tx : Nat,
   count : Int, amount : Int, ext : ExtIds]

\* What unmarshalling and the foreign keys of the tables give.
ASSUME EventAssumption ==
  \A m \in Messages : Event[m].kind = "StockChange" =>
    Event[m].day \in Days /\ Event[m].changes \in Seq(ChangeRecord)

ASSUME DbAssumption ==
  /\ DOMAIN Db.tx \subseteq Nat
  /\ \A t \in DOMAIN Db.tx :
       /\ Db.tx[t].warehouse \in Warehouses
       /\ Db.tx[t].created \in Days /\ Db.tx[t].arrived \in Days
       /\ Db.tx[t].createdBy \in Nat /\ Db.tx[t].verifiedBy \in Nat
  /\ IsFiniteSet(Db.item) /\ IsFiniteSet(Db.problem) /\ IsFiniteSet(Db.cost)
  /\ IsFiniteSet(Db.cancel)
  /\ \A i \in Db.item : i.sku \in SkuNames /\ i.count \in Int /\ i.price \in Int
  /\ \A p \in Db.problem : p.count \in Int
  /\ \A c \in Db.cost : c.fee \in Int
  /\ \A c \in Db.cancel : c.at \in Days /\ c.by \in Nat

VARIABLES
  published,   \* messages Pub/Sub has accepted
  acked,       \* messages whose acknowledgement reached Pub/Sub
  eventLog,    \* stock_event_logs: ids of the messages recorded
  changeLog,   \* stock_change_logs
  txn,         \* handler -> its open transaction and its place in the chain
  faults       \* faults so far

handlerVars == <<published, acked, eventLog, changeLog, txn, faults>>

Idle == [pc |-> "idle", msg |-> NoMessage, day |-> 0, changes |-> <<>>,
         next |-> 1, claimed |-> FALSE, log |-> {}, rows |-> NoRows]

HandlerState ==
  [pc : {"idle", "dedup", "create_change_log", "insert_log", "lock_sku",
         "upsert_daily", "commit", "reply"},
   msg : Messages \cup {NoMessage}, day : Days, changes : Seq(ChangeRecord),
   next : Nat \ {0}, claimed : BOOLEAN, log : SUBSET ChangeRecord,
   rows : [Keys -> Row]]

HandlerTypeOK ==
  /\ published \subseteq Messages /\ acked \subseteq Messages
  /\ eventLog \subseteq Messages
  /\ changeLog \subseteq ChangeRecord
  /\ txn \in [Handlers -> HandlerState]
  /\ faults \in 0 .. MaxFaults

Change(h) == txn[h].changes[txn[h].next]

-----------------------------------------------------------------------------
(* The stages as functions of what they read. *)

DirectType ==
  [RestockAccepted |-> "RESTOCK_ACCEPTED", ReturnAccepted |-> "RETURN_ACCEPTED",
   OrderAccepted   |-> "ORDER_ACCEPTED",   OrderCanceled  |-> "ORDER_CANCELED",
   StockFoundBack  |-> "STOCK_FOUND_BACK", StockProblem   |-> "STOCK_PROBLEM"]

TransferType ==
  [TransferWarehouseCreated  |-> "TRANSFER_OUT",
   TransferWarehouseAccepted |-> "TRANSFER_IN",
   TransferWarehouseCanceled |-> "TRANSFER_OUT_CANCELED"]

\* getTransfer, and the transaction of the transfer that the event is about.
TransferTx(kind, transfer) ==
  IF kind = "TransferWarehouseAccepted" THEN transfer.inbound
  ELSE transfer.outbound

\* In the transfer cases ":=" declares an err of its own, so an error of
\* CreateStockChangeLog is gone at the check behind the switch and the chain
\* goes on with a nil event.
ErrShadowed(result) == IF result.tag = "error" THEN Nothing ELSE result

StageTwo(m) ==
  LET e == Event[m]
  IN  IF e.kind \in DOMAIN DirectType
      THEN CreateStockChangeLog(Db, m, e.ref, DirectType[e.kind])
      ELSE IF e.kind \in DOMAIN TransferType
      THEN IF e.ref \notin DOMAIN Db.transfer THEN {Failed}
           ELSE {ErrShadowed(r) : r \in CreateStockChangeLog(Db, m,
                   TransferTx(e.kind, Db.transfer[e.ref]), TransferType[e.kind])}
      ELSE IF e.kind = "StockChange"
      THEN {StockChange(e.day, e.changes)}
      ELSE {Failed}

\* CHECK constraints and unique key of stock_change_logs.
Storable(c) ==
  c.warehouse > 0 /\ c.actor > 0 /\ c.tx > 0 /\ c.count # 0 /\ c.amount # 0

LogKey(c) == <<c.sku, c.ext, c.amount>>

Holds(rows, c) == \E r \in rows : LogKey(r) = LogKey(c)

KeyOf(h) == <<txn[h].day, Change(h).sku, Change(h).warehouse>>

-----------------------------------------------------------------------------
(* What a step of handler h has to wait for. *)

\* Mutant: nobody waits.
NobodyElse(h) == {}

\* An INSERT of the message id waits for the transaction that inserted it.
ClaimedElsewhere(h) ==
  {g \in Handlers \ {h} : txn[g].claimed /\ txn[g].msg = txn[h].msg}

\* So does an INSERT of a stock_change_logs key.
KeyHeldElsewhere(h) ==
  {g \in Handlers \ {h} : Holds(txn[g].log, Change(h))}

LockedElsewhere(h) == {skuLock[Change(h).sku]} \ {None, h}

HandlerWaitsFor(h) ==
  CASE txn[h].pc = "dedup" /\ txn[h].msg \notin eventLog -> ClaimedElsewhere(h)
    [] txn[h].pc = "insert_log" /\ Storable(Change(h))
         /\ ~Holds(changeLog \cup txn[h].log, Change(h)) -> KeyHeldElsewhere(h)
    [] txn[h].pc = "lock_sku" /\ Change(h).sku \in Skus -> LockedElsewhere(h)
    [] OTHER -> {}

-----------------------------------------------------------------------------
(* The environment: the service that owns the inventory, and Pub/Sub. *)

\* The inventory service has moved the stock and publishes the event.
Publish(m) ==
  /\ m \notin published
  /\ published' = published \cup {m}
  /\ stock' = [s \in Skus |-> stock[s] + Moves[m][s]]
  /\ UNCHANGED <<acked, eventLog, changeLog, txn, faults, daily, skuLock>>

\* Push delivery is at least once: a message may be delivered while another
\* request handles it, and again after it was acknowledged.  A message that
\* does not unmarshal or validate is refused before the transaction starts.
Deliver(h, m) ==
  /\ txn[h].pc = "idle"
  /\ m \in published
  /\ Event[m].kind # "Malformed"
  /\ txn' = [txn EXCEPT ![h] = [Idle EXCEPT !.pc = "dedup", !.msg = m]]
  /\ UNCHANGED <<published, acked, eventLog, changeLog, faults, tables>>

-----------------------------------------------------------------------------
(* The chain. *)

\* Mutant: a failed transaction is answered 200 all the same.
RollBackButAck(h) ==
  /\ txn' = [txn EXCEPT ![h] = [Idle EXCEPT !.pc = "reply", !.msg = txn[h].msg]]
  /\ skuLock' = ReleaseLocks(h)
  /\ UNCHANGED <<published, acked, eventLog, changeLog, faults, daily, stock>>

\* The handler returns an error: ROLLBACK, and the request is answered 500.
RollBack(h) ==
  /\ txn' = [txn EXCEPT ![h] = Idle]
  /\ skuLock' = ReleaseLocks(h)
  /\ UNCHANGED <<published, acked, eventLog, changeLog, faults, daily, stock>>

Continue(h, state) ==
  /\ txn' = [txn EXCEPT ![h] = state]
  /\ UNCHANGED <<published, acked, eventLog, changeLog, faults, tables>>

\* Mutants: a duplicate is an error; the id is looked up but not inserted.
RefuseDuplicate(h) ==
  /\ txn[h].pc = "dedup"
  /\ txn[h].msg \in eventLog
  /\ RollBack(h)

ClaimWithoutInsert(h) ==
  /\ txn[h].pc = "dedup"
  /\ txn[h].msg \notin eventLog
  /\ ClaimedElsewhere(h) = {}
  /\ Continue(h, [txn[h] EXCEPT !.pc = "create_change_log"])

\* Stage one, the id is there: the rest of the chain is skipped.
SkipDuplicate(h) ==
  /\ txn[h].pc = "dedup"
  /\ txn[h].msg \in eventLog
  /\ Continue(h, [txn[h] EXCEPT !.pc = "commit"])

Claim(h) ==
  /\ txn[h].pc = "dedup"
  /\ txn[h].msg \notin eventLog
  /\ ClaimedElsewhere(h) = {}
  /\ Continue(h, [txn[h] EXCEPT !.pc = "create_change_log", !.claimed = TRUE])

\* Stage two.  An error aborts; no event ends the chain in stage three.
MakeChangeLog(h) ==
  /\ txn[h].pc = "create_change_log"
  /\ \E r \in StageTwo(txn[h].msg) :
       \/ r.tag = "error" /\ RollBack(h)
       \/ r.tag = "nil" /\ Continue(h, [txn[h] EXCEPT !.pc = "commit"])
       \/ /\ r.tag = "event"
          /\ Continue(h, [txn[h] EXCEPT
               !.day = r.day, !.changes = r.changes, !.next = 1,
               !.pc = IF r.changes = <<>> THEN "commit" ELSE "insert_log"])

\* Mutants: the loop stops one short; its index restarts at zero.
AdvanceOneShort(state, here, after) ==
  IF state.next + 1 < Len(state.changes)
  THEN [state EXCEPT !.pc = here, !.next = @ + 1]
  ELSE [state EXCEPT !.pc = after, !.next = 1]

AdvanceFromZero(state, here, after) ==
  IF state.next < Len(state.changes)
  THEN [state EXCEPT !.pc = here, !.next = @ + 1]
  ELSE [state EXCEPT !.pc = after, !.next = 0]

\* The loops of stages three and four over the changes.
Advance(state, here, after) ==
  IF state.next < Len(state.changes)
  THEN [state EXCEPT !.pc = here, !.next = @ + 1]
  ELSE [state EXCEPT !.pc = after, !.next = 1]

\* Mutant: the error of Create is not looked at.
InsertLogUnchecked(h) ==
  /\ txn[h].pc = "insert_log"
  /\ LET stored == IF Storable(Change(h)) THEN {Change(h)} ELSE {}
     IN  Continue(h, Advance([txn[h] EXCEPT !.log = @ \cup stored],
                             "insert_log", "lock_sku"))

\* Stage three: INSERT ... ON CONFLICT DO NOTHING of one change.
InsertLog(h) ==
  /\ txn[h].pc = "insert_log"
  /\ \/ ~Storable(Change(h)) /\ RollBack(h)
     \/ /\ Storable(Change(h))
        /\ Holds(changeLog \cup txn[h].log, Change(h))
        /\ Continue(h, Advance(txn[h], "insert_log", "lock_sku"))
     \/ /\ Storable(Change(h))
        /\ ~Holds(changeLog \cup txn[h].log, Change(h))
        /\ KeyHeldElsewhere(h) = {}
        /\ Continue(h, Advance([txn[h] EXCEPT !.log = @ \cup {Change(h)}],
                               "insert_log", "lock_sku"))

\* Stage four: SELECT ... FOR UPDATE of the sku of one change ...
LockSku(h) ==
  /\ txn[h].pc = "lock_sku"
  /\ \/ Change(h).sku \notin Skus /\ RollBack(h)
     \/ /\ Change(h).sku \in Skus
        /\ LockedElsewhere(h) = {}
        /\ skuLock' = [skuLock EXCEPT ![Change(h).sku] = h]
        /\ txn' = [txn EXCEPT ![h].pc = "upsert_daily"]
        /\ UNCHANGED <<published, acked, eventLog, changeLog, faults, daily, stock>>

\* ... and the upsert of its day.  The loop covers every change of the event,
\* whether or not stage three stored it.
UpsertedRow(row, init, count) ==
  IF row.used THEN UpdatedRow(row, count) ELSE InsertedRow(init, count)

UpsertDaily(h) ==
  /\ txn[h].pc = "upsert_daily"
  /\ LET row == UpsertedRow(Visible(txn[h].rows, KeyOf(h)),
                            stock[Change(h).sku], Change(h).count)
     IN  Continue(h, Advance([txn[h] EXCEPT !.rows[KeyOf(h)] = row],
                             "lock_sku", "commit"))

\* COMMIT; then nil becomes the answer 200.
Commit(h) ==
  /\ txn[h].pc = "commit"
  /\ eventLog' = IF txn[h].claimed THEN eventLog \cup {txn[h].msg} ELSE eventLog
  /\ changeLog' = changeLog \cup txn[h].log
  /\ daily' = PublishRows(txn[h].rows)
  /\ skuLock' = ReleaseLocks(h)
  /\ txn' = [txn EXCEPT ![h] = [Idle EXCEPT !.pc = "reply", !.msg = txn[h].msg]]
  /\ UNCHANGED <<published, acked, faults, stock>>

Acknowledge(h) ==
  /\ txn[h].pc = "reply"
  /\ acked' = acked \cup {txn[h].msg}
  /\ txn' = [txn EXCEPT ![h] = Idle]
  /\ UNCHANGED <<published, eventLog, changeLog, faults, tables>>

\* A crash, a lost connection or a lost answer: whatever is not committed is
\* rolled back, and Pub/Sub sees no acknowledgement.
Fault(h) ==
  /\ txn[h].pc # "idle"
  /\ faults < MaxFaults
  /\ faults' = faults + 1
  /\ txn' = [txn EXCEPT ![h] = Idle]
  /\ skuLock' = ReleaseLocks(h)
  /\ UNCHANGED <<published, acked, eventLog, changeLog, daily, stock>>

-----------------------------------------------------------------------------
HandlerInit ==
  /\ published = {} /\ acked = {}
  /\ eventLog = {} /\ changeLog = {}
  /\ txn = [h \in Handlers |-> Idle]
  /\ faults = 0

\* The steps a running handler takes by itself.
HandlerStep(h) ==
  \/ SkipDuplicate(h) \/ Claim(h) \/ MakeChangeLog(h) \/ InsertLog(h)
  \/ LockSku(h) \/ UpsertDaily(h) \/ Commit(h) \/ Acknowledge(h)

HandlerNext ==
  \/ \E m \in Messages : Publish(m)
  \/ \E h \in Handlers, m \in Messages : Deliver(h, m)
  \/ \E h \in Handlers : HandlerStep(h) \/ Fault(h)
=============================================================================
