---------------------------- MODULE StockService ---------------------------
(***************************************************************************)
(* The event handler and PrepareSkus at work on one database, with the     *)
(* deadlock detector of PostgreSQL between them.                           *)
(***************************************************************************)
EXTENDS PushHandler, PrepareSkus

ASSUME ServiceAssumption ==
  /\ Processes = Handlers \cup Preparers
  /\ Handlers \cap Preparers = {}

vars == <<tables, handlerVars, prepareVars>>

WaitsFor(p) ==
  IF p \in Handlers THEN HandlerWaitsFor(p) ELSE PreparerWaitsFor(p)

\* Processes each of which waits for one of them.
WaitCycle(S) == S # {} /\ \A p \in S : WaitsFor(p) \cap S # {}

\* p is on a cycle, not merely waiting for one that is.
Deadlocked(p) ==
  \E S \in SUBSET Processes :
    /\ p \in S
    /\ WaitCycle(S)
    /\ \A T \in SUBSET S : WaitCycle(T) => T = S

\* PostgreSQL fails the statement of one process on the cycle.
AbortHandler(h) ==
  /\ Deadlocked(h)
  /\ RollBack(h)
  /\ UNCHANGED prepareVars

AbortPreparer(p) ==
  /\ Deadlocked(p)
  /\ AbortPrepare(p)
  /\ UNCHANGED handlerVars

DetectDeadlock ==
  \/ \E h \in Handlers : AbortHandler(h)
  \/ \E p \in Preparers : AbortPreparer(p)

Init == TablesInit /\ HandlerInit /\ PrepareInit

Next ==
  \/ HandlerNext /\ UNCHANGED prepareVars
  \/ PrepareNext /\ UNCHANGED handlerVars
  \/ DetectDeadlock

Spec == Init /\ [][Next]_vars

LockThe(h, s) ==
  /\ txn[h].pc = "lock_sku"
  /\ Change(h).sku = s
  /\ LockSku(h)
  /\ UNCHANGED prepareVars

\* A request runs until it answers, a row lock goes to those who wait before
\* it goes to those who come, the detector runs, and Pub/Sub delivers a message
\* again and again until it sees the acknowledgement.
Redeliver(m) ==
  /\ m \notin acked
  /\ \E h \in Handlers : Deliver(h, m)
  /\ UNCHANGED prepareVars

Fairness ==
  /\ \A h \in Handlers : SF_vars(HandlerStep(h) /\ UNCHANGED prepareVars)
  /\ \A h \in Handlers, s \in Skus : SF_vars(LockThe(h, s))
  /\ \A p \in Preparers : SF_vars(PrepareStep(p) /\ UNCHANGED handlerVars)
  /\ WF_vars(DetectDeadlock)
  /\ \A m \in Messages : SF_vars(Redeliver(m))

FairSpec == Spec /\ Fairness

-----------------------------------------------------------------------------
(* What the messages stand for, independently of any run. *)

ResultOf(m) == CHOOSE r \in StageTwo(m) : TRUE

ChangesOf(m) == Range(ResultOf(m).changes)

DayKey(m, c) == <<ResultOf(m).day, c.sku, c.warehouse>>

TouchedBy(m) == {DayKey(m, c) : c \in ChangesOf(m)}

DeltaOf(m, k) ==
  LET cs == ResultOf(m).changes
      at == {i \in DOMAIN cs : DayKey(m, cs[i]) = k}
  IN  MapThenSumSet(LAMBDA i : cs[i].count, at)

LogKeysOf(m) == {LogKey(c) : c \in ChangesOf(m)}

\* Messages that no stage of the chain refuses.
Processable(m) ==
  /\ Event[m].kind # "Malformed"
  /\ Failed \notin StageTwo(m)
  /\ \A c \in ChangesOf(m) : Storable(c) /\ c.sku \in Skus

-----------------------------------------------------------------------------
(* Properties. *)

\* The type invariant of the tables, the requests and the PrepareSkus calls.
TypeOK == TablesTypeOK /\ HandlerTypeOK /\ PrepareTypeOK

\* A request at work has a message, and its loops stay inside the changes.
ChainOK ==
  \A h \in Handlers :
    /\ txn[h].pc # "idle" => txn[h].msg \in Messages
    /\ txn[h].pc \in {"insert_log", "lock_sku", "upsert_daily"}
         => txn[h].next \in 1 .. Len(txn[h].changes)

\* A request that has staged a daily row holds the lock of its sku until it
\* commits: the upsert of stage four never overwrites somebody's update.
StagedRowsLocked ==
  /\ \A h \in Handlers, k \in Keys :
       txn[h].rows[k].used => skuLock[k[2]] = h
  /\ \A p \in Preparers, k \in Keys :
       prep[p].rows[k].used => skuLock[k[2]] = p

\* "DiffStockCount = EndStockCount - StartStockCount", which push_handler_test
\* checks after one message, for every day after any interleaving.
DiffIsEndMinusStart ==
  \A k \in Keys : daily[k].diff = daily[k].end - daily[k].start

\* The difference of a day is what the recorded events add to it: no event is
\* counted twice, lost to a concurrent upsert, or counted without its record.
DailyCountsEachEventOnce ==
  \A k \in Keys : daily[k].diff = MapThenSumSet(LAMBDA m : DeltaOf(m, k), eventLog)

\* stock_change_logs has the rows of the recorded events, all of them and no
\* others: an event is never recorded with half of its rows.
ChangeLogMatchesEventLog ==
  {LogKey(c) : c \in changeLog} = UNION {LogKeysOf(m) : m \in eventLog}

\* uq_stock_change_logs_sku_external_msg, across concurrent inserts.
LogKeyUnique ==
  \A c, d \in changeLog : LogKey(c) = LogKey(d) => c = d

\* Pub/Sub never loses a message the database does not have.
AckedIsRecorded == acked \subseteq eventLog

\* Once a day has a row it keeps it, and its opening stock is never rewritten.
DayStartIsFixed ==
  [][\A k \in Keys :
       daily[k].used => daily'[k].used /\ daily'[k].start = daily[k].start]_vars

\* The sums of a day change only in the commit that records a new message.
SumsChangeWithOneRecord ==
  [][(\E k \in Keys : daily'[k].diff # daily[k].diff)
       => \E m \in Messages \ eventLog : eventLog' = eventLog \cup {m}]_vars

\* Every published message that no stage refuses is acknowledged in the end,
\* whatever faults, duplicates and deadlocks came before.
ProcessableIsAcked ==
  \A m \in Messages :
    Processable(m) => (m \in published ~> m \in acked)

\* No transaction keeps a sku locked for ever.
LocksAreReleased == \A s \in Skus : skuLock[s] # None ~> skuLock[s] = None

\* Handler and PrepareSkus together implement the ledger.
Ledger == INSTANCE StockLedger WITH
  LogKeys  <- [m \in Messages |-> LogKeysOf(m)],
  Touched  <- [m \in Messages |-> TouchedBy(m)],
  Delta    <- [m \in Messages |-> [k \in Keys |-> DeltaOf(m, k)]],
  recorded <- eventLog,
  logged   <- {LogKey(c) : c \in changeLog},
  days     <- daily

ImplementsLedger == Ledger!Spec

\* When CreateStockChangeLog returns an error the handler returns it too, so
\* that the message is not acknowledged.
ChangeLogError(m) ==
  LET e == Event[m]
  IN  /\ e.kind \in DOMAIN TransferType
      /\ e.ref \in DOMAIN Db.transfer
      /\ Failed \in CreateStockChangeLog(Db, m,
           TransferTx(e.kind, Db.transfer[e.ref]), TransferType[e.kind])

ChangeLogErrorIsNotAcked == \A m \in acked : ~ChangeLogError(m)

-----------------------------------------------------------------------------
(* A premise on the inventory service, which no text promises. *)

\* Everything published is recorded.
Settled == published \subseteq eventLog

\* One day, on which a message counts what the inventory service has moved for
\* it, with one change of a sku at most.
OnDayOne == MaxDay = 1 /\ \A m \in Messages : \A k \in TouchedBy(m) : k[1] = 1

MovesAreCounts ==
  \A m \in Messages, k \in Keys : k[1] = 1 => Moves[m][k[2]] = DeltaOf(m, k)

OneChangePerSku ==
  \A m \in Messages : \A r \in StageTwo(m) : \A i, j \in 1 .. Len(r.changes) :
    r.changes[i].sku = r.changes[j].sku => i = j

SerialInit == Init /\ OnDayOne /\ MovesAreCounts /\ OneChangePerSku

\* It waits for each message to be recorded before it moves stock again, and
\* PrepareSkus runs between the two.
SerialNext ==
  /\ Next
  /\ published' # published =>
       Settled /\ \A p \in Preparers : prep[p].pc = "idle"
  /\ \A p \in Preparers : prep[p].pc = "idle" /\ prep'[p].pc # "idle" => Settled

SerialSpec == SerialInit /\ [][SerialNext]_vars

\* Then the closing stock of the day is the stock there is: the handler itself,
\* with faults and duplicates, introduces no drift.
SerialEndIsStock ==
  Settled => \A k \in Keys : daily[k].used => daily[k].end = stock[k[2]]
=============================================================================
