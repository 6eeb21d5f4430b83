# Verification of warehouse_service

This directory is a TLA+ development of `pdcgo/warehouse_service`: specifications
of its stateful parts, TLC runs that model-check them on small instances, and
TLAPS proofs that hold for every instance. Paths are relative to the repository
and are written with its `src/` prefix.

Contents: [the system](#1-the-system), [plan](#2-plan), [modules](#3-modules),
[runs](#4-runs), [fairness](#5-fairness), [proofs](#6-proofs),
[findings](#7-findings), [not modelled](#8-what-is-not-modelled).

## 1. The system

A Go service over one PostgreSQL database (gorm, READ COMMITTED) that serves
connect RPCs and one Pub/Sub push endpoint. All state is in the database; the
server processes keep none between requests, so every interaction between the
components is a shared table, a row lock, a unique key or a Pub/Sub message.

| Component | State | Operations | What is hard, what must be right |
|---|---|---|---|
| stock event handler, `v2/push_handler.go` | `stock_event_logs`, `stock_change_logs`, `daily_sku_histories`; row locks of `skus`; reads `inv_*`, `restock_costs`, `warehouse_transfers`, `invertory_histories` | one push handler: deduplicate, make the change log, insert it, upsert the days | at-least-once delivery, concurrent requests, lock order, a failure in the middle, a lost answer; every event is entered once or not at all, and acknowledged only when it is |
| PrepareSkus, `v2/inventory/prepare_skus.go` | `daily_sku_histories`, locks of `skus` | open today's day of a list of skus | competes with the handler for locks and for the same rows; must not overwrite a day |
| prepare-stat command, `cmd/production/prepare_stat.go` | a channel of 10 batches | producer, consumer that calls PrepareSkus | bounded channel, error paths, batch limit; every sku is sent once, a call that fails is passed over, the command ends |
| expense accounts, `finance_service.go`, `warehouse_mutations/create_account.go`, `expense_account.go` | `ware_expense_accounts` and the links of warehouses to them; their locks (`NOWAIT`), unique number and two sequences | create, edit, disable; get, list | look-then-insert; two tables in one transaction; two id sequences that part at the first failure; numbers unique, links and accounts in pairs, one ops account per warehouse |
| expense history, `warehouse_mutations/expense_hist.go` | `ware_expense_histories` | add, edit; list | an edit checks permissions against a row read without a lock and saves the whole row; only administrators touch some types, or move a row |
| balance history, `warehouse_mutations/balance_hist.go` | `ware_balance_account_histories` | create | look-then-insert; the day is cut in one time zone for the rows and in another for the argument; one balance per account and day |
| warehouse registry, `v2/warehouse/warehouse_{create,update,delete,list,ids,detail}.go`, `get_warehouse_fee.go` | `teams`, `warehouses`, `user_team_roles`; the sequence of teams, whose ids warehouses take | create (one transaction, then the id is sent), update, delete; detail, ids, list, fee | commit before send; two tables with ids of their own; a statement that fails half-way; team, warehouse and owner together or none of them, and no entry comes back or changes another |
| transaction notes, `v2/warehouse/transaction_note_{create,list}.go` | the notes of a transaction | replace, list | two replaces at once; replaces with and without an order; what a replace has seen is gone when it commits, and no other note is |
| blacklisted skus, `v2/inventory/blacklisted_sku*.go` | `is_blacklisted` of `skus` | add, remove, list | only team 1 writes |
| inventory queries, `v2/inventory/{placements,placements_ids,product_list,sku_list,sku_by_ids}.go` | none | five reads of two to six statements | see the next row |
| outbound queries, `v2/outbound/*.go` | none | five reads of up to six statements with filters and pages | no transaction: the tables change between the statements, whose rows are joined by maps in memory; parts must belong together, and a row that is complete must not meet a nil pointer |
| warehouse lists, `v2/warehouse/{selling_team_list,team_rack_list,team_warehouse_return_info}.go` | none | three reads | NULLs of joins, deleted warehouses |
| finance queries, `warehouse_query/*.go` | none | builders of conditions | a zero argument drops its condition |
| transaction log, `warehouse_mutations/transaction_log.go` | `inv_timestamps` | append | nothing calls it |
| inbound | none | `panic("unimplemented")` | - |
| wiring, `v2/register.go`, `cmd/production/*` | none | registration | - |

How they interact. The inventory service (another repository) moves stock by
writing `invertory_histories` and publishes a `StockEvent`; Pub/Sub pushes it to
the handler until it is answered 200. The handler turns it into rows of
`stock_change_logs` and into the sums of a day in `daily_sku_histories`.
prepare-stat asks PrepareSkus to open today's days ahead of time. The finance
RPCs meet in the links of accounts to warehouses, which the accounts component
writes and the two histories read. The registry and the notes write tables of
their own; the queries, like the notes' look-up of their transaction, read tables
that other services write all the time.

`PROJECT.json` lists under `hazards` what in this code is hard to test, each at
its line, with the properties that watch it. Some have none, because the code does
nothing against them and no text of the repository promises anything: they are in the
models, and section 4 says which premise of which property leaves them out.

## 2. Plan

Done:

1. `StockTables`, `ChangeLog`, `PushHandler`, `PrepareSkus`, composed in
   `StockService`, which implements the abstract `StockLedger`; instances in
   `MCStockService`; the pure part of `ChangeLog` against a reference in
   `ChangeLogCheck`; proofs in `ChangeLog_proofs`, `ChangeLogCheck_proofs`,
   `StockService_proofs` and `StockLedger_proofs`.

2. `FinanceTables`, `ExpenseAccounts`, `ExpenseHistory`, `BalanceHistory`,
   composed in `FinanceService`, which implements the abstract `DailyBalance`
   under the premises of its run; instances in `MCFinanceService`; proofs in
   `FinanceService_proofs`.

3. `PrepareStat`, the command composed with `StockService`: its producer, its
   channel and the calls of its consumer; instance in `MCPrepareStat`; proofs in
   `PrepareStat_proofs`.

4. `ServiceTables`, then `OutboundQueries`, `InventoryQueries`,
   `WarehouseRegistry` with `WarehouseLists`, and `TransactionNotes`, composed in
   `WarehouseService`, which implements the abstract `WarehouseBook`; instances in
   `MCWarehouseService`; proofs in `ServiceCalls_proofs` and
   `ServiceWrites_proofs`.

5. `PartsBelongTogetherHolds` in `ServiceCalls_proofs`, the last safety property to get
   a proof; it rests on an invariant of the partial results of every read, beside
   `AnswerInv`.

Every safety and action property of a passing run has its theorem (section 6); what is
left to TLC alone is liveness.

## 3. Modules

`StockTables` holds what two transactions can see of each other: `daily` (the
committed rows of `daily_sku_histories`, keyed by day, sku and warehouse),
`skuLock` (who holds `FOR UPDATE` on a row of `skus`) and `stock` (what the rows
of `invertory_histories` without a transaction add up to). A transaction stages
its rows; `Visible` is what it reads, `PublishRows` its COMMIT, `ReleaseLocks`
the end of its locks. `InsertedRow`, `UpdatedRow` and `PreparedRow` are the three
statements that write a day. Counts are modelled; the amount columns are moved
by the same expressions.

`ChangeLog` is `CreateStockChangeLog` (`v2/push_handler.go:298-503`) as an
operator from a snapshot of the inventory tables to the set of results it may
return: an error, no event, or an event whose changes come in any order, because
its query has no ORDER BY. NULLs, the join fan-out over problems and restock
costs, and ambiguous cancellation rows are kept.

`PushHandler` is the chain of `NewWarehousePushHandler`. `txn[h]` is one
request's database transaction: its place in the chain (`pc`), message, event,
position in the loops, whether it has inserted the message id (`claimed`), and
the rows it has staged. One action per statement:

| Action | Code (`v2/push_handler.go`) |
|---|---|
| `Deliver` | 35-52, request accepted, transaction begins |
| `SkipDuplicate`, `Claim` | 54-72, insert of the message id, ON CONFLICT DO NOTHING |
| `MakeChangeLog` | 74-146, the switch, and stage three's nil event |
| `InsertLog` | 153-163, one insert of the loop |
| `LockSku`, `UpsertDaily` | 179-189 and 191-273, one round of the loop |
| `Commit`, `Acknowledge` | 276-287, COMMIT, then the answer |
| `RollBack` | an error returned to `db.Transaction` |

An INSERT that meets an uncommitted row with the same key waits for the other
transaction, as PostgreSQL does: `ClaimedElsewhere`, `KeyHeldElsewhere`,
`LockedElsewhere`. `Publish`, `Fault` and `Acknowledge` are the environment: the
inventory service, crashes and lost answers, and Pub/Sub.

`PrepareSkus` is the RPC: `BeginPrepare`, `LockRow` (one row of the SELECT, in
any order), `EndSelect`, `InsertDay` (one round of the loop), `CommitPrepare`,
`AbortPrepare`. `NextDay` is midnight in Asia/Jakarta, which may pass between
two rounds.

`StockService` puts the two on one database, adds PostgreSQL's deadlock detector
(`Deadlocked`: on a minimal cycle of waiting processes; one of them is aborted)
and states the properties. `SerialSpec`, at its end, is the service under a premise on
how stock is moved, for the one property that needs it (`SerialEndIsStock`).

`StockLedger` is the promise: `Record(m)` enters a message at once, in one step,
with its log keys and its sums; `Prepare` opens days at a difference of zero. There
are no locks, requests or deliveries in it.

`FinanceTables` holds what the finance requests share: `accounts` and `links`
(committed rows by id), the workers that serve a request (`busy`) and the number
of requests begun. `OfWarehouse` and `OfAccount` are the conditions of the link
query, which are dropped for a zero argument. `Over` is a table as its own
transaction sees it, with the rows it has written in their places.
`FirstRowsAssumption` is what the schema and earlier requests leave behind: unique
numbers, and one link for every account.

`ExpenseAccounts` has one transaction per request in `acct[p]`: its place (`pc`),
the rows it holds and the rows it has staged. `CheckNumber`, `CheckOps`,
`InsertAccount`, `InsertLink` are the statements of a create, `LoadAccount`
(`FOR UPDATE NOWAIT`), `CheckOwnOps`, `SaveAccount`, `SaveLink` those of an edit,
`SaveDisabled` that of `Disabled`; `CommitAccount` publishes, `RefuseAccount` and
`FailAccount` roll back, which does not give back ids of a sequence. A write of
a number waits for whoever has an uncommitted row with it (`NumberHolders`) and
then meets the unique index (`NumberTaken`).

`ExpenseHistory`: `GetAccount`, `CreateExpense` (add), `GetExpense` (a plain
SELECT), `UpdateExpense` (the checks on the row as it was read, then `Save` of
all its columns, which waits for another writer), `CommitExpense`,
`RollBackExpense`. `MayCreate`, `MayMove`, `MayRetype` are the permissions.

`BalanceHistory`: `FindAccount`, `FindBalance`, then `CreateBalance` or
`UpdateBalance`; each statement commits by itself, because its only caller in
the repository, the package's test, passes a plain connection. `StoredDay` and
`AskedDay` are the two ways to cut a day.

`FinanceService` puts the three on one database and one pool of workers and
states their properties; `DailyBalance` is the promise of the balance history: a
map from pairs of an account and a day to an amount, written one entry at a time.

`PrepareStat` extends `StockService` with the two goroutines of the command.
`producer` goes through `RunQuery`, `ScanRow`, `SendBatch` (when a batch has more
than `BatchCount` ids), `EndRows` and `SendRest`; `ProducerError` is its two error
returns, after which the deferred close still runs. `Receive` takes a batch from
`skuChan` and begins the `PrepareSkus` call; its steps are those of `PrepareSkus`;
`Answered`, `Refused` and `Unreachable` are what the call may come to, and none of
them stops the loop. `StatNext` and `ServiceNext` are the command and the service
it talks to, with the handler, crashes and the deadlock detector. `EachSkuOnce` is stated without counting: what is
unsent, queued, at work, prepared and failed is all of `HistorySkus`, and no two of these share
an id.

`ServiceTables` is what the RPCs of `v2` have in common. `History` is the contents
of the tables that other services write, one after the other, and `Change` moves
on to the next; `call[w]` is what worker `w` serves: the request, its place (`pc`)
and the rows its statements have returned so far (`got`). Every action of the
modules above it is one statement and what the handler does with its rows, so a
`Change` may come between any two. `Pages` is every page that ORDER BY, LIMIT and
OFFSET may return, rows with equal keys in any order. `LastWins` is every map that a
loop over rows in no fixed order may leave behind. `Put` adds the rows of a
statement to what a call has. `Panic` is a nil pointer or an
empty slice indexed.

`OutboundQueries` has the five reads of `v2/outbound`. `Listed` is the chain of
filters of `OutboundList`, one conjunct per filter; `OrderQuery` its subquery;
`ListRows` the sorting, which joins the orders for the deadline.
`CheckDetailIDs`/`LoadDetailIDs` are the check of the warehouse and the data it
guards; `TxsOfOrders` to `ReturnedItems` the two preloads of `OrderDetailSearch`.

`InventoryQueries` has the five reads of `v2/inventory` and the blacklist. The id
of a sku is a record of its product, variant, warehouse and team, which is what
`SkuID.Extract` finds in it.

`WarehouseRegistry`: `InsertTeam`, `InsertWarehouse`, `InsertOwner`, `CommitCreate`
and `SendCreated` are the statements of a create and the send that follows it,
`FailCreate` an error in between; ids of the sequence are not given back, and
`RegistryAssumption` is what the foreign keys and the columns give the first rows;
a warehouse may have an id the sequence of teams is yet to give. `HHMM` is
`parseHHMM` and `formatHHMM`. `WarehouseLists` adds the three lists of that package.

`TransactionNotes`: `StartDelete` is the snapshot of the DELETE, `FinishDelete` its
end, which waits for another replace that has deleted a row of it; then
`InsertNotes` and `CommitNotes`.

`WarehouseService` puts them on one database and one pool of workers. `Joined` says
that a part of an answer has every row that was there in all contents and none
that was in no content; `Complete` lists, per kind of call, the rows its handler
follows from table to table. `WarehouseBook` is the promise of the registry: an
entry is made at once, with its team and one owner, under a fresh id, and closing
it is for good.

## 4. Runs

The runs of `MCStockService` (`orders` to `serial`, and `transfer`) use two skus, one warehouse, one small database
(`MCDb`: an ordinary transaction of two skus with a restock cost, one without
`arrived`, one without a verifier, one whose only item is a problem) and the
messages their question needs.

| Run | Instance | Shows |
|---|---|---|
| `orders` | 2 requests, 2 order events on the same skus in either order, 2 days, 1 fault, fairness | types; staged days are locked; every day is the sum of the recorded events; acknowledged means recorded; sums change with one new record; implements `StockLedger`; every processable message is acknowledged in the end |
| `messages` | 2 requests, 7 messages: `StockChange` events whose log keys repeat within and across messages, and one message per other way out of the chain | log keys stay unique across concurrent inserts; days count every recorded change, logged or dropped; the change log has the rows of the recorded messages and no other, so a refused one leaves none |
| `prepare` | the command over 3 skus (one unknown), batches of 2 and 1, a channel of 1, beside 1 request; 2 days, 1 fault, fairness | every sku is in one place and one batch; skus of calls that succeeded have a day, and a nil return accounts for all others; books balance, opening stock fixed, implements `StockLedger`; the command returns and all locks are released |
| `serial` | 2 requests, 1 preparer; stock moves only when everything published is recorded | closing stock of the day = stock |
| `change_log` | all transactions of two items up to 4 joined rows, counts up to 2; between an acceptance and its cancellation any problems, costs, cancel stamps and arrival | log totals = totals of the transaction's items; a cancellation gives back what was taken but for what was reported broken in between |
| `transfer` | 1 request, the three transfer events | violated: see the finding |
| `finance` | 2 workers, 3 requests out of 23: creates, edits, disables, adds and edits of expenses, balances; every statement may fail; fairness | types; links and accounts pair; numbers unique; an edit commits what it answers; every expense row is one allowed request; an unknown account's balance touches no other; every request ends |
| `finance_serial` | 1 worker, 3 requests; the caller's clock is Jakarta's | permissions over the life of a row; one ops account per warehouse; implements `DailyBalance` |
| `service` | 2 workers, 3 contents of the tables, 115 sets of calls: every read alone, for each way through its filters and maps; the creates, an update beside a delete, the replaces, the blacklist in small mixes; fairness | types; parts of an answer belong together; complete rows are answered whatever changes in between; a create answers what the tables have; the registry implements `WarehouseBook`; notes are replaced whole; every call returns |
| `shop_filter` | the same, lists by shop | violated: see the findings |
| `history_race` | 2 workers, an add and two edits | violated: see the findings |
| `balance_race` | 2 workers, 2 balances | violated: see the findings |

Bounds: `MaxFaults` (crashes, lost connections, lost answers), `MaxCalls`
(PrepareSkus calls: the job's list is finite), `MaxDay`. Two requests are enough
to race on an id, a key, a lock and a cycle of two locks; two messages are enough
for one to be recorded between the steps of the other; two changes per message
are enough for the loops to fail in the middle. Two days are enough for a
midnight between two rounds of PrepareSkus.

`prepare` has small constants where the command has 100 and 10: a batch is full
with two ids, so that there is one full batch and a rest, and the channel holds one,
so that the producer waits. What a batch and a channel do does not depend on the
numbers.

The runs of `MCWarehouseService` bound a behaviour by `Loads`, the sets of calls
it may be made of. A read shares no state with another read, so it is run alone
against the changing tables; calls that write meet in one set. The contents of `History` have
the cases that the handlers distinguish: transactions with no order, one order and
two; with another warehouse; deleted; an order that gets its return, one that gets its
transaction, a transaction that appears and one that is cancelled between two statements; skus, racks,
variants and images that are missing or go; equal keys across a page boundary;
teams whose return columns are NULL, zero or point nowhere. A fourth warehouse
without a team has an id that the sequence of teams is yet to give out. A behaviour may stop at
each content, so each handler runs on every content alone and on every pair and
triple in order. `CHECK_DEADLOCK FALSE` in these configurations is the idle service
when its calls have been made.

Two properties of `service` have premises. `PartsBelongTogether` asks nothing
about a part with room for one row when the tables had several for it (a
transaction with two orders shows either), nor about orders in
`OrderDetailSearch` that share a transaction, where the detail goes to one of them.
For the customer of a listed transaction this means: the transaction has one order and
that order one address. With two orders, a list by deadline has the
transaction twice, and `itemMap` gives the order and the customer to the last of the two
rows only (`outbound_list.go:424`). An answer must have the address that the order of
the transaction always had; the order is read before the addresses, so an address whose
order gets its transaction in between is not found, as the second content shows with
order 8.
`CompleteIsAnswered` needs rows that
are complete in every content: an order whose transaction has none, or a product
without an image, is a nil pointer or an index out of range in the code and in the
model, which `net/http` turns into a closed connection.

Of the warehouse of a transaction no property speaks. `OutboundDetailIDs` and
`Placements` check it in one statement and load in the next, and compare nothing of the
two: a transaction that is committed in between is loaded and answered unchecked
(`outbound_detail_ids.go:66`), which the second content has and the model shows. A property that left such rows
out would say no more than the guard, and no text of the repository promises more.

`NotesReplacedWhole` has the order of a replace in it: where a message names an order
only notes of that order are taken. `CreateAnswersBook` counts a create whose send was
lost as made, so it allows the second warehouse of a client that tries again.

`serial` (`SerialSpec` in `StockService`) states the premises under which the closing
stock is right: one day, on which a message counts what was moved for it
(`OnDayOne`, `MovesAreCounts`); one change of a sku per message
(`OneChangePerSku`); and stock that moves only when every published message is
recorded, with PrepareSkus in between. They are part of the initial predicate, so that
the run would find no state if its instance did not have them. Without them the
handler can open a day with a stock that already contains later changes and then add
these again: the stock is read when the day is opened (`v2/push_handler.go:191-205`),
the event comes later, and a second change of the sku in the same message is added to
a stock that contains both; and PrepareSkus closes a day with the stock of now although
an event for it is still to be handled. This is a property of how events are produced, not
promised by any text of the repository, so it is recorded as a hazard and not as a
finding.

`change_log` has two variables of tables: `db`, what they are now, and `past`, a history
variable with the tables, the type and the totals of an acceptance that was booked
upon. After an accepted order or transfer, `Book` changes problems, costs, cancel stamps and the
arrival to anything, and the cancellation that follows reads the tables anew, as
`CreateStockChangeLog` does at every event. `Book` starts from tables without a cancel
stamp and an arrival, since an acceptance reads neither. Items stay: a transaction that
is accepted is not rewritten by any code here. The totals of a call need one premise, `NoFanOut`
in `ChangeLogCheck`: at most one problem per item and one restock cost per
transaction. With more, the joins (445-446) repeat the item, and nothing says what
the totals should be. `CancelGivesBack` needs it only for skus whose rows changed in
between: if an item had one problem at the acceptance and has two at the cancellation,
its row is taken once and given back twice, more than was taken. Where the rows of a
sku are as they were, all is given back however often they repeat.

The runs of `MCFinanceService` start with two warehouses and an account in each,
whose ids differ from those of their links, as they do after one create has
failed; numbers of which one contains another; one expense type that needs an
administrator and one that does not; and days of two instants that begin one
instant earlier in Jakarta. `MaxCalls` bounds the requests: three are enough for
an account or a row to be created and then changed by two that overlap, and two
workers for every race of two statements. `CHECK_DEADLOCK FALSE` is in these
configurations because the service is idle when the requests are used up, and in
`ChangeLogCheck` because it takes no further step.

`finance_serial` has two premises. One request at a time: the look-ups before the
inserts take no lock, and nothing else keeps a warehouse from two ops accounts or
a day from two balances. And a caller whose times are in Jakarta's location: in
UTC `AskedDay` and `StoredDay` differ (its mutant), and a call after 17:00 UTC
takes the balance of one day for another's. Edits are not among its requests for
accounts: `Update` looks for an ops link of the edited account only, so an edit
can make a second ops account.

Two properties of `finance` say less than they might. `EditIsWhole` leaves out
edits without a warehouse: there `LoadAccount` finds the account by itself but
`SaveLink` looks for a link of warehouse 0 and changes none. And
`UnknownTouchesNothing` leaves out balances of warehouse 0, the value that the
missing link has too.

## 5. Fairness

`FairSpec` assumes: a request's own steps and a PrepareSkus call's own steps are
strongly fair (the server runs them; they may be blocked by a lock in between); a
lock that becomes free again and again is taken by who waits for it
(`LockThe`, per request and sku: PostgreSQL queues lock waiters); the deadlock
detector runs; and an unacknowledged message is delivered again and again
(Pub/Sub). `MaxFaults` bounds the faults and `MaxCalls` the prepare calls: with
infinitely many of either, a request can be the victim for ever, which is true of
the program. Nothing is assumed about publishing, faults or the start of calls.

`FairSpec` of `FinanceService` assumes weak fairness of `Serve(p)`: a worker with
a request whose next statement does not wait takes it. Nothing is assumed about
`FailAccount` and `RollBackExpense` on their own. A request that waits for a
number id waits for one that has its number and its rows and waits for nothing
more, and a load does not wait, so weak fairness is enough. (Two calls of
`Disabled` whose link and account ids cross could wait for each other; the
instance has no such pair, and PostgreSQL would abort one.)

`FairJobSpec` adds weak fairness of the producer's steps, of `Receive` and of
`ReturnNil`: the two goroutines run, and wait for nothing but the channel. Nothing is
assumed about `ProducerError`, `Unreachable` or lost answers.

`FairSpec` of `WarehouseService` assumes, per worker, weak fairness of the next
statement or the return of its call. Only `FinishDelete` waits, for a replace that
waits for nothing more, so weak fairness is enough. Nothing is assumed about `Fail`,
`Change` or the arrival of calls.

## 6. Proofs

The theorems hold for any number of workers, requests, messages, skus and calls and
any contents of the tables, from the assumptions the modules name. These say what
the schema and the languages give (finite tables, foreign keys, unique indexes,
integers, disjoint processes), and TLC evaluates each on every instance. Every
inductive invariant below was first checked by TLC on the instances of its
component. `PROJECT.json` lists the theorems with the properties they state.

### Sums and the change log: `ChangeLog_proofs`, `ChangeLogCheck_proofs`

`ChangeLog_proofs` has the facts that both this section and the next rest on: joins of
finite tables are finite, and sums over finite sets follow the laws of addition. An
induction over data is not available for the latter. Instead `Smallest` uses that the
strict subsets of finite sets are a well-founded relation, for which the library states
that a non-empty set has a minimal element: of the sets for which a law of
`MapThenSumSet` fails there would be a smallest, and taking one element out of it gives
a contradiction. So sums are integers, any element may be taken last, zeros may be left
out (`TotalDropped`), the sign may be taken out (`TotalNegated`), and a sum does not
change under a bijection (`TotalMoved`). The last is needed because
`CreateStockChangeLog` has no ORDER BY and returns its changes in any order.

`TotalsMatchHolds` and `CancelGivesBackHolds` hold for any number of problem, cost and
cancel rows, any counts and prices, and any booking between the two events. The
invariant is `CheckInv`: the tables are typed, the answer is one of a call on them, and what
`past` has are typed tables with the same items and the totals of an answer on those
(`Remembered`). The work is in `LogSum`, which turns the sum over an event into one over the
selected rows, for any tables; in `RowsSumToItems`, which under `NoFanOut` pairs rows with
items; in `SameUndone`, by which two tables that agree on the rows of a sku select the same rows for
an event and its cancellation, with opposite signs; and in `BrokenLeft`, which subtracts
the sums over the items of two different tables. The
two items and the fee of 1 of `Snapshot` are part of these theorems: `RowsSumToItems`
itself needs only the types of the tables (`Typed`) and holds for any number of items.

### Events and days: `StockService_proofs`, `StockLedger_proofs`

`TypeInv == TypeOK /\ ChainOK` is inductive; `ChainOK` is needed because the change
a loop looks at is typed only while its index is inside the list. The lemmas up to
`StageTwoType` show that `CreateStockChangeLog` always returns a typed event, which
needs that its joins are finite. Then `HandlerEffect` and `PrepareEffect` state what
each action does to a transaction field by field (lemma `Effects`), and each
invariant is proved from these effects and the ones before it:

| Theorem | Inductive invariant |
|---|---|
| `StagedRowsLockedHolds` | `LockInv`: also, who is about to upsert holds the lock, and the rows a call has locked are its own |
| `DiffIsEndMinusStartHolds`, `DayStartIsFixedHolds` | `BooksInv`: staged rows balance too and agree with the committed opening stock, and PrepareSkus stages only days still unopened; mutual exclusion by `LockInv` makes commits of others harmless |
| `AckedIsRecordedHolds` | `OnceInv`: from the claim to the commit the id is the request's own and unrecorded; without a claim nothing is staged |
| `SumsChangeWithOneRecordHolds` | `BooksInv` and `OnceInv` together |
| `LogKeyUniqueHolds` | `LogInv`: keys are unique over committed and all staged rows |
| `DailyCountsEachEventOnceHolds` | `SumInv`: the difference of a day is the sum over the recorded messages, and the row a request has staged differs from the committed one by the changes its loop has passed |
| `ChangeLogMatchesEventLogHolds` | `WholeInv`: a request has staged keys of its own event only; the changes its first loop has passed are stored or staged, and at the commit all are |
| `StockLedgerHolds` | `LedgerInv`, the conjunction: every step enters one message with all its keys and sums, opens days, or changes no book |
| `SerialEndIsStockHolds` | `SerialInv`, beside `LedgerInv`: at most one published message is unrecorded, and the days are short of the stock by what it moves; staged rows close at the stock. Premises: those of `SerialSpec` |

`SumInv` is about sums over sets of any size and rests on the laws of
`ChangeLog_proofs`: the attempt that records a message may return its changes in
another order than an attempt that failed, or than the order the ledger chose, but sums
to the same.
That all attempts find the same day needs `ActorAmbiguous` to be decided by the
tables alone, and `Db.cancel` to be finite.

### The command: `PrepareStat_proofs`

| Theorem | Inductive invariant |
|---|---|
| `EachSkuOnceHolds` | `IdsInv`: every id is in one place (`PlaceInv`), and a batch in the channel is full unless it is the last of a closed producer (`BatchInv`), which needs the sizes of the batch being filled at each place of the producer |
| `ReturnedSkusHaveDayHolds` | `CallInv`: the call at work wants the batch at work, has locked every known sku of it when its SELECT ends, and has staged or found a day for each sku its loop has passed |
| `JobKeepsBooks`, `JobKeepsDays`, `JobKeepsLedger` | every step of the command is one of `StockService` for its tables or leaves them alone, so `LedgerInv` is kept beside it |

### Finance: `FinanceService_proofs`

`FinanceInv` types the rows that any worker has read or written, and says that no two
transactions have written one expense and that a worker serves one component at a
time. On it rest:

| Theorem | Inductive invariant |
|---|---|
| `AccountsAndLinksPairHolds`, `NumbersUniqueHolds`, `EditIsWholeHolds` | `LedgerInv` of that module: the rows a transaction has staged have the shape its place and its kind of request ask (`Shape`), staged ids are nobody else's (`IdsGiven`), row locks exclude (`LocksApart`), the tables pair (`LinksPair`), and numbers are unique over the tables and all staged rows (`NumbersApart`) |
| `RowsAreRequestedHolds` | `RowsInv`: every committed or staged row is one edit, or one allowed add for an account linked to that warehouse; links keep their ends, so that it stays so |
| `UnknownTouchesNothingHolds` | `FinanceInv` alone |
| `OneOpsAccountAlone` | `OpsInv`: the look-up still holds when the link is inserted |
| `AdminTypesByAdminAlone`, `MovedByAdminAlone` | `EditInv`: the row that was read is the row that is saved |
| `OnePerDayAlone`, `DailyBalanceAlone` | `DayInv`: between look-up and insert there is no balance of that day |

The five theorems named `...Alone` have the premises of the run `finance_serial`:
one worker (`Alone`); a caller on Jakarta's clock for the balances; for the ops
accounts, no edit that asks for one and at most one per warehouse to begin with.
They are hypotheses of the theorem and not assumptions of the module. That they are needed
is what the runs `history_race` and `balance_race` and the mutants of
`finance_serial` show.

### The services of v2: `ServiceCalls_proofs`, `ServiceWrites_proofs`

`CallsInv` says what a call is made of at every place of its handler; `Goes` and
the lemmas about it say that a statement keeps its rows and names the next, or ends the call.

| Theorem | Inductive invariant |
|---|---|
| `CompleteIsAnsweredHolds` | `AnswerInv`: what a call that must be answered has read is still what the tables ask of it: ids that are there, skus of its warehouse or of its ids that are whole, and the rows that its next maps look up. Premises `KeysAreUnique`: products, variants, transactions and orders have primary keys; `RowsStay`: other services take away no transaction, no row of its history and no sku, and a sku keeps its warehouse, product and variant |
| `PartsBelongTogetherHolds` | `PartsInv`: what each statement of a call has returned are the rows that some content of the tables had for the rows the call had read before, for each of the eleven kinds of read. Premises `KeysAreUnique`, and `LinesAgree`: the order lines of a variation name one product |
| `CreateAnswersBookHolds`, `WarehouseBookHolds` | `RegistryInv`: an id of the sequence belongs to one create; from its first INSERT to its end, the rows in the tables and those to come are those of its request (`CreateOk`), and no other statement writes them |
| `NotesReplacedWholeHolds` | `NotesInv`: ids of notes are given out once; what a replace has seen is common, of its transaction and of the order it names, what it inserts is new and of its transaction, and what it saw and is still there it deletes (`ReplaceOk`) |
| `ServiceTyped` | `CallsInv`, `RegistryInv`, `NotesInv` and `BlacklistInv` |

`PartsInv` does not mention the present content of the tables, so the other services
cannot break it. What the maps of a handler make of the rows follows without the next-state
relation, in lemmas about one row of an answer: `ListParts` (a transaction with one order
is on a page once, `OneRowOnPage`, so the last row is the row), `DetailParts`,
`VariationParts`, `DetailOfOwn` and `ShownCustomer` for a searched order, and
`PlacementParts`. Where a map keeps the last of several rows, the property asks about
one row only, and then some row is the row (`JoinsOne`, which needs the tables to
be finite: `OutboundAssumption`).

`LinesAgree` cannot be left out: `OutboundByProduct` groups by variation and product
and its maps are keyed by the variation, so of two rows with one variation
only the last is given its sku and its variant (`outbound_by_product.go:215-220`). Neither can the
unique ids of orders: an address finds its transaction through its order.

The premises speak of tables that other services write, whose code is not here.
They are definitions at the end of `WarehouseService` and hypotheses of the theorems;
`MCWarehouseService` assumes them of its contents, so TLC evaluates them in `service`.

### What stays with TLC

- Liveness (`ProcessableIsAcked`, `CommandReturns`, `LocksAreReleased`,
  `RequestsEnd`, `CallsEnd`): it depends on fairness and ENABLED, which are out of the
  prover's reach.
- The four properties of the runs that expect a violation.

## 7. Findings

`transfer`, `ChangeLogErrorIsNotAcked` (`v2/push_handler.go:93,101,109`): the
three transfer cases declare their own `err`, so an error of
`CreateStockChangeLog` is not the `err` that line 128 checks. Stage three meets a
nil event and stops, the transaction commits the message id, and the message is
acknowledged though its stock change was never recorded.

`history_race`, `AdminTypesByAdmin` (`warehouse_mutations/expense_hist.go:97`):
`GetExpense` reads the row without a lock, `Update` checks the change of type
against that row and saves all of it. If an administrator gives the row a type
that needs one in between, an edit from the warehouse's team, which could not
have taken that type away (line 133), writes the old type back.

`balance_race`, `OnePerDay` (`warehouse_models/expense.go:173`): the unique index
is said to be "per day" and is on the instant. The day is looked for before the
insert and without a lock, so two calls for two times of one day can both insert.

`shop_filter`, `ListIsOfShop` (`v2/outbound/outbound_list.go:94`): the filter of
line 306 is named "filter marketplace, shop, dan query". With a shop, the order
query has the condition on the shop only; the one that ties the order to the
transaction is in the other branch (line 100). The EXISTS then holds for every
transaction as soon as the shop has any order, and the list shows the orders of
other shops too.

Facts the models carry that no text of the repository contradicts:

- two changes of one sku in a message that opens its day are both in the stock the
  day opens with, and the second is added to the closing stock again
  (`v2/push_handler.go:191-273`; `UpsertDaily`, and the premise `OneChangePerSku`);
- with the deadline sort, `OutboundList` shows a transaction once per order that has
  a deadline, but counts it once for its page information (`ListRows`, `CountList`);
- `OutboundList` sorted by the marketplace's time is always an error, since its SQL
  ends in `null lasts` (`PageList`);
- `PlacementsIDs` answers the variant's id as the product's
  (`v2/inventory/placements_ids.go:261`);
- `TransactionNoteCreate` inserts without the order id that its DELETE filters by, so
  a replace for an order never finds the notes of the one before it (`InsertNotes`);
- a client whose send failed after the commit sees an error although its warehouse
  exists, and a retry makes a second one (`SendCreated`; `CreateAnswersBook` counts
  that outcome as made).

## 8. What is not modelled

The inbound service, `Stat` and `ExpenseReportDaily`, which panic with
"unimplemented", and `ProductHistory`, which returns an empty answer; the
transaction log, one INSERT that nothing in the repository calls; wiring, tracing
and logging. Within the
modelled components: the amount columns of a day (moved by the same statements as
the counts), the text of `raw`, timestamps finer than a day, integer widths (the
counts are BIGINT sums of small integers), and a failure of the first INSERT
other than by a lost connection (its error is ignored at
`v2/push_handler.go:62-66`, but in PostgreSQL such a transaction can no longer
commit, which is the effect of `Fault`).

Of the queries and the registry: failures of a single read statement, which only give
an error; two replaces that lock the notes one by one and deadlock, of which
PostgreSQL fails one, which is `FailNotes`; a transaction that moves to another
warehouse (no code here does that); the columns of `warehouses` besides name, fee and
opening time, which create and update write by the same statements; page information
beyond the count.

Of the finance service: the reads. `ExpenseAccountGet` and `ExpenseAccountList` join
the two tables that `AccountsAndLinksPair` is about and show the rows.
`ExpenseHistoryList` compares a column with the bare name of its table
(`finance_service.go:281`), which PostgreSQL does not accept, so there is no answer to
model. The builders in `warehouse_query/expense_account.go` beyond those the mutations
use have no caller (among them `Disabled`, lines 182-190, which maps `active` to
`is_disabled = true`). Nor are modelled the permission check before a request, which changes no
state; trimming of names and numbers; and the answer of an edit, which carries
the account type as it was loaded and not as it was saved
(`finance_service.go:113`). `Disabled` and the balance history are called by no
RPC of this repository; they are modelled as requests. `CheckOwnOps` reads a
link into an account struct, and whether gorm selects columns that exist there
is not decided in this repository: the model allows the statement to succeed or,
by `FailAccount`, to fail.
