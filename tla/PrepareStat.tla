---------------------------- MODULE PrepareStat ----------------------------
(***************************************************************************)
(* The command prepare-stat at work on the service: a producer reads the   *)
(* skus that have stock history, puts them into batches and sends these    *)
(* over a bounded channel; a consumer calls PrepareSkus for one batch      *)
(* after the other and passes over those that fail.                        *)
(***************************************************************************)
EXTENDS StockService, Sequences

CONSTANTS
  HistorySkus,  \* sku ids in invertory_histories without a transaction
  BatchCount,   \* a batch is sent when it has more ids than these
  Capacity      \* of the channel

ASSUME StatAssumption ==
  HistorySkus \subseteq SkuNames /\ BatchCount \in Nat /\ Capacity \in Nat \ {0}

VARIABLES
  producer,  \* "query", "scan", "send", "rest", "closed", or "broken" by an error
  rows,      \* ids the cursor has yet to give
  result,    \* the batch being filled
  skuChan,   \* sent batches, the oldest first
  consumer,  \* "receive", "call" or "returned"
  batch,     \* what the call at work prepares
  prepared,  \* ids of the batches whose call has succeeded
  failed     \* ids of those whose call has failed

producerVars == <<producer, rows, result>>
consumerVars == <<consumer, batch, prepared, failed>>
allVars == <<vars, producerVars, skuChan, consumerVars>>

StatInit ==
  /\ producer = "query" /\ rows = HistorySkus /\ result = {}
  /\ skuChan = <<>>
  /\ consumer = "receive" /\ batch = {} /\ prepared = {} /\ failed = {}

-----------------------------------------------------------------------------
\* The producer.

RunQuery ==
  /\ producer = "query"
  /\ producer' = "scan"
  /\ UNCHANGED <<rows, result, skuChan>>

\* The query fails, or a row cannot be scanned: the batch begun is not sent.
ProducerError ==
  /\ producer \in {"query", "scan"}
  /\ producer' = "broken"
  /\ UNCHANGED <<rows, result, skuChan>>

\* Mutant: the sent slice is filled on.
SameBatch(sent) == sent

\* Sending a batch starts a new one.
NewBatch(sent) == {}

ScanRow ==
  /\ producer = "scan"
  /\ \E s \in rows :
       /\ rows' = rows \ {s}
       /\ result' = result \cup {s}
       /\ producer' = IF Cardinality(result') > BatchCount THEN "send" ELSE "scan"
  /\ UNCHANGED skuChan

Send(next) ==
  /\ Len(skuChan) < Capacity
  /\ skuChan' = Append(skuChan, result)
  /\ result' = NewBatch(result)
  /\ producer' = next
  /\ UNCHANGED rows

SendBatch == producer = "send" /\ Send("scan")

\* Mutant: only full batches are sent.
EndWithoutRest ==
  /\ producer = "scan"
  /\ producer' = "closed"
  /\ UNCHANGED <<rows, result, skuChan>>

\* The cursor has given its rows, or it broke off, which nobody asks it.
EndRows ==
  /\ producer = "scan"
  /\ producer' = IF result = {} THEN "closed" ELSE "rest"
  /\ UNCHANGED <<rows, result, skuChan>>

SendRest == producer = "rest" /\ Send("closed")

Produce == RunQuery \/ ScanRow \/ SendBatch \/ EndRows \/ SendRest

-----------------------------------------------------------------------------
\* The consumer and its calls.

Receive(p) ==
  /\ consumer = "receive" /\ skuChan # <<>>
  /\ BeginPrepare(p, Head(skuChan))
  /\ batch' = Head(skuChan) /\ skuChan' = Tail(skuChan)
  /\ consumer' = "call"
  /\ UNCHANGED <<prepared, failed>>

Log(ids) == failed' = failed \cup ids /\ UNCHANGED prepared

\* The call has an outcome, and the loop goes on whatever it is.
GoOn ==
  /\ consumer = "call"
  /\ consumer' = "receive" /\ batch' = {}
  /\ UNCHANGED skuChan

\* The server has committed; its answer may be lost.
Answered(p) ==
  /\ CommitPrepare(p)
  /\ GoOn
  /\ \/ prepared' = prepared \cup batch /\ UNCHANGED failed
     \/ Log(batch)

Refused(p) == GoOn /\ Log(batch)

\* The service cannot be reached.
Unreachable ==
  /\ consumer = "receive" /\ skuChan # <<>>
  /\ Log(Head(skuChan))
  /\ skuChan' = Tail(skuChan)
  /\ UNCHANGED <<consumer, batch>>

\* Mutant: the producer closes the channel at its end only, not by defer.
ReturnAfterClose ==
  /\ consumer = "receive" /\ skuChan = <<>> /\ producer = "closed"
  /\ consumer' = "returned"
  /\ UNCHANGED <<batch, prepared, failed, skuChan>>

\* The channel is closed and drained: the command ends without an error.
ReturnNil ==
  /\ consumer = "receive" /\ skuChan = <<>> /\ producer \in {"closed", "broken"}
  /\ consumer' = "returned"
  /\ UNCHANGED <<batch, prepared, failed, skuChan>>

-----------------------------------------------------------------------------
StatNext(p) ==
  \/ (Produce \/ ProducerError) /\ UNCHANGED <<vars, consumerVars>>
  \/ (Unreachable \/ ReturnNil) /\ UNCHANGED <<vars, producerVars>>
  \/ (Receive(p) \/ Answered(p)) /\ UNCHANGED <<handlerVars, producerVars>>
  \/ (LockRow(p) \/ EndSelect(p) \/ InsertDay(p))
       /\ UNCHANGED <<handlerVars, producerVars, skuChan, consumerVars>>
  \/ AbortPrepare(p) /\ Refused(p) /\ UNCHANGED <<handlerVars, producerVars>>
  \/ AbortPreparer(p) /\ Refused(p) /\ UNCHANGED producerVars

ServiceNext ==
  \/ HandlerNext /\ UNCHANGED prepareVars
  \/ NextDay /\ UNCHANGED handlerVars
  \/ \E h \in Handlers : AbortHandler(h)

JobNext ==
  \/ \E p \in Preparers : StatNext(p)
  \/ ServiceNext /\ UNCHANGED <<producerVars, skuChan, consumerVars>>

JobInit == Init /\ StatInit

JobSpec == JobInit /\ [][JobNext]_allVars

\* Besides what StockService assumes: the two goroutines of the command run.
Received(p) == Receive(p) /\ UNCHANGED <<handlerVars, producerVars>>

FairJobSpec ==
  /\ JobSpec /\ Fairness
  /\ WF_allVars(Produce /\ UNCHANGED <<vars, consumerVars>>)
  /\ WF_allVars(ReturnNil /\ UNCHANGED <<vars, producerVars>>)
  /\ \A p \in Preparers : WF_allVars(Received(p))

-----------------------------------------------------------------------------
(* Properties. *)

\* Every id of the query is in one place: with the cursor, in the batch being
\* filled, in one batch that was sent, in the call at work, or handed over.  A
\* batch has one id more than the count, but for the last.
EachSkuOnce ==
  LET places == skuChan \o <<rows, result, batch, prepared, failed>>
  IN  /\ UNION Range(places) = HistorySkus
      /\ \A i, j \in DOMAIN places : i # j => places[i] \cap places[j] = {}
      /\ \A i \in DOMAIN skuChan :
           \/ Cardinality(skuChan[i]) = BatchCount + 1
           \/ i = Len(skuChan) /\ producer = "closed" /\ skuChan[i] # {}

HasDay(s) == \E d \in Days, v \in Warehouses : daily[<<d, s, v>>].used

\* The command returns nil whatever happened.  Then every known sku of the query
\* has a day of its own, but for those of a call that was logged as failed and
\* those the producer did not get from its cursor.
ReturnedSkusHaveDay ==
  /\ prepared \cap Skus \subseteq {s \in Skus : HasDay(s)}
  /\ consumer = "returned" =>
       HistorySkus = prepared \cup failed \cup rows
                       \cup (IF producer = "broken" THEN result ELSE {})

\* The command ends: neither goroutine waits for the other for ever, and the
\* service answers every call.
CommandReturns == <>(consumer = "returned")
=============================================================================
