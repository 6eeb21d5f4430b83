------------------------- MODULE PrepareStat_proofs -------------------------
(***************************************************************************)
(* The command prepare-stat for any list of ids, any size of its batches   *)
(* and of its channel, against any requests of the event handler: no id is *)
(* sent twice or lost on the way, an answered call has given every known   *)
(* sku its day, and the books of the days stay what they are without it.   *)
(***************************************************************************)
EXTENDS PrepareStat, StockLedger_proofs

-----------------------------------------------------------------------------
(* The invariants. *)

\* The skus of the batches in a queue, and batches that share none.
Queued(queue) == UNION {queue[i] : i \in 1 .. Len(queue)}

Apart(queue) ==
  \A i, j \in 1 .. Len(queue) : i # j => queue[i] \cap queue[j] = {}

StatType ==
  /\ producer \in {"query", "scan", "send", "rest", "closed", "broken"}
  /\ consumer \in {"receive", "call", "returned"}
  /\ skuChan \in Seq(SUBSET HistorySkus)

\* The six places of an id: none is lost, and none is in two of them.
PlaceInv ==
  /\ rows \cup result \cup Queued(skuChan) \cup batch \cup prepared \cup failed
       = HistorySkus
  /\ rows \cap (result \cup Queued(skuChan) \cup batch \cup prepared \cup failed) = {}
  /\ result \cap (Queued(skuChan) \cup batch \cup prepared \cup failed) = {}
  /\ Queued(skuChan) \cap (batch \cup prepared \cup failed) = {}
  /\ batch \cap (prepared \cup failed) = {}
  /\ prepared \cap failed = {}
  /\ Apart(skuChan)

\* How much the producer holds where it stands, and how much it has sent.
BatchInv ==
  /\ IsFiniteSet(result)
  /\ producer = "query" => result = {}
  /\ producer = "scan" => Cardinality(result) <= BatchCount
  /\ producer = "send" => Cardinality(result) = BatchCount + 1
  /\ producer = "rest" => result # {}
  /\ producer = "closed" => result = {}
  /\ \A i \in 1 .. Len(skuChan) :
       \/ Cardinality(skuChan[i]) = BatchCount + 1
       \/ i = Len(skuChan) /\ producer = "closed" /\ skuChan[i] # {}

\* What the consumer holds where it stands.
LoopInv ==
  /\ consumer # "call" => batch = {}
  /\ consumer = "returned" => skuChan = <<>> /\ producer \in {"closed", "broken"}

DayOf(s) == \E k \in Keys : k[2] = s /\ daily[k].used

DayStaged(p, s) == \E k \in Keys : k[2] = s /\ (daily[k].used \/ prep[p].rows[k].used)

\* The call at work is the only one.  It has yet to lock the known skus of its
\* batch, or holds them, or has staged their days, or has found them.
CallInv ==
  /\ \A p \in Preparers : prep[p].pc # "idle" => consumer = "call"
  /\ \A p, q \in Preparers : prep[p].pc # "idle" /\ prep[q].pc # "idle" => p = q
  /\ \A p \in Preparers :
       prep[p].pc = "select" => batch \cap Skus \subseteq prep[p].want \cup prep[p].locked
  /\ \A p \in Preparers :
       prep[p].pc = "insert" =>
         \A s \in batch \cap Skus : s \in prep[p].locked \/ DayStaged(p, s)
  /\ \A s \in prepared \cap Skus : DayOf(s)

-----------------------------------------------------------------------------
(* The channel. *)

\* A batch that shares nothing with those of the queue goes to its end.
LEMMA Sent ==
  ASSUME NEW queue \in Seq(SUBSET HistorySkus), NEW set \in SUBSET HistorySkus
  PROVE  /\ Append(queue, set) \in Seq(SUBSET HistorySkus)
         /\ Queued(Append(queue, set)) = Queued(queue) \cup set
         /\ Apart(queue) /\ set \cap Queued(queue) = {} => Apart(Append(queue, set))
<1>1. /\ Append(queue, set) \in Seq(SUBSET HistorySkus)
      /\ Len(queue) \in Nat /\ Len(Append(queue, set)) = Len(queue) + 1
      /\ Append(queue, set)[Len(queue) + 1] = set
      /\ \A i \in 1 .. Len(queue) : Append(queue, set)[i] = queue[i]
  OBVIOUS
<1>2. 1 .. Len(queue) + 1 = 1 .. Len(queue) \cup {Len(queue) + 1}
  BY <1>1
<1>3. Queued(Append(queue, set)) = Queued(queue) \cup set
  BY <1>1, <1>2 DEF Queued
<1>4. ASSUME Apart(queue), set \cap Queued(queue) = {}
      PROVE  Apart(Append(queue, set))
  <2>1. \A i \in 1 .. Len(queue) : queue[i] \cap set = {}
    BY <1>4 DEF Queued
  <2> QED BY <1>1, <1>2, <1>4, <2>1 DEF Apart
<1> QED BY <1>1, <1>3, <1>4

\* The oldest batch leaves the queue.
LEMMA Taken ==
  ASSUME NEW S, NEW queue \in Seq(SUBSET S), queue # <<>>
  PROVE  /\ Head(queue) \in SUBSET S /\ Tail(queue) \in Seq(SUBSET S)
         /\ Queued(queue) = Head(queue) \cup Queued(Tail(queue))
         /\ Apart(queue) => /\ Apart(Tail(queue))
                            /\ Head(queue) \cap Queued(Tail(queue)) = {}
<1>1. /\ Len(queue) \in Nat \ {0} /\ Len(Tail(queue)) = Len(queue) - 1
      /\ Head(queue) = queue[1] /\ Tail(queue) \in Seq(SUBSET S)
      /\ \A i \in 1 .. Len(queue) - 1 : Tail(queue)[i] = queue[i + 1]
      /\ Head(queue) \in SUBSET S
  OBVIOUS
<1>2. /\ 1 \in 1 .. Len(queue)
      /\ \A i \in 1 .. Len(queue) - 1 : i + 1 \in 1 .. Len(queue) /\ i + 1 # 1
      /\ \A i \in 1 .. Len(queue) : i = 1 \/ i - 1 \in 1 .. Len(queue) - 1
      /\ \A i, j \in 1 .. Len(queue) - 1 : i # j => i + 1 # j + 1
  BY <1>1
<1>3. \A i \in 1 .. Len(queue) : i = 1 \/ queue[i] = Tail(queue)[i - 1]
  BY <1>1, <1>2
<1>4. Queued(queue) \subseteq Head(queue) \cup Queued(Tail(queue))
  <2> SUFFICES ASSUME NEW i \in 1 .. Len(queue), NEW s \in queue[i]
               PROVE  s \in Head(queue) \cup Queued(Tail(queue))
    BY DEF Queued
  <2>1. i = 1 => s \in Head(queue)
    BY <1>1
  <2>2. i # 1 => i - 1 \in 1 .. Len(Tail(queue)) /\ s \in Tail(queue)[i - 1]
    BY <1>1, <1>2, <1>3
  <2> QED BY <2>1, <2>2 DEF Queued
<1>5. Head(queue) \cup Queued(Tail(queue)) \subseteq Queued(queue)
  BY <1>1, <1>2 DEF Queued
<1>6. ASSUME Apart(queue)
      PROVE  Apart(Tail(queue)) /\ Head(queue) \cap Queued(Tail(queue)) = {}
  <2>1. Apart(Tail(queue))
    BY <1>1, <1>2, <1>6 DEF Apart
  <2>2. \A i \in 1 .. Len(queue) - 1 : queue[1] \cap queue[i + 1] = {}
    BY <1>2, <1>6 DEF Apart
  <2>3. Head(queue) \cap Queued(Tail(queue)) = {}
    BY <1>1, <2>2 DEF Queued
  <2> QED BY <2>1, <2>3
<1> QED BY <1>1, <1>4, <1>5, <1>6

-----------------------------------------------------------------------------
(* The ids: from the cursor to the outcome of a call. *)

IdsInv == StatType /\ PlaceInv /\ BatchInv /\ LoopInv

\* The steps of the command, with what each leaves alone.
Producing == (Produce \/ ProducerError) /\ UNCHANGED consumerVars

Consuming ==
  /\ UNCHANGED producerVars
  /\ \/ \E p \in Preparers : Receive(p) \/ Answered(p) \/ Refused(p)
     \/ Unreachable
     \/ ReturnNil

Resting == UNCHANGED <<producerVars, skuChan, consumerVars>>

\* Every step is one of the producer, one of the consumer, or neither's.
LEMMA JobSteps ==
  ASSUME [JobNext]_allVars
  PROVE  Producing \/ Consuming \/ Resting
<1>1. ASSUME NEW p \in Preparers, StatNext(p)
      PROVE  Producing \/ Consuming \/ Resting
  BY <1>1 DEF StatNext, Producing, Consuming, Resting
<1>2. UNCHANGED allVars => Resting
  BY DEF allVars, Resting
<1> QED BY <1>1, <1>2 DEF JobNext, Resting

\* Sending a batch moves it from the producer to the channel.
LEMMA SendIds ==
  ASSUME IdsInv, UNCHANGED consumerVars, NEW next \in {"scan", "closed"}, Send(next),
         \/ producer = "send" /\ next = "scan"
         \/ producer = "rest" /\ next = "closed"
  PROVE  IdsInv'
<1>q. /\ skuChan \in Seq(SUBSET HistorySkus) /\ result \in SUBSET HistorySkus
      /\ Len(skuChan) \in Nat /\ BatchCount \in Nat
  BY StatAssumption DEF IdsInv, StatType, PlaceInv
<1>s. /\ skuChan' = Append(skuChan, result) /\ result' = {} /\ producer' = next
      /\ rows' = rows /\ consumer' = consumer /\ batch' = batch
      /\ prepared' = prepared /\ failed' = failed
  BY DEF Send, NewBatch, consumerVars
<1>1. /\ skuChan' \in Seq(SUBSET HistorySkus)
      /\ Queued(skuChan') = Queued(skuChan) \cup result
      /\ Apart(skuChan')
  <2>1. Apart(skuChan) /\ result \cap Queued(skuChan) = {}
    BY DEF IdsInv, PlaceInv
  <2>2. /\ Append(skuChan, result) \in Seq(SUBSET HistorySkus)
        /\ Queued(Append(skuChan, result)) = Queued(skuChan) \cup result
        /\ Apart(Append(skuChan, result))
    BY <1>q, <2>1, Sent
  <2> QED BY <1>s, <2>2
<1>2. StatType'
  BY <1>1, <1>s DEF IdsInv, StatType
<1>3. PlaceInv'
  BY <1>1, <1>s DEF IdsInv, PlaceInv
<1>4. /\ Len(skuChan') = Len(skuChan) + 1 /\ skuChan'[Len(skuChan) + 1] = result
      /\ \A i \in 1 .. Len(skuChan) : skuChan'[i] = skuChan[i]
  BY <1>q, <1>s
<1>5. BatchInv'
  <2>1. IsFiniteSet({}) /\ Cardinality({}) = 0
    BY FS_EmptySet
  <2>2. producer # "closed"
    OBVIOUS
  <2>3. \A i \in 1 .. Len(skuChan) : Cardinality(skuChan'[i]) = BatchCount + 1
    BY <1>4, <2>2 DEF IdsInv, BatchInv
  <2>4. \/ Cardinality(skuChan'[Len(skuChan) + 1]) = BatchCount + 1
        \/ producer' = "closed" /\ skuChan'[Len(skuChan) + 1] # {}
    BY <1>4, <1>s DEF IdsInv, BatchInv
  <2>5. \A i \in 1 .. Len(skuChan') : i \in 1 .. Len(skuChan) \/ i = Len(skuChan) + 1
    BY <1>q, <1>4
  <2>6. \A i \in 1 .. Len(skuChan') :
          \/ Cardinality(skuChan'[i]) = BatchCount + 1
          \/ i = Len(skuChan') /\ producer' = "closed" /\ skuChan'[i] # {}
    BY <1>4, <2>3, <2>4, <2>5
  <2> QED BY <1>q, <1>s, <2>1, <2>6 DEF BatchInv
<1>6. LoopInv'
  BY <1>s DEF IdsInv, LoopInv
<1> QED BY <1>2, <1>3, <1>5, <1>6 DEF IdsInv

\* The steps of the producer keep every id in its one place.
LEMMA ProducerIds ==
  ASSUME IdsInv, Producing
  PROVE  IdsInv'
<1>c. UNCHANGED <<consumer, batch, prepared, failed>>
  BY DEF Producing, consumerVars
<1>1. CASE SendBatch \/ SendRest
  BY <1>1, SendIds DEF SendBatch, SendRest, Producing
<1>2. CASE ScanRow
  <2>1. PICK s \in rows :
          /\ rows' = rows \ {s} /\ result' = result \cup {s}
          /\ producer' = IF Cardinality(result') > BatchCount THEN "send" ELSE "scan"
    BY <1>2 DEF ScanRow
  <2>2. skuChan' = skuChan /\ producer = "scan"
    BY <1>2 DEF ScanRow
  <2>3. s \notin result
    BY DEF IdsInv, PlaceInv
  <2>4. /\ IsFiniteSet(result') /\ Cardinality(result') = Cardinality(result) + 1
        /\ Cardinality(result) \in Nat /\ Cardinality(result) <= BatchCount
    BY <2>1, <2>2, <2>3, FS_AddElement, FS_CardinalityType DEF IdsInv, BatchInv
  <2>5. StatType'
    BY <1>c, <2>1, <2>2 DEF IdsInv, StatType
  <2>6. PlaceInv'
    BY <1>c, <2>1, <2>2, <2>3 DEF IdsInv, PlaceInv
  <2>7. BatchInv'
    <3>1. \A i \in 1 .. Len(skuChan) : Cardinality(skuChan[i]) = BatchCount + 1
      BY <2>2 DEF IdsInv, BatchInv
    <3> QED BY <2>1, <2>2, <2>4, <3>1, StatAssumption DEF BatchInv
  <2>8. LoopInv'
    BY <1>c, <2>1, <2>2 DEF IdsInv, LoopInv
  <2> QED BY <2>5, <2>6, <2>7, <2>8 DEF IdsInv
<1>3. CASE RunQuery \/ EndRows \/ ProducerError
  <2>1. /\ UNCHANGED <<rows, result, skuChan>>
        /\ producer \in {"query", "scan"}
        /\ producer' \in {"scan", "closed", "rest", "broken"}
        /\ producer' = "scan" => producer = "query"
        /\ producer' = "closed" => result = {}
        /\ producer' = "rest" => result # {}
    BY <1>3 DEF RunQuery, EndRows, ProducerError
  <2>2. StatType' /\ PlaceInv'
    BY <1>c, <2>1 DEF IdsInv, StatType, PlaceInv
  <2>3. BatchInv'
    <3>1. \A i \in 1 .. Len(skuChan) : Cardinality(skuChan[i]) = BatchCount + 1
      BY <2>1 DEF IdsInv, BatchInv
    <3>2. producer = "query" => Cardinality(result) <= BatchCount
      <4>1. Cardinality({}) = 0
        BY FS_EmptySet
      <4>2. BatchCount \in Nat /\ (producer = "query" => result = {})
        BY StatAssumption DEF IdsInv, BatchInv
      <4> QED BY <4>1, <4>2
    <3> QED BY <2>1, <3>1, <3>2 DEF IdsInv, BatchInv
  <2>4. LoopInv'
    BY <1>c, <2>1 DEF IdsInv, LoopInv
  <2> QED BY <2>2, <2>3, <2>4 DEF IdsInv
<1> QED BY <1>1, <1>2, <1>3 DEF Producing, Produce

\* A batch that leaves the channel keeps the sizes of the others.
LEMMA TakenSizes ==
  ASSUME IdsInv, skuChan # <<>>, skuChan' = Tail(skuChan), UNCHANGED producerVars
  PROVE  BatchInv'
<1>1. skuChan \in Seq(SUBSET HistorySkus)
  BY DEF IdsInv, StatType
<1>2. /\ Len(skuChan) \in Nat \ {0} /\ Len(skuChan') = Len(skuChan) - 1
      /\ \A i \in 1 .. Len(skuChan') : skuChan'[i] = skuChan[i + 1]
  BY <1>1
<1>3. \A i \in 1 .. Len(skuChan') :
        i + 1 \in 1 .. Len(skuChan) /\ (i + 1 = Len(skuChan) => i = Len(skuChan'))
  <2> SUFFICES ASSUME NEW n \in Nat \ {0}, NEW i \in 1 .. n - 1
               PROVE  i + 1 \in 1 .. n /\ (i + 1 = n => i = n - 1)
    BY <1>2
  <2> QED OBVIOUS
<1>4. \A i \in 1 .. Len(skuChan') :
        \/ Cardinality(skuChan'[i]) = BatchCount + 1
        \/ i = Len(skuChan') /\ producer = "closed" /\ skuChan'[i] # {}
  BY <1>2, <1>3 DEF IdsInv, BatchInv
<1> QED BY <1>4 DEF IdsInv, BatchInv, producerVars

\* The steps of the consumer keep every id in its one place.
LEMMA ConsumerIds ==
  ASSUME IdsInv, Consuming
  PROVE  IdsInv'
<1>p. UNCHANGED <<producer, rows, result>>
  BY DEF Consuming, producerVars
<1>q. skuChan # <<>> =>
        /\ Head(skuChan) \in SUBSET HistorySkus /\ Tail(skuChan) \in Seq(SUBSET HistorySkus)
        /\ Queued(skuChan) = Head(skuChan) \cup Queued(Tail(skuChan))
        /\ Apart(Tail(skuChan)) /\ Head(skuChan) \cap Queued(Tail(skuChan)) = {}
  BY Taken DEF IdsInv, StatType, PlaceInv
<1>1. ASSUME NEW p \in Preparers, Receive(p)
      PROVE  IdsInv'
  <2>1. /\ skuChan # <<>> /\ skuChan' = Tail(skuChan) /\ batch' = Head(skuChan)
        /\ consumer = "receive" /\ consumer' = "call" /\ UNCHANGED <<prepared, failed>>
    BY <1>1 DEF Receive
  <2>2. batch = {}
    BY <2>1 DEF IdsInv, LoopInv
  <2>3. StatType'
    BY <1>p, <1>q, <2>1 DEF IdsInv, StatType
  <2>4. PlaceInv'
    BY <1>p, <1>q, <2>1, <2>2 DEF IdsInv, PlaceInv
  <2>5. BatchInv'
    BY <2>1, TakenSizes DEF Consuming
  <2> QED BY <2>1, <2>3, <2>4, <2>5 DEF IdsInv, LoopInv
<1>2. CASE Unreachable
  <2>1. /\ skuChan # <<>> /\ skuChan' = Tail(skuChan)
        /\ failed' = failed \cup Head(skuChan)
        /\ consumer = "receive" /\ UNCHANGED <<prepared, consumer, batch>>
    BY <1>2 DEF Unreachable, Log
  <2>2. StatType'
    BY <1>p, <1>q, <2>1 DEF IdsInv, StatType
  <2>3. PlaceInv'
    BY <1>p, <1>q, <2>1 DEF IdsInv, PlaceInv
  <2>4. BatchInv'
    BY <2>1, TakenSizes DEF Consuming
  <2> QED BY <2>1, <2>2, <2>3, <2>4 DEF IdsInv, LoopInv
<1>3. ASSUME NEW p \in Preparers, Answered(p) \/ Refused(p)
      PROVE  IdsInv'
  <2>1. /\ consumer' = "receive" /\ batch' = {} /\ skuChan' = skuChan
        /\ \/ prepared' = prepared \cup batch /\ failed' = failed
           \/ prepared' = prepared /\ failed' = failed \cup batch
    BY <1>3 DEF Answered, Refused, GoOn, Log
  <2>2. StatType'
    BY <1>p, <2>1 DEF IdsInv, StatType
  <2>3. PlaceInv'
    BY <1>p, <2>1 DEF IdsInv, PlaceInv
  <2>4. BatchInv'
    BY <1>p, <2>1 DEF IdsInv, BatchInv
  <2> QED BY <2>1, <2>2, <2>3, <2>4 DEF IdsInv, LoopInv
<1>4. CASE ReturnNil
  <2>1. /\ consumer' = "returned" /\ UNCHANGED <<batch, prepared, failed, skuChan>>
        /\ consumer = "receive" /\ skuChan = <<>> /\ producer \in {"closed", "broken"}
    BY <1>4 DEF ReturnNil
  <2> QED BY <1>p, <2>1 DEF IdsInv, StatType, PlaceInv, BatchInv, LoopInv
<1> QED BY <1>1, <1>2, <1>3, <1>4 DEF Consuming

\* Every id is in its one place in every reachable state.
LEMMA IdsHold == JobSpec => []IdsInv
<1>1. JobInit => IdsInv
  <2> SUFFICES ASSUME StatInit PROVE IdsInv
    BY DEF JobInit
  <2>1. /\ skuChan = <<>> /\ skuChan \in Seq(SUBSET HistorySkus) /\ Len(skuChan) = 0
        /\ 1 .. 0 = {}
    BY DEF StatInit
  <2>2. Queued(skuChan) = {} /\ Apart(skuChan)
    BY <2>1 DEF Queued, Apart
  <2>3. IsFiniteSet({})
    BY FS_EmptySet
  <2> QED BY <2>1, <2>2, <2>3
          DEF StatInit, IdsInv, StatType, PlaceInv, BatchInv, LoopInv
<1>2. IdsInv /\ [JobNext]_allVars => IdsInv'
  <2>1. IdsInv /\ Resting => IdsInv'
    BY DEF Resting, producerVars, consumerVars, IdsInv, StatType, PlaceInv, BatchInv,
           LoopInv
  <2> QED BY <2>1, JobSteps, ProducerIds, ConsumerIds
<1> QED BY <1>1, <1>2, PTL DEF JobSpec

\* The items of two sequences of batches, one after the other.
LEMMA JoinedItems ==
  ASSUME NEW first \in Seq(SUBSET HistorySkus), NEW second \in Seq(SUBSET HistorySkus)
  PROVE  /\ first \o second \in Seq(SUBSET HistorySkus)
         /\ Len(first \o second) = Len(first) + Len(second)
         /\ \A i \in 1 .. Len(first) + Len(second) :
              (first \o second)[i] =
                IF i <= Len(first) THEN first[i] ELSE second[i - Len(first)]
OBVIOUS

\* Every id of the query is in one place, whatever order the two goroutines and
\* the calls run in and whatever fails: prepare-stat loses none between its
\* cursor and its answer and sends none twice, and only its last batch is short.
THEOREM EachSkuOnceHolds == JobSpec => []EachSkuOnce
<1>1. ASSUME IdsInv PROVE EachSkuOnce
  <2> DEFINE ends == <<rows, result, batch, prepared, failed>>
             places == skuChan \o ends
             n == Len(skuChan)
  <2>1. skuChan \in Seq(SUBSET HistorySkus) /\ n \in Nat /\ DOMAIN skuChan = 1 .. n
    BY <1>1 DEF IdsInv, StatType
  <2>2. rows \in SUBSET HistorySkus /\ result \in SUBSET HistorySkus
        /\ batch \in SUBSET HistorySkus /\ prepared \in SUBSET HistorySkus
        /\ failed \in SUBSET HistorySkus
    BY <1>1 DEF IdsInv, PlaceInv
  <2>3. ends \in Seq(SUBSET HistorySkus) /\ Len(ends) = 5
    BY <2>2
  <2>4. /\ ends[1] = rows /\ ends[2] = result /\ ends[3] = batch
        /\ ends[4] = prepared /\ ends[5] = failed
    OBVIOUS
  <2> HIDE DEF ends
  <2>5. /\ DOMAIN places = 1 .. n + 5
        /\ \A i \in 1 .. n : places[i] = skuChan[i]
        /\ \A j \in 1 .. 5 : places[n + j] = ends[j]
    <3>1. /\ places \in Seq(SUBSET HistorySkus) /\ Len(places) = n + 5
          /\ \A i \in 1 .. n + 5 :
               places[i] = IF i <= n THEN skuChan[i] ELSE ends[i - n]
      <4>1. /\ skuChan \o ends \in Seq(SUBSET HistorySkus)
            /\ Len(skuChan \o ends) = Len(skuChan) + Len(ends)
            /\ \A i \in 1 .. Len(skuChan) + Len(ends) :
                 (skuChan \o ends)[i] =
                   IF i <= Len(skuChan) THEN skuChan[i] ELSE ends[i - Len(skuChan)]
        BY <2>1, <2>3, JoinedItems
      <4> QED BY <4>1, <2>3
    <3> HIDE DEF places, n
    <3>2. \A i \in 1 .. n : i \in 1 .. n + 5 /\ i <= n
      BY <2>1
    <3>3. \A j \in 1 .. 5 : n + j \in 1 .. n + 5 /\ ~(n + j <= n) /\ (n + j) - n = j
      BY <2>1
    <3> QED BY <3>1, <3>2, <3>3
  <2> HIDE DEF places, n
  <2>6. /\ places[n + 1] = rows /\ places[n + 2] = result /\ places[n + 3] = batch
        /\ places[n + 4] = prepared /\ places[n + 5] = failed
    BY <2>4, <2>5
  <2>7. \A i \in 1 .. n + 5 :
          i \in 1 .. n \/ i \in {n + 1, n + 2, n + 3, n + 4, n + 5}
    BY <2>1
  <2>8. /\ 1 .. n \subseteq 1 .. n + 5
        /\ {n + 1, n + 2, n + 3, n + 4, n + 5} \subseteq 1 .. n + 5
    BY <2>1
  <2>9. UNION Range(places) = HistorySkus
    <3>1. Queued(skuChan) = UNION {places[i] : i \in 1 .. n}
      BY <2>5 DEF Queued, n
    <3>2. UNION Range(places)
            = (UNION {places[i] : i \in 1 .. n})
                \cup rows \cup result \cup batch \cup prepared \cup failed
      BY <2>5, <2>6, <2>7, <2>8 DEF Range
    <3> QED BY <1>1, <3>1, <3>2 DEF IdsInv, PlaceInv
  <2>10. \A i, j \in DOMAIN places : i # j => places[i] \cap places[j] = {}
    <3>1. \A i, j \in 1 .. n : i # j => places[i] \cap places[j] = {}
      BY <1>1, <2>5 DEF IdsInv, PlaceInv, Apart, n
    <3>2. \A i \in 1 .. n : places[i] \subseteq Queued(skuChan)
      BY <2>5 DEF Queued, n
    <3>3. \A i \in 1 .. n, j \in {n + 1, n + 2, n + 3, n + 4, n + 5} :
            places[i] \cap places[j] = {}
      BY <1>1, <2>6, <3>2 DEF IdsInv, PlaceInv
    <3>4. \A i, j \in {n + 1, n + 2, n + 3, n + 4, n + 5} :
            i # j => places[i] \cap places[j] = {}
      BY <1>1, <2>6 DEF IdsInv, PlaceInv
    <3> QED BY <2>5, <2>7, <3>1, <3>3, <3>4
  <2>11. \A i \in DOMAIN skuChan :
           \/ Cardinality(skuChan[i]) = BatchCount + 1
           \/ i = Len(skuChan) /\ producer = "closed" /\ skuChan[i] # {}
    BY <1>1, <2>1 DEF IdsInv, BatchInv, n
  <2> QED BY <2>9, <2>10, <2>11 DEF EachSkuOnce, places, ends
<1> QED BY <1>1, IdsHold, PTL

-----------------------------------------------------------------------------
(* The tables below the command. *)

\* A step of the job is a step of the service, or begins a call with a batch.
LEMMA JobOnService ==
  ASSUME [JobNext]_allVars
  PROVE  \/ [Next]_vars
         \/ \E p \in Preparers : \E ids : BeginPrepare(p, ids) /\ UNCHANGED handlerVars
<1>1. ASSUME NEW p \in Preparers, StatNext(p)
      PROVE  \/ [Next]_vars
             \/ \E ids : BeginPrepare(p, ids) /\ UNCHANGED handlerVars
  BY <1>1 DEF StatNext, Receive, Answered, Refused, Next, PrepareNext, PrepareStep,
              DetectDeadlock, AbortPreparer, vars
<1>2. CASE ServiceNext
  BY <1>2 DEF ServiceNext, Next, PrepareNext, DetectDeadlock
<1>3. CASE UNCHANGED allVars
  BY <1>3 DEF allVars
<1> QED BY <1>1, <1>2, <1>3 DEF JobNext

\* Every step of the job keeps the invariants of the tables, and with them every
\* day that has a row; it is a step of the ledger or none.
LEMMA TablesStep ==
  ASSUME LedgerInv, [JobNext]_allVars
  PROVE  /\ LedgerInv'
         /\ \A k \in Keys :
              daily[k].used => daily'[k].used /\ daily'[k].start = daily[k].start
         /\ [Ledger!Next]_Books
<1>i. TypeInv /\ LockInv /\ BooksInv /\ OnceInv /\ SumInv /\ WholeInv
  BY DEF LedgerInv
<1>1. CASE [Next]_vars
  <2>1. TypeInv'
    BY <1>1, <1>i, NextType
  <2>2. LockInv'
    BY <1>1, <1>i, LockStep
  <2>3. OnceInv'
    BY <1>1, <1>i, OnceStep
  <2>4. SumInv' /\ WholeInv'
    BY <1>1, <1>i, SumStep, WholeStep
  <2>5. [Ledger!Next]_Books
    BY <1>1, LedgerStep
  <2> QED BY <1>1, <1>i, <2>1, <2>2, <2>3, <2>4, <2>5, BooksStep DEF LedgerInv
<1>2. ASSUME NEW p \in Preparers, NEW ids, BeginPrepare(p, ids), UNCHANGED handlerVars
      PROVE  /\ LedgerInv'
             /\ \A k \in Keys :
                  daily[k].used => daily'[k].used /\ daily'[k].start = daily[k].start
             /\ [Ledger!Next]_Books
  <2>1. TypeInv'
    BY <1>2, <1>i, BeginType
  <2>2. PrepareEffect(p)
    BY <1>2, <1>i, PrepareEffects
  <2>3. SumInv'
    BY <1>i, <2>2, SumPrepared
  <2>4. UNCHANGED <<txn, acked, eventLog, changeLog>>
    BY <1>2 DEF handlerVars
  <2>5. OnceInv' /\ WholeInv'
    <3>1. OnceInv'
      BY <1>i, <2>4 DEF OnceInv, AckedIsRecorded
    <3>2. WholeInv'
      BY <1>i, <2>4 DEF WholeInv, ChangeLogMatchesEventLog, Stored
    <3> QED BY <3>1, <3>2
  <2>6. [Ledger!Next]_Books
    BY <2>2, PreparedAhead DEF Ledger!Next
  <2>7. /\ LockInv' /\ BooksInv'
        /\ \A k \in Keys :
             daily[k].used => daily'[k].used /\ daily'[k].start = daily[k].start
    BY <1>i, <2>2, PrepareLocks, PrepareBooks
  <2> QED BY <2>1, <2>3, <2>5, <2>6, <2>7 DEF LedgerInv
<1> QED BY <1>1, <1>2, JobOnService

\* The tables below the command are those of the service.
LEMMA TablesHold == JobSpec => []LedgerInv
<1>1. JobInit => LedgerInv
  BY InitLedger DEF JobInit
<1>2. LedgerInv /\ [JobNext]_allVars => LedgerInv'
  BY TablesStep
<1> QED BY <1>1, <1>2, PTL DEF JobSpec

\* prepare-stat leaves the books of every day balanced: neither its calls nor
\* those that fail half-way overwrite an update of the event handler.
THEOREM JobKeepsBooks == JobSpec => []DiffIsEndMinusStart
<1>1. LedgerInv => DiffIsEndMinusStart
  BY DEF LedgerInv, BooksInv
<1> QED BY <1>1, TablesHold, PTL

\* No call of prepare-stat rewrites the opening stock of a day that has a row.
THEOREM JobKeepsDays == JobSpec => DayStartIsFixed
<1>1. /\ LedgerInv /\ [JobNext]_allVars
      => [\A k \in Keys :
            daily[k].used => daily'[k].used /\ daily'[k].start = daily[k].start]_vars
  BY TablesStep
<1> QED BY <1>1, TablesHold, PTL DEF JobSpec, DayStartIsFixed

\* The job implements the ledger as the service alone does: to it a day that
\* prepare-stat opens is a day opened ahead of its first event.
THEOREM JobKeepsLedger == JobSpec => ImplementsLedger
<1> DEFINE books == <<eventLog, {LogKey(c) : c \in changeLog}, daily>>
<1>1. LedgerInv /\ [JobNext]_allVars => [Ledger!Next]_books
  BY TablesStep DEF Books
<1>2. JobInit => Ledger!Init
  BY InitLedger DEF JobInit
<1> QED BY <1>1, <1>2, TablesHold, PTL DEF JobSpec, ImplementsLedger, Ledger!Spec,
           Ledger!ledger

-----------------------------------------------------------------------------
(* The days of the skus that were sent. *)

\* A step that leaves the consumer and the calls alone keeps their invariant.
LEMMA CallsResting ==
  ASSUME CallInv, UNCHANGED <<prep, batch, prepared>>,
         consumer = "call" => consumer' = "call",
         \A k \in Keys : daily[k].used => daily'[k].used
  PROVE  CallInv'
<1>1. /\ \A s \in prepared' \cap Skus : DayOf(s)'
      /\ \A p \in Preparers, s \in Skus : DayStaged(p, s) => DayStaged(p, s)'
  BY DEF CallInv, DayOf, DayStaged
<1> QED BY <1>1 DEF CallInv

\* The calls that do not take the step.
OthersIdle(p) == \A q \in Preparers \ {p} : prep'[q] = prep[q]

\* A step of the call at work, which the consumer waits for.
LEMMA CallAtWork ==
  ASSUME CallInv, NEW p \in Preparers, OthersIdle(p), prep[p].pc # "idle",
         UNCHANGED <<consumer, batch, prepared, daily>>,
         prep'[p].pc = "select" =>
           batch \cap Skus \subseteq prep'[p].want \cup prep'[p].locked,
         prep'[p].pc = "insert" =>
           \A s \in batch \cap Skus : s \in prep'[p].locked \/ DayStaged(p, s)'
  PROVE  CallInv'
<1>1. \A q \in Preparers \ {p} : prep[q].pc = "idle" /\ prep'[q].pc = "idle"
  BY DEF CallInv, OthersIdle
<1>2. \A s \in prepared' \cap Skus : DayOf(s)'
  BY DEF CallInv, DayOf
<1>3. consumer' = "call"
  BY DEF CallInv
<1> QED BY <1>1, <1>2, <1>3 DEF CallInv

\* The call at work ends: its consumer goes on with an empty batch.
LEMMA CallEnds ==
  ASSUME CallInv, NEW p \in Preparers, OthersIdle(p), prep[p].pc # "idle",
         prep'[p].pc = "idle", GoOn,
         \A s \in prepared' \cap Skus : DayOf(s)'
  PROVE  CallInv'
<1>1. \A q \in Preparers : prep'[q].pc = "idle"
  BY DEF CallInv, OthersIdle
<1> QED BY <1>1 DEF CallInv

\* The steps of the call at work keep what it owes to the ids of its batch.
LEMMA CallStep ==
  ASSUME TypeInv, CallInv, NEW p \in Preparers, UNCHANGED consumerVars,
         LockRow(p) \/ EndSelect(p) \/ InsertDay(p)
  PROVE  CallInv'
<1>t. prep \in [Preparers -> PreparerState] /\ prep[p] \in PreparerState /\ today \in Days
  BY DEF TypeInv, TypeOK, PrepareTypeOK
<1>c. UNCHANGED <<consumer, batch, prepared>>
  BY DEF consumerVars
<1>1. CASE LockRow(p)
  <2>1. PICK s \in prep[p].want :
          prep' = [prep EXCEPT ![p].want = @ \ {s}, ![p].locked = @ \cup {s}]
    BY <1>1 DEF LockRow
  <2> DEFINE one == [prep[p] EXCEPT !.want = @ \ {s}]
             two == [one EXCEPT !.locked = prep[p].locked \cup {s}]
  <2>2. one \in PreparerState /\ one.locked = prep[p].locked
    BY <1>t DEF PreparerState
  <2>3. /\ two.pc = prep[p].pc /\ two.want = prep[p].want \ {s}
        /\ two.locked = prep[p].locked \cup {s}
    BY <1>t DEF PreparerState
  <2>4. prep' = [prep EXCEPT ![p] = two]
    BY <1>t, <2>1, <2>2
  <2> HIDE DEF two
  <2>5. prep'[p] = two /\ OthersIdle(p)
    BY <1>t, <2>4 DEF OthersIdle
  <2>6. prep[p].pc = "select" /\ daily' = daily
    BY <1>1 DEF LockRow
  <2> QED BY <1>c, <2>3, <2>5, <2>6, CallAtWork DEF CallInv
<1>2. CASE EndSelect(p)
  <2>1. /\ prep'[p].pc = "insert" /\ prep'[p].locked = prep[p].locked /\ OthersIdle(p)
    BY <1>2, <1>t DEF EndSelect, PreparerState, OthersIdle
  <2>2. prep[p].pc = "select" /\ prep[p].want = {} /\ daily' = daily
    BY <1>2 DEF EndSelect, tables
  <2>3. batch \cap Skus \subseteq prep'[p].locked
    BY <2>1, <2>2 DEF CallInv
  <2> QED BY <1>c, <2>1, <2>2, <2>3, CallAtWork
<1>3. CASE InsertDay(p)
  <2>1. PICK s \in prep[p].locked :
          prep' = [prep EXCEPT
             ![p].locked = @ \ {s},
             ![p].rows = IF daily[<<today, s, SkuWarehouse[s]>>].used THEN @
                         ELSE [@ EXCEPT ![<<today, s, SkuWarehouse[s]>>] =
                                          PreparedRow(stock[s])]]
    BY <1>3 DEF InsertDay
  <2> DEFINE key == <<today, s, SkuWarehouse[s]>>
             filled == IF daily[key].used THEN prep[p].rows
                       ELSE [prep[p].rows EXCEPT ![key] = PreparedRow(stock[s])]
             one == [prep[p] EXCEPT !.locked = @ \ {s}]
             two == [one EXCEPT !.rows = filled]
  <2>2. one \in PreparerState /\ one.rows = prep[p].rows
    BY <1>t DEF PreparerState
  <2>3. two.pc = prep[p].pc /\ two.locked = prep[p].locked \ {s} /\ two.rows = filled
    <3> HIDE DEF filled
    <3> QED BY <1>t DEF PreparerState
  <2>4. prep' = [prep EXCEPT ![p] = two]
    BY <1>t, <2>1, <2>2
  <2> HIDE DEF two
  <2>5. prep'[p] = two /\ OthersIdle(p)
    BY <1>t, <2>4 DEF OthersIdle
  <2>6. prep[p].pc = "insert" /\ daily' = daily
    BY <1>3 DEF InsertDay, tables
  <2>7. s \in Skus /\ key \in Keys /\ key[2] = s
    BY <1>t, PrepareAssumption DEF PreparerState, Keys
  <2>8. PreparedRow(stock[s]).used
    BY DEF PreparedRow, NewRow
  <2>9. /\ \A k \in Keys : prep[p].rows[k].used => filled[k].used
        /\ daily[key].used \/ filled[key].used
    BY <1>t, <2>7, <2>8 DEF PreparerState
  <2> HIDE DEF filled, key
  <2>10. ASSUME NEW r \in batch \cap Skus
         PROVE  r \in prep'[p].locked \/ DayStaged(p, r)'
    <3>1. CASE r = s
      BY <2>3, <2>5, <2>6, <2>7, <2>9, <3>1 DEF DayStaged
    <3>2. CASE r # s /\ r \in prep[p].locked
      BY <2>3, <2>5, <3>2
    <3>3. CASE r \notin prep[p].locked
      <4>1. DayStaged(p, r)
        BY <2>6, <3>3 DEF CallInv
      <4> QED BY <2>3, <2>5, <2>6, <2>9, <4>1 DEF DayStaged
    <3> QED BY <3>1, <3>2, <3>3
  <2>11. prep'[p].pc = "insert"
    BY <2>3, <2>5, <2>6
  <2> QED BY <1>c, <2>5, <2>6, <2>10, <2>11, CallAtWork
<1> QED BY <1>1, <1>2, <1>3

\* A call begins with the oldest batch, commits the days of its skus, or fails.
LEMMA CallOutcome ==
  ASSUME TypeInv, CallInv, NEW p \in Preparers,
         \/ Receive(p)
         \/ Answered(p)
         \/ AbortPrepare(p) /\ Refused(p)
  PROVE  CallInv'
<1>t. prep \in [Preparers -> PreparerState] /\ prep[p] \in PreparerState
  BY DEF TypeInv, TypeOK, PrepareTypeOK
<1>1. CASE Receive(p)
  <2> DEFINE state == [PrepareIdle EXCEPT !.pc = "select", !.want = Head(skuChan) \cap Skus]
  <2>1. state.pc = "select" /\ state.want = Head(skuChan) \cap Skus
    BY DEF PrepareIdle
  <2>2. prep' = [prep EXCEPT ![p] = state]
    BY <1>1 DEF Receive, BeginPrepare
  <2> HIDE DEF state
  <2>3. prep'[p] = state /\ OthersIdle(p)
    BY <1>t, <2>2 DEF OthersIdle
  <2>4. /\ consumer = "receive" /\ consumer' = "call" /\ batch' = Head(skuChan)
        /\ prepared' = prepared /\ daily' = daily
    BY <1>1 DEF Receive, BeginPrepare, tables
  <2>5. \A q \in Preparers \ {p} : prep'[q].pc = "idle"
    BY <2>3, <2>4 DEF CallInv, OthersIdle
  <2>6. \A s \in prepared' \cap Skus : DayOf(s)'
    BY <2>4 DEF CallInv, DayOf
  <2> QED BY <2>1, <2>3, <2>4, <2>5, <2>6 DEF CallInv
<1>2. CASE Answered(p)
  <2>1. prep' = [prep EXCEPT ![p] = PrepareIdle] /\ prep[p].pc = "insert"
    BY <1>2 DEF Answered, CommitPrepare
  <2>2. prep'[p].pc = "idle" /\ OthersIdle(p)
    BY <1>t, <2>1 DEF OthersIdle, PrepareIdle
  <2>3. /\ prep[p].locked = {}
        /\ \A k \in Keys :
             daily'[k] = IF prep[p].rows[k].used THEN prep[p].rows[k] ELSE daily[k]
    BY <1>2 DEF Answered, CommitPrepare, PublishRows, Visible
  <2>4. \A s \in Skus : DayStaged(p, s) => DayOf(s)'
    BY <2>3 DEF DayStaged, DayOf
  <2>5. \A s \in Skus : DayOf(s) => DayOf(s)'
    BY <2>3 DEF DayOf
  <2>6. \A s \in batch \cap Skus : DayOf(s)'
    BY <2>1, <2>3, <2>4 DEF CallInv
  <2>7. prepared' \subseteq prepared \cup batch
    BY <1>2 DEF Answered, Log
  <2>8. \A s \in prepared' \cap Skus : DayOf(s)'
    BY <2>5, <2>6, <2>7 DEF CallInv
  <2> QED BY <1>2, <2>1, <2>2, <2>8, CallEnds DEF Answered
<1>3. CASE AbortPrepare(p) /\ Refused(p)
  <2>1. prep' = [prep EXCEPT ![p] = PrepareIdle] /\ prep[p].pc # "idle"
    BY <1>3 DEF AbortPrepare
  <2>2. prep'[p].pc = "idle" /\ OthersIdle(p)
    BY <1>t, <2>1 DEF OthersIdle, PrepareIdle
  <2>3. daily' = daily /\ prepared' = prepared
    BY <1>3 DEF AbortPrepare, Refused, Log
  <2>4. \A s \in prepared' \cap Skus : DayOf(s)'
    BY <2>3 DEF CallInv, DayOf
  <2> QED BY <1>3, <2>1, <2>2, <2>4, CallEnds DEF Refused
<1> QED BY <1>1, <1>2, <1>3

\* Every step of the job keeps what the calls owe.
LEMMA CallsOwe ==
  ASSUME LedgerInv, CallInv, [JobNext]_allVars
  PROVE  CallInv'
<1>d. \A k \in Keys : daily[k].used => daily'[k].used
  BY TablesStep
<1>1. ASSUME NEW p \in Preparers, StatNext(p)
      PROVE  CallInv'
  <2>1. CASE (Produce \/ ProducerError) /\ UNCHANGED <<vars, consumerVars>>
    BY <1>d, <2>1, CallsResting DEF vars, prepareVars, consumerVars
  <2>2. CASE (Unreachable \/ ReturnNil) /\ UNCHANGED <<vars, producerVars>>
    BY <1>d, <2>2, CallsResting DEF Unreachable, ReturnNil, Log, vars, prepareVars
  <2>3. CASE Receive(p) \/ Answered(p)
    BY <2>3, CallOutcome DEF LedgerInv
  <2>4. CASE /\ LockRow(p) \/ EndSelect(p) \/ InsertDay(p)
             /\ UNCHANGED <<handlerVars, producerVars, skuChan, consumerVars>>
    BY <2>4, CallStep DEF LedgerInv
  <2>5. CASE AbortPrepare(p) /\ Refused(p)
    BY <2>5, CallOutcome DEF LedgerInv
  <2> QED BY <1>1, <2>1, <2>2, <2>3, <2>4, <2>5 DEF StatNext, AbortPreparer
<1>2. CASE ServiceNext /\ UNCHANGED <<producerVars, skuChan, consumerVars>>
  <2>1. prep' = prep
    BY <1>2 DEF ServiceNext, NextDay, AbortHandler, prepareVars
  <2> QED BY <1>2, <1>d, <2>1, CallsResting DEF consumerVars
<1>3. CASE UNCHANGED allVars
  BY <1>3, <1>d, CallsResting DEF allVars, vars, prepareVars, consumerVars
<1> QED BY <1>1, <1>2, <1>3 DEF JobNext

\* What the calls owe, in every reachable state.
LEMMA CallsHold == JobSpec => [](IdsInv /\ CallInv)
<1>1. JobInit => CallInv
  <2> SUFFICES ASSUME JobInit PROVE CallInv
    OBVIOUS
  <2>1. \A p \in Preparers : prep[p].pc = "idle"
    BY DEF JobInit, Init, PrepareInit, PrepareIdle
  <2> QED BY <2>1 DEF JobInit, StatInit, CallInv
<1>2. LedgerInv /\ CallInv /\ [JobNext]_allVars => CallInv'
  BY CallsOwe
<1> QED BY <1>1, <1>2, IdsHold, TablesHold, PTL DEF JobSpec

\* When prepare-stat returns nil, every sku of its query has a day or was logged
\* with a failed call, but for those its own cursor did not give; and a sku of an
\* answered call has its day at once.
THEOREM ReturnedSkusHaveDayHolds == JobSpec => []ReturnedSkusHaveDay
<1>1. ASSUME IdsInv, CallInv PROVE ReturnedSkusHaveDay
  <2>1. prepared \cap Skus \subseteq {s \in Skus : HasDay(s)}
    <3>1. \A s \in Skus : DayOf(s) => HasDay(s)
      <4> SUFFICES ASSUME NEW s \in Skus, NEW k \in Keys, k[2] = s, daily[k].used
                   PROVE  HasDay(s)
        BY DEF DayOf
      <4>1. k[1] \in Days /\ k[3] \in Warehouses /\ k = <<k[1], s, k[3]>>
        BY DEF Keys
      <4> QED BY <4>1 DEF HasDay
    <3> QED BY <1>1, <3>1 DEF CallInv
  <2>2. ASSUME consumer = "returned"
        PROVE  HistorySkus = prepared \cup failed \cup rows
                               \cup (IF producer = "broken" THEN result ELSE {})
    <3>1. skuChan = <<>> /\ batch = {} /\ (producer # "broken" => result = {})
      BY <1>1, <2>2 DEF IdsInv, LoopInv, BatchInv
    <3>2. Queued(skuChan) = {}
      <4>1. 1 .. Len(skuChan) = {}
        BY <3>1
      <4> QED BY <4>1 DEF Queued
    <3>3. rows \cup result \cup prepared \cup failed = HistorySkus
      BY <1>1, <3>1, <3>2 DEF IdsInv, PlaceInv
    <3> QED BY <3>1, <3>3
  <2> QED BY <2>1, <2>2 DEF ReturnedSkusHaveDay
<1> QED BY <1>1, CallsHold, PTL
=============================================================================
