------------------------- MODULE StockLedger_proofs -------------------------
(***************************************************************************)
(* StockService keeps the promises of StockLedger: the change log has the  *)
(* rows of the recorded events, the difference of a day is the sum over    *)
(* them, and every step of the tables enters one event, opens days or      *)
(* leaves the books alone.                                                 *)
(***************************************************************************)
EXTENDS StockService_proofs

-----------------------------------------------------------------------------
(* The change log has the rows of the recorded events, no more and no less. *)

\* Whatever order its rows come in and whichever day it reads, the call names
\* the same changes, and none when it has no event.
LEMMA OneChangeSet ==
  ASSUME NEW m, NEW tx, NEW type,
         NEW a \in CreateStockChangeLog(Db, m, tx, type),
         NEW b \in CreateStockChangeLog(Db, m, tx, type)
  PROVE  /\ Range(a.changes) = Range(b.changes)
         /\ a.tag # "event" => a.changes = <<>>
<1> DEFINE rows == ChangedRows(Db, tx, type)
           list(order) == [i \in 1 .. Len(order) |-> ChangeOf(Db, m, tx, type, order[i])]
<1>1. IsFiniteSet(rows)
  BY JoinRowsFinite, FS_Subset DEF ChangedRows
<1>2. ASSUME NEW r \in Logged(Db, m, tx, type)
      PROVE  /\ Range(r.changes) = {ChangeOf(Db, m, tx, type, row) : row \in rows}
             /\ r.tag = "event"
  <2>1. PICK day \in TimesOf(Db, tx, type), order \in SetToSeqs(rows) :
          r = StockChange(day, list(order))
    BY DEF Logged
  <2>2. r.changes = list(order) /\ r.tag = "event"
    <3> HIDE DEF list
    <3> QED BY <2>1 DEF StockChange
  <2> HIDE DEF rows
  <2>3. Range(order) = rows /\ DOMAIN order = 1 .. Len(order)
    BY <1>1, <2>1, OrderCovers
  <2>4. rows = {order[i] : i \in 1 .. Len(order)}
    BY <2>3 DEF Range
  <2>5. Range(list(order)) = {ChangeOf(Db, m, tx, type, order[i]) : i \in 1 .. Len(order)}
    BY DEF Range
  <2> QED BY <2>2, <2>4, <2>5
<1> HIDE DEF rows
<1>3. CASE CreateStockChangeLog(Db, m, tx, type) = Logged(Db, m, tx, type)
  BY <1>2, <1>3
<1>4. CASE CreateStockChangeLog(Db, m, tx, type) \in {{Failed}, {Nothing}}
  BY <1>4 DEF Failed, Nothing
<1> QED BY <1>3, <1>4 DEF CreateStockChangeLog

\* So the changes of a message are those of every result of stage two.
LEMMA ChangesFixed ==
  ASSUME NEW m \in Messages, NEW result \in StageTwo(m)
  PROVE  /\ Range(result.changes) = ChangesOf(m)
         /\ result.tag = "nil" => result.changes = <<>>
<1> DEFINE e == Event[m]
           tx == TransferTx(e.kind, Db.transfer[e.ref])
<1>1. ResultOf(m) \in StageTwo(m)
  BY DEF ResultOf
<1>2. CASE e.kind \in DOMAIN DirectType
  <2>1. StageTwo(m) = CreateStockChangeLog(Db, m, e.ref, DirectType[e.kind])
    BY <1>2 DEF StageTwo
  <2> QED BY <1>1, <2>1, OneChangeSet DEF ChangesOf
<1>3. CASE e.kind \notin DOMAIN DirectType /\ e.kind \in DOMAIN TransferType
           /\ e.ref \in DOMAIN Db.transfer
  <2> DEFINE made == CreateStockChangeLog(Db, m, tx, TransferType[e.kind])
  <2>1. StageTwo(m) = {ErrShadowed(r) : r \in made}
    BY <1>3 DEF StageTwo
  <2>2. \A a, b \in made : /\ Range(a.changes) = Range(b.changes)
                           /\ a.tag # "event" => a.changes = <<>>
    BY OneChangeSet
  <2> HIDE DEF made
  <2>3. \A a \in made : ErrShadowed(a).changes = a.changes
                        /\ (ErrShadowed(a).tag = "nil" => a.changes = <<>>)
    BY <2>2 DEF ErrShadowed, Nothing
  <2> QED BY <1>1, <2>1, <2>2, <2>3 DEF ChangesOf
<1>4. CASE e.kind \notin DOMAIN DirectType
           /\ ~(e.kind \in DOMAIN TransferType /\ e.ref \in DOMAIN Db.transfer)
  <2>1. \/ StageTwo(m) = {StockChange(e.day, e.changes)}
        \/ StageTwo(m) = {Failed}
    BY <1>4 DEF StageTwo
  <2> QED BY <1>1, <2>1 DEF ChangesOf, StockChange, Failed
<1> QED BY <1>2, <1>3, <1>4

-----------------------------------------------------------------------------
(* What a list of changes adds to a day. *)

KeyAt(day, c) == <<day, c.sku, c.warehouse>>

\* What the first n changes touch, and what they add to the day k.
TouchedIn(day, changes, n) == {KeyAt(day, changes[i]) : i \in 1 .. n}

PlacesOf(day, changes, n, k) == {i \in 1 .. n : KeyAt(day, changes[i]) = k}

CountsOf(changes) == [i \in 1 .. Len(changes) |-> changes[i].count]

CountIn(day, changes, n, k) == Total(CountsOf(changes), PlacesOf(day, changes, n, k))

\* No change adds nothing, and each adds its own count to its own day.
LEMMA CountSteps ==
  ASSUME NEW day, NEW changes \in Seq(ChangeRecord), NEW k
  PROVE  /\ CountIn(day, changes, 0, k) = 0
         /\ \A n \in 0 .. Len(changes) : CountIn(day, changes, n, k) \in Int
         /\ \A n \in 0 .. Len(changes) :
              k \notin TouchedIn(day, changes, n) => CountIn(day, changes, n, k) = 0
         /\ \A n \in 1 .. Len(changes) :
              CountIn(day, changes, n, k)
                = CountIn(day, changes, n - 1, k)
                    + (IF KeyAt(day, changes[n]) = k THEN changes[n].count ELSE 0)
<1> DEFINE f == CountsOf(changes)
           at(n) == PlacesOf(day, changes, n, k)
<1>1. Len(changes) \in Nat
  OBVIOUS
<1>2. \A i \in 1 .. Len(changes) : f[i] = changes[i].count /\ f[i] \in Int
  <2>1. \A i \in 1 .. Len(changes) : changes[i] \in ChangeRecord
    OBVIOUS
  <2> QED BY <2>1 DEF ChangeRecord, CountsOf
<1>3. \A n \in 0 .. Len(changes) :
        IsFiniteSet(at(n)) /\ at(n) \subseteq 1 .. Len(changes) /\ at(n) \subseteq 1 .. n
  <2> SUFFICES ASSUME NEW n \in 0 .. Len(changes)
               PROVE  IsFiniteSet(at(n)) /\ at(n) \subseteq 1 .. Len(changes)
                      /\ at(n) \subseteq 1 .. n
    OBVIOUS
  <2>1. at(n) \subseteq 1 .. n /\ 1 .. n \subseteq 1 .. Len(changes)
    BY <1>1 DEF PlacesOf
  <2>2. IsFiniteSet(1 .. n)
    BY <1>1, FS_Interval
  <2> QED BY <2>1, <2>2, FS_Subset
<1>4. CountIn(day, changes, 0, k) = 0
  <2>1. at(0) = {}
    BY DEF PlacesOf
  <2> QED BY <2>1, TotalEmpty DEF CountIn
<1>5. ASSUME NEW n \in 0 .. Len(changes)
      PROVE  Total(f, at(n)) \in Int
  <2> HIDE DEF f, at
  <2>1. IsFiniteSet(at(n)) /\ \A i \in at(n) : f[i] \in Int
    BY <1>2, <1>3
  <2> QED BY <2>1, TotalInt
<1>6. ASSUME NEW n \in 1 .. Len(changes)
      PROVE  Total(f, at(n)) = Total(f, at(n - 1))
               + (IF KeyAt(day, changes[n]) = k THEN changes[n].count ELSE 0)
  <2>0. n \in 0 .. Len(changes) /\ n - 1 \in 0 .. Len(changes)
        /\ (\A i : i \in 1 .. n <=> i \in 1 .. n - 1 \/ i = n) /\ n \notin 1 .. n - 1
    BY <1>1
  <2>1. CASE KeyAt(day, changes[n]) = k
    <3>1. n \in at(n) /\ at(n) \ {n} = at(n - 1)
      BY <2>0, <2>1 DEF PlacesOf
    <3> DEFINE all == at(n)
    <3>2. IsFiniteSet(all) /\ n \in all /\ \A i \in all : f[i] \in Int
      BY <1>2, <1>3, <2>0, <3>1
    <3> HIDE DEF f, all
    <3>3. Total(f, all) = f[n] + Total(f, all \ {n})
      BY <3>2, TotalTake
    <3> DEFINE rest == Total(f, all \ {n})
    <3>4. rest = Total(f, at(n - 1)) /\ rest \in Int
      BY <3>1, <2>0, <1>5 DEF all
    <3>5. f[n] = changes[n].count /\ f[n] \in Int
      BY <1>2
    <3> HIDE DEF rest
    <3>6. f[n] + rest = rest + f[n]
      BY <3>4, <3>5
    <3>7. Total(f, all) = rest + changes[n].count
      BY <3>3, <3>5, <3>6 DEF rest
    <3> QED BY <2>1, <3>4, <3>7 DEF all
  <2>2. CASE KeyAt(day, changes[n]) # k
    <3>1. at(n) = at(n - 1)
      BY <2>0, <2>2 DEF PlacesOf
    <3> DEFINE rest == Total(f, at(n - 1))
    <3>2. rest \in Int /\ Total(f, at(n)) = rest
      BY <1>5, <2>0, <3>1
    <3> HIDE DEF rest
    <3>3. rest + 0 = rest
      BY <3>2
    <3> QED BY <2>2, <3>2, <3>3 DEF rest
  <2> QED BY <2>1, <2>2
<1>7. ASSUME NEW n \in 0 .. Len(changes), k \notin TouchedIn(day, changes, n)
      PROVE  CountIn(day, changes, n, k) = 0
  <2>1. at(n) = {}
    BY <1>7 DEF PlacesOf, TouchedIn
  <2> QED BY <2>1, TotalEmpty DEF CountIn
<1> QED BY <1>4, <1>5, <1>6, <1>7 DEF CountIn

\* The fold that defines the contribution of a message is such a sum.
LEMMA CountsTotal ==
  ASSUME NEW cs, NEW at, IsFiniteSet(at), at \subseteq 1 .. Len(cs)
  PROVE  MapThenSumSet(LAMBDA i : cs[i].count, at) = Total(CountsOf(cs), at)
<1> DEFINE f == CountsOf(cs)
           IsFold(g) == g = [s \in SUBSET at |->
                              IF s = {} THEN 0 ELSE cs[Pick(s)].count + g[s \ {Pick(s)}]]
           fold == CHOOSE g : IsFold(g)
<1>1. MapThenSumSet(LAMBDA i : cs[i].count, at) = fold[at]
  BY DEF MapThenSumSet, MapThenFoldSet, Pick
<1>2. ASSUME NEW g
      PROVE  IsFold(g) <=> Adds(f, at, g)
  <2>1. ASSUME NEW s \in SUBSET at, s # {}
        PROVE  cs[Pick(s)].count = f[Pick(s)]
    <3>1. Pick(s) \in 1 .. Len(cs)
      BY <2>1, Picked
    <3> QED BY <3>1 DEF CountsOf
  <2> HIDE DEF f
  <2> QED BY <2>1 DEF Adds
<1>3. PICK g : Adds(f, at, g)
  BY AddsExists
<1> HIDE DEF IsFold
<1>4. IsFold(fold)
  BY <1>2, <1>3
<1>5. Adds(f, at, fold)
  BY <1>2, <1>4
<1> HIDE DEF f, fold
<1>6. Total(f, at) = fold[at]
  BY <1>5, TotalAdds
<1> QED BY <1>1, <1>6 DEF f

\* The changes of the rows in one order, and what the rows add to a day.
ListOf(m, tx, type, order) ==
  [i \in 1 .. Len(order) |-> ChangeOf(Db, m, tx, type, order[i])]

RowSum(tx, type, day, k) ==
  LET rows == ChangedRows(Db, tx, type)
  IN  Total([row \in rows |-> CountOf(row, type)],
            {row \in rows : <<day, row.item.sku, Db.tx[tx].warehouse>> = k})

\* Whatever order its rows come in, an event adds up the same.
LEMMA OrderSum ==
  ASSUME NEW m \in Messages, NEW tx, NEW type, NEW day,
         NEW order \in SetToSeqs(ChangedRows(Db, tx, type)), NEW k
  PROVE  CountIn(day, ListOf(m, tx, type, order), Len(ListOf(m, tx, type, order)), k)
           = RowSum(tx, type, day, k)
<1> DEFINE rows == ChangedRows(Db, tx, type)
           change(row) == ChangeOf(Db, m, tx, type, row)
           cs == [i \in 1 .. Len(order) |-> change(order[i])]
           place(row) == <<day, row.item.sku, Db.tx[tx].warehouse>>
           A == PlacesOf(day, cs, Len(cs), k)
           B == {row \in rows : place(row) = k}
           p == [i \in A |-> order[i]]
           g == [row \in rows |-> CountOf(row, type)]
<1>1. IsFiniteSet(rows)
  BY JoinRowsFinite, FS_Subset DEF ChangedRows
<1>2. /\ Range(order) = rows /\ DOMAIN order = 1 .. Len(order) /\ Len(order) \in Nat
      /\ \A i, j \in 1 .. Len(order) : order[i] = order[j] => i = j
  <2> HIDE DEF rows
  <2> QED BY <1>1, OrderCovers DEF rows
<1>3. \A i \in 1 .. Len(order) : order[i] \in rows
  BY <1>2 DEF Range
<1>4. \A row \in rows : /\ change(row) \in ChangeRecord
                        /\ KeyAt(day, change(row)) = place(row)
                        /\ change(row).count = CountOf(row, type)
  <2>1. \A row \in rows : change(row) \in ChangeRecord
    BY ChangeType
  <2>2. \A row : change(row).count = CountOf(row, type) /\ KeyAt(day, change(row)) = place(row)
    BY DEF ChangeOf, KeyAt
  <2> HIDE DEF change
  <2> QED BY <2>1, <2>2
<1> HIDE DEF change, place, rows
<1>5. Len(cs) = Len(order) /\ \A i \in 1 .. Len(order) : cs[i] = change(order[i])
  <2>1. cs \in [1 .. Len(order) -> ChangeRecord]
    BY <1>3, <1>4
  <2> QED BY <1>2, <2>1
<1>6. IsFiniteSet(A) /\ A \subseteq 1 .. Len(order) /\ IsFiniteSet(B)
  <2>1. A \subseteq 1 .. Len(order)
    BY <1>5 DEF PlacesOf
  <2>2. IsFiniteSet(1 .. Len(order))
    BY <1>2, FS_Interval
  <2>3. B \subseteq rows
    OBVIOUS
  <2> HIDE DEF A, B
  <2> QED BY <1>1, <2>1, <2>2, <2>3, FS_Subset
<1>7. \A i \in 1 .. Len(order) : i \in A <=> place(order[i]) = k
  BY <1>3, <1>4, <1>5 DEF PlacesOf
<1> HIDE DEF A
<1>8. p \in [A -> B] /\ \A i, j \in A : p[i] = p[j] => i = j
  BY <1>2, <1>3, <1>6, <1>7
<1>9. \A row \in B : \E i \in A : p[i] = row
  <2> SUFFICES ASSUME NEW row \in B PROVE \E i \in A : p[i] = row
    OBVIOUS
  <2>1. PICK i \in 1 .. Len(order) : order[i] = row
    BY <1>2 DEF Range
  <2> QED BY <2>1, <1>7
<1> DEFINE f == CountsOf(cs)
<1>10. \A i \in A : f[i] = g[p[i]] /\ f[i] \in Int
  <2> SUFFICES ASSUME NEW i \in A PROVE f[i] = g[p[i]] /\ f[i] \in Int
    OBVIOUS
  <2>1. i \in 1 .. Len(order) /\ order[i] \in rows /\ p[i] = order[i]
    BY <1>3, <1>6
  <2>2. f[i] = change(order[i]).count
    BY <1>5, <2>1 DEF CountsOf
  <2>3. g[order[i]] = CountOf(order[i], type)
    BY <2>1
  <2>4. change(order[i]).count \in Int /\ change(order[i]).count = CountOf(order[i], type)
    BY <1>4, <2>1 DEF ChangeRecord
  <2> HIDE DEF f, g, p
  <2> QED BY <2>1, <2>2, <2>3, <2>4
<1> HIDE DEF f, g, p, B
<1>11. Total(f, A) = Total(g, B)
  <2>1. IsFiniteSet(A) /\ IsFiniteSet(B)
    BY <1>6
  <2>2. p \in [A -> B]
    BY <1>8
  <2>3. \A i, j \in A : p[i] = p[j] => i = j
    BY <1>8
  <2> QED BY <2>1, <2>2, <2>3, <1>9, <1>10, TotalMoved
<1>12. CountIn(day, cs, Len(cs), k) = Total(f, A)
  BY DEF CountIn, f, A
<1>13. cs = ListOf(m, tx, type, order)
  BY DEF ListOf, change
<1>14. Total(g, B) = RowSum(tx, type, day, k)
  BY DEF RowSum, g, B, place, rows
<1> HIDE DEF cs
<1> QED BY <1>11, <1>12, <1>13, <1>14

\* The day of an event that has changes is read off one row.
LEMMA OneDay ==
  ASSUME NEW tx, NEW type, ~ActorAmbiguous(Db, tx, type),
         ChangedRows(Db, tx, type) # {},
         NEW a \in TimesOf(Db, tx, type), NEW b \in TimesOf(Db, tx, type)
  PROVE  a = b
<1>1. CASE type = "ORDER_CANCELED" /\ CancelsOf(Db, tx) # {}
  <2>1. IsFiniteSet(CancelsOf(Db, tx))
    BY DbAssumption, FS_Subset DEF CancelsOf
  <2>2. Cardinality(CancelsOf(Db, tx)) \in Nat /\ ~(Cardinality(CancelsOf(Db, tx)) > 1)
    BY <1>1, <2>1, FS_CardinalityType DEF ActorAmbiguous
  <2>3. \A c, d \in CancelsOf(Db, tx) : c = d
    <3> SUFFICES ASSUME NEW c \in CancelsOf(Db, tx), NEW d \in CancelsOf(Db, tx), c # d
                 PROVE  FALSE
      OBVIOUS
    <3>1. IsFiniteSet({c, d}) /\ Cardinality({c, d}) = 2
      <4>1. IsFiniteSet({c}) /\ Cardinality({c}) = 1
        BY FS_Singleton
      <4>2. {c} \cup {d} = {c, d} /\ d \notin {c}
        OBVIOUS
      <4> QED BY <4>1, <4>2, FS_AddElement
    <3>2. {c, d} \subseteq CancelsOf(Db, tx)
      OBVIOUS
    <3>3. Cardinality({c, d}) <= Cardinality(CancelsOf(Db, tx))
      BY <2>1, <3>2, FS_Subset
    <3> QED BY <2>2, <3>1, <3>3
  <2>4. TimesOf(Db, tx, type) = {c.at : c \in CancelsOf(Db, tx)}
    BY <1>1 DEF TimesOf
  <2> QED BY <2>3, <2>4
<1>2. CASE ~(type = "ORDER_CANCELED" /\ CancelsOf(Db, tx) # {})
  BY <1>2 DEF TimesOf
<1> QED BY <1>1, <1>2

\* So two results of the call that have changes agree on the day and on what
\* they add to it.
LEMMA OneCallSum ==
  ASSUME NEW m \in Messages, NEW tx, NEW type,
         NEW a \in CreateStockChangeLog(Db, m, tx, type), a.changes # <<>>,
         NEW b \in CreateStockChangeLog(Db, m, tx, type), b.changes # <<>>, NEW k
  PROVE  /\ a.day = b.day
         /\ CountIn(a.day, a.changes, Len(a.changes), k)
              = CountIn(b.day, b.changes, Len(b.changes), k)
<1>1. /\ ~ActorAmbiguous(Db, tx, type) /\ ChangedRows(Db, tx, type) # {}
      /\ a \in Logged(Db, m, tx, type) /\ b \in Logged(Db, m, tx, type)
  BY DEF CreateStockChangeLog, Failed, Nothing
<1>2. ASSUME NEW r \in Logged(Db, m, tx, type)
      PROVE  /\ r.day \in TimesOf(Db, tx, type)
             /\ CountIn(r.day, r.changes, Len(r.changes), k) = RowSum(tx, type, r.day, k)
  <2>1. PICK day \in TimesOf(Db, tx, type), order \in SetToSeqs(ChangedRows(Db, tx, type)) :
          r = StockChange(day, ListOf(m, tx, type, order))
    BY DEF Logged, ListOf
  <2>2. r.changes = ListOf(m, tx, type, order) /\ r.day = day
    BY <2>1 DEF StockChange
  <2> QED BY <2>2, OrderSum
<1>3. a.day = b.day
  BY <1>1, <1>2, OneDay
<1> QED BY <1>1, <1>2, <1>3

\* The same holds of the results of stage two.
LEMMA OneResultSum ==
  ASSUME NEW m \in Messages,
         NEW a \in StageTwo(m), a.changes # <<>>,
         NEW b \in StageTwo(m), b.changes # <<>>, NEW k
  PROVE  /\ a.day = b.day
         /\ CountIn(a.day, a.changes, Len(a.changes), k)
              = CountIn(b.day, b.changes, Len(b.changes), k)
<1> DEFINE e == Event[m]
<1>1. CASE e.kind \in DOMAIN DirectType
  <2>1. StageTwo(m) = CreateStockChangeLog(Db, m, e.ref, DirectType[e.kind])
    BY <1>1 DEF StageTwo
  <2> QED BY <2>1, OneCallSum
<1>2. CASE e.kind \notin DOMAIN DirectType /\ e.kind \in DOMAIN TransferType
           /\ e.ref \in DOMAIN Db.transfer
  <2> DEFINE tx == TransferTx(e.kind, Db.transfer[e.ref])
             made == CreateStockChangeLog(Db, m, tx, TransferType[e.kind])
  <2>1. StageTwo(m) = {ErrShadowed(r) : r \in made}
    BY <1>2 DEF StageTwo
  <2>2. ASSUME NEW r \in made, ErrShadowed(r).changes # <<>>
        PROVE  ErrShadowed(r) = r
    BY <2>2 DEF ErrShadowed, Nothing
  <2> HIDE DEF made
  <2>3. a \in made /\ b \in made
    BY <2>1, <2>2
  <2> QED BY <2>3, OneCallSum DEF made
<1>3. CASE e.kind \notin DOMAIN DirectType
           /\ ~(e.kind \in DOMAIN TransferType /\ e.ref \in DOMAIN Db.transfer)
  <2>1. \/ StageTwo(m) = {StockChange(e.day, e.changes)}
        \/ StageTwo(m) = {Failed}
    BY <1>3 DEF StageTwo
  <2>2. a = b
    BY <2>1
  <2> QED BY <2>2
<1> QED BY <1>1, <1>2, <1>3

\* So what a message adds to a day may be read off any result of stage two.
LEMMA DeltaIs ==
  ASSUME NEW m \in Messages, NEW a \in StageTwo(m), NEW k
  PROVE  /\ DeltaOf(m, k) \in Int
         /\ a.changes # <<>> =>
              /\ DeltaOf(m, k) = CountIn(a.day, a.changes, Len(a.changes), k)
              /\ TouchedBy(m) = TouchedIn(a.day, a.changes, Len(a.changes))
         /\ a.changes = <<>> => DeltaOf(m, k) = 0 /\ TouchedBy(m) = {}
<1> DEFINE r == ResultOf(m)
           cs == r.changes
           n == Len(cs)
<1>1. r \in StageTwo(m)
  BY DEF ResultOf
<1> HIDE DEF r
<1>2. /\ cs \in Seq(ChangeRecord) /\ n \in Nat /\ DOMAIN cs = 1 .. n
      /\ a.changes \in Seq(ChangeRecord) /\ DOMAIN a.changes = 1 .. Len(a.changes)
      /\ Len(a.changes) \in Nat
  <2>1. cs \in Seq(ChangeRecord) /\ a.changes \in Seq(ChangeRecord)
    BY <1>1, StageTwoType DEF Results
  <2> QED BY <2>1
<1> DEFINE at == PlacesOf(r.day, cs, n, k)
<1>3. IsFiniteSet(at) /\ at \subseteq 1 .. n
  <2>1. at \subseteq 1 .. n
    BY DEF PlacesOf
  <2>2. IsFiniteSet(1 .. n)
    BY <1>2, FS_Interval
  <2> HIDE DEF at, n
  <2> QED BY <2>1, <2>2, FS_Subset
<1>4. DeltaOf(m, k) = CountIn(r.day, cs, n, k)
  <2>1. at = {i \in DOMAIN cs : DayKey(m, cs[i]) = k}
    BY <1>2 DEF PlacesOf, KeyAt, DayKey, r
  <2>2. DeltaOf(m, k) = MapThenSumSet(LAMBDA i : cs[i].count, at)
    BY <2>1 DEF DeltaOf, r
  <2> HIDE DEF at
  <2>3. MapThenSumSet(LAMBDA i : cs[i].count, at) = Total(CountsOf(cs), at)
    BY <1>3, CountsTotal
  <2> QED BY <2>2, <2>3 DEF CountIn, at
<1>5. Range(cs) = Range(a.changes)
  <2>1. Range(cs) = ChangesOf(m) /\ Range(a.changes) = ChangesOf(m)
    BY <1>1, ChangesFixed
  <2> QED BY <2>1
<1>6. CountIn(r.day, cs, n, k) \in Int
  <2>1. n \in 0 .. n
    BY <1>2
  <2> HIDE DEF cs
  <2> QED BY <1>2, <2>1, CountSteps
<1>7. TouchedBy(m) = {KeyAt(r.day, c) : c \in Range(cs)}
  BY DEF TouchedBy, ChangesOf, DayKey, KeyAt, r
<1>8. ASSUME a.changes # <<>>
      PROVE  /\ CountIn(r.day, cs, n, k) = CountIn(a.day, a.changes, Len(a.changes), k)
             /\ TouchedBy(m) = TouchedIn(a.day, a.changes, Len(a.changes))
  <2>1. cs # <<>>
    <3>1. Len(a.changes) # 0
      BY <1>2, <1>8
    <3>2. 1 \in DOMAIN a.changes
      BY <1>2, <3>1
    <3>3. Range(cs) # {}
      BY <1>5, <3>2 DEF Range
    <3>4. DOMAIN cs # {}
      BY <3>3 DEF Range
    <3> QED BY <3>4
  <2>2. /\ r.day = a.day
        /\ CountIn(r.day, cs, n, k) = CountIn(a.day, a.changes, Len(a.changes), k)
    BY <1>1, <1>8, <2>1, OneResultSum
  <2>3. TouchedBy(m) = {KeyAt(a.day, c) : c \in Range(a.changes)}
    BY <1>5, <1>7, <2>2
  <2>4. Range(a.changes) = {a.changes[i] : i \in 1 .. Len(a.changes)}
    BY <1>2 DEF Range
  <2> QED BY <2>2, <2>3, <2>4 DEF TouchedIn
<1>9. ASSUME a.changes = <<>>
      PROVE  CountIn(r.day, cs, n, k) = 0 /\ TouchedBy(m) = {}
  <2>1. Range(cs) = {}
    <3>1. DOMAIN a.changes = {}
      BY <1>9
    <3> QED BY <1>5, <3>1 DEF Range
  <2>2. n = 0
    <3>1. ~(1 \in DOMAIN cs)
      BY <2>1 DEF Range
    <3> HIDE DEF cs
    <3> QED BY <1>2, <3>1
  <2>3. CountIn(r.day, cs, 0, k) = 0
    <3> HIDE DEF cs
    <3> QED BY <1>2, CountSteps
  <2> QED BY <1>7, <2>1, <2>2, <2>3
<1> QED BY <1>4, <1>6, <1>8, <1>9

DeltasAt(k) == [m \in Messages |-> DeltaOf(m, k)]

\* The sum of DailyCountsEachEventOnce.
Recorded(k, log) == MapThenSumSet(LAMBDA m : DeltaOf(m, k), log)

\* The fold over the recorded messages is such a sum, too.
LEMMA DeltasTotal ==
  ASSUME NEW log, IsFiniteSet(log), log \subseteq Messages, NEW k
  PROVE  Recorded(k, log) = Total(DeltasAt(k), log)
<1> DEFINE f == DeltasAt(k)
           IsFold(g) == g = [s \in SUBSET log |->
                              IF s = {} THEN 0 ELSE DeltaOf(Pick(s), k) + g[s \ {Pick(s)}]]
           fold == CHOOSE g : IsFold(g)
<1>1. Recorded(k, log) = fold[log]
  BY DEF Recorded, MapThenSumSet, MapThenFoldSet, Pick
<1>2. ASSUME NEW g
      PROVE  IsFold(g) <=> Adds(f, log, g)
  <2>1. ASSUME NEW s \in SUBSET log, s # {}
        PROVE  DeltaOf(Pick(s), k) = f[Pick(s)]
    <3>1. Pick(s) \in Messages
      BY <2>1, Picked
    <3> QED BY <3>1 DEF DeltasAt
  <2> HIDE DEF f
  <2> QED BY <2>1 DEF Adds
<1>3. PICK g : Adds(f, log, g)
  BY AddsExists
<1> HIDE DEF IsFold
<1>4. IsFold(fold)
  BY <1>2, <1>3
<1>5. Adds(f, log, fold)
  BY <1>2, <1>4
<1> HIDE DEF f, fold
<1>6. Total(f, log) = fold[log]
  BY <1>5, TotalAdds
<1> QED BY <1>1, <1>6 DEF f

Summed == \A k \in Keys : daily[k].diff = Total(DeltasAt(k), eventLog)

\* DailyCountsEachEventOnce in these terms.
LEMMA CountsSummed ==
  ASSUME IsFiniteSet(eventLog), eventLog \subseteq Messages, Summed
  PROVE  DailyCountsEachEventOnce
<1> SUFFICES ASSUME NEW k \in Keys
             PROVE  daily[k].diff = MapThenSumSet(LAMBDA m : DeltaOf(m, k), eventLog)
  BY DEF DailyCountsEachEventOnce
<1>1. daily[k].diff = Recorded(k, eventLog)
  BY DeltasTotal DEF Summed
<1> QED BY <1>1 DEF Recorded

\* Stage two always returns.
LEMMA StageTwoSome ==
  ASSUME NEW m \in Messages
  PROVE  ResultOf(m) \in StageTwo(m)
<1>1. ASSUME NEW tx, NEW type, ChangedRows(Db, tx, type) # {}
      PROVE  Logged(Db, m, tx, type) # {}
  <2> DEFINE S == ChangedRows(Db, tx, type)
  <2>1. IsFiniteSet(S)
    BY JoinRowsFinite, FS_Subset DEF ChangedRows
  <2> HIDE DEF S
  <2>2. PICK order : order \in SetToSeqs(S)
    BY <2>1, SomeOrder
  <2>3. PICK day : day \in TimesOf(Db, tx, type)
    BY DEF TimesOf
  <2>4. Logged(Db, m, tx, type)
          = {StockChange(d, ListOf(m, tx, type, o)) : d \in TimesOf(Db, tx, type),
                                                      o \in SetToSeqs(S)}
    BY DEF Logged, ListOf, S
  <2>5. StockChange(day, ListOf(m, tx, type, order)) \in Logged(Db, m, tx, type)
    BY <2>2, <2>3, <2>4
  <2> QED BY <2>5
<1>2. \A tx, type : CreateStockChangeLog(Db, m, tx, type) # {}
  BY <1>1 DEF CreateStockChangeLog
<1>3. StageTwo(m) # {}
  BY <1>2 DEF StageTwo
<1> QED BY <1>3 DEF ResultOf

\* What a message adds to a day is an integer, and 0 where it touches nothing.
LEMMA DeltaType ==
  ASSUME NEW m \in Messages, NEW k
  PROVE  DeltaOf(m, k) \in Int /\ (k \notin TouchedBy(m) => DeltaOf(m, k) = 0)
<1> DEFINE r == ResultOf(m)
<1>1. r \in StageTwo(m)
  BY StageTwoSome
<1>2. r.changes \in Seq(ChangeRecord) /\ Len(r.changes) \in 0 .. Len(r.changes)
  <2>1. r.changes \in Seq(ChangeRecord)
    BY <1>1, StageTwoType DEF Results
  <2>2. Len(r.changes) \in Nat
    BY <2>1
  <2> QED BY <2>1, <2>2
<1> HIDE DEF r
<1> DEFINE n == Len(r.changes)
<1>3. k \notin TouchedIn(r.day, r.changes, n) => CountIn(r.day, r.changes, n, k) = 0
  <2> DEFINE cs == r.changes
  <2>1. cs \in Seq(ChangeRecord) /\ n \in 0 .. Len(cs)
    BY <1>2
  <2> HIDE DEF cs, n
  <2>2. \A i \in 0 .. Len(cs) :
          k \notin TouchedIn(r.day, cs, i) => CountIn(r.day, cs, i, k) = 0
    BY <2>1, CountSteps
  <2>3. k \notin TouchedIn(r.day, cs, n) => CountIn(r.day, cs, n, k) = 0
    BY <2>1, <2>2
  <2> QED BY <2>3 DEF cs
<1>4. CASE r.changes # <<>>
  BY <1>1, <1>3, <1>4, DeltaIs
<1>5. CASE r.changes = <<>>
  BY <1>1, <1>5, DeltaIs
<1> QED BY <1>4, <1>5

-----------------------------------------------------------------------------
(* Each day is the sum of the recorded events. *)

\* The rows of a request are those of the first n of its changes: they touch
\* the days, and the difference they stage is the committed one and what these
\* changes add to it.
StagedTo(h, n) ==
  \A k \in Keys :
    /\ txn[h].rows[k].used <=> k \in TouchedIn(txn[h].day, txn[h].changes, n)
    /\ txn[h].rows[k].used =>
         txn[h].rows[k].diff
           = daily[k].diff + CountIn(txn[h].day, txn[h].changes, n, k)

\* Before its commit they are those of the message.
StagedAll(h) ==
  \A k \in Keys :
    /\ txn[h].rows[k].used <=> k \in TouchedBy(txn[h].msg)
    /\ txn[h].rows[k].used =>
         txn[h].rows[k].diff = daily[k].diff + DeltaOf(txn[h].msg, k)

SumTxn(h) ==
  /\ txn[h].pc \in {"create_change_log", "insert_log"} => txn[h].rows = NoRows
  /\ txn[h].pc \in {"insert_log", "lock_sku", "upsert_daily"} =>
       \E result \in StageTwo(txn[h].msg) :
         result.day = txn[h].day /\ result.changes = txn[h].changes
  /\ txn[h].pc \in {"lock_sku", "upsert_daily"} => StagedTo(h, txn[h].next - 1)
  /\ txn[h].pc = "commit" /\ txn[h].claimed => StagedAll(h)

SumInv ==
  /\ Summed
  /\ IsFiniteSet(eventLog)
  /\ \A h \in Handlers : SumTxn(h)

\* What others do does not disturb the staged rows of a request: whoever
\* changes the difference of one of its days would need its lock.
LEMMA SumOthers ==
  ASSUME NEW g \in Handlers, SumTxn(g), txn'[g] = txn[g],
         \A k \in Keys : txn[g].rows[k].used => daily'[k].diff = daily[k].diff
  PROVE  SumTxn(g)'
<1>1. StagedTo(g, txn[g].next - 1) => StagedTo(g, txn[g].next - 1)'
  <2> DEFINE n == txn[g].next - 1
  <2>1. n' = n
    OBVIOUS
  <2> QED BY DEF StagedTo
<1>2. StagedAll(g) => StagedAll(g)'
  BY DEF StagedAll
<1> QED BY <1>1, <1>2 DEF SumTxn

\* Stage two fixes the changes; nothing is staged yet.
LEMMA SumMade ==
  ASSUME TypeInv, OnceInv, NEW h \in Handlers, SumTxn(h), Made(h)
  PROVE  SumTxn(h)'
<1>1. /\ txn[h].pc = "create_change_log" /\ txn'[h].rows = txn[h].rows
      /\ txn'[h].msg = txn[h].msg /\ txn[h].msg \in Messages /\ daily' = daily
  BY GoodTxn DEF Made, Moved, TablesKept, Good
<1>2. txn'[h].rows = NoRows
  BY <1>1 DEF SumTxn
<1>3. PICK result \in StageTwo(txn[h].msg) :
        \/ txn'[h].pc = "commit" /\ (result.tag = "nil" \/ result.changes = <<>>)
        \/ /\ txn'[h].pc = "insert_log"
           /\ txn'[h].changes = result.changes /\ txn'[h].next = 1
           /\ txn'[h].day = result.day
  BY DEF Made
<1>4. CASE txn'[h].pc = "commit" /\ (result.tag = "nil" \/ result.changes = <<>>)
  <2>1. result.changes = <<>>
    BY <1>1, <1>4, ChangesFixed
  <2>2. TouchedBy(txn[h].msg) = {}
    BY <1>1, <2>1, DeltaIs
  <2>3. StagedAll(h)'
    BY <1>1, <1>2, <2>2, NoRowsUnused DEF StagedAll
  <2> QED BY <1>4, <2>3 DEF SumTxn
<1>5. CASE /\ txn'[h].pc = "insert_log"
           /\ txn'[h].changes = result.changes /\ txn'[h].day = result.day
  BY <1>1, <1>2, <1>5 DEF SumTxn
<1> QED BY <1>3, <1>4, <1>5

\* Stage three stages no daily rows.
LEMMA SumInserted ==
  ASSUME TypeInv, NEW h \in Handlers, SumTxn(h), Inserted(h)
  PROVE  SumTxn(h)'
<1>1. /\ txn[h].pc = "insert_log" /\ txn'[h].rows = txn[h].rows
      /\ txn'[h].msg = txn[h].msg /\ daily' = daily
      /\ txn'[h].changes = txn[h].changes /\ txn'[h].day = txn[h].day
      /\ \/ txn'[h].pc = "insert_log"
         \/ txn'[h].pc = "lock_sku" /\ txn'[h].next = 1
  BY DEF Inserted, Logs, Moved, TablesKept
<1>2. txn'[h].rows = NoRows
  BY <1>1 DEF SumTxn
<1>3. \E result \in StageTwo(txn[h].msg) :
        result.day = txn[h].day /\ result.changes = txn[h].changes
  BY <1>1 DEF SumTxn
<1>4. ASSUME txn'[h].next = 1
      PROVE  StagedTo(h, txn[h].next - 1)'
  <2>1. txn'[h].next - 1 = 0
    BY <1>4
  <2>2. \A day, changes : TouchedIn(day, changes, 0) = {}
    BY DEF TouchedIn
  <2> QED BY <1>2, <2>1, <2>2, NoRowsUnused DEF StagedTo
<1> QED BY <1>1, <1>2, <1>3, <1>4 DEF SumTxn

\* Nor does the lock of a sku.
LEMMA SumLocked ==
  ASSUME NEW h \in Handlers, SumTxn(h), Locked(h)
  PROVE  SumTxn(h)'
<1>1. /\ txn[h].pc = "lock_sku" /\ txn'[h].pc = "upsert_daily"
      /\ txn'[h].rows = txn[h].rows /\ txn'[h].msg = txn[h].msg /\ daily' = daily
      /\ txn'[h].changes = txn[h].changes /\ txn'[h].day = txn[h].day
      /\ txn'[h].next = txn[h].next
  BY DEF Locked, Moved, TablesKept
<1>2. StagedTo(h, txn[h].next - 1)'
  <2>1. StagedTo(h, txn[h].next - 1)
    BY <1>1 DEF SumTxn
  <2> QED BY <1>1, <2>1 DEF StagedTo
<1> QED BY <1>1, <1>2 DEF SumTxn

\* The upsert of a change adds its count to its day, once.
LEMMA SumUpserted ==
  ASSUME TypeInv, LockInv, BooksInv, NEW h \in Handlers, SumTxn(h), Upserted(h)
  PROVE  SumTxn(h)'
<1> DEFINE day == txn[h].day
           cs == txn[h].changes
           n == txn[h].next
           key == KeyOf(h)
           seen == Visible(txn[h].rows, key)
           row == UpsertedRow(seen, stock[Change(h).sku], Change(h).count)
           count == cs[n].count
<1>1. /\ txn[h].pc = "upsert_daily" /\ daily' = daily
      /\ txn'[h].rows = [txn[h].rows EXCEPT ![key] = row]
      /\ txn'[h].msg = txn[h].msg /\ txn'[h].changes = cs /\ txn'[h].day = day
      /\ \/ txn'[h].pc = "lock_sku" /\ txn'[h].next = n + 1
         \/ txn'[h].pc = "commit" /\ ~(n < Len(cs))
  BY DEF Upserted, Moved, TablesKept
<1>2. /\ cs \in Seq(ChangeRecord) /\ Len(cs) \in Nat /\ n \in 1 .. Len(cs)
      /\ Change(h) = cs[n] /\ cs[n] \in ChangeRecord /\ count \in Int
      /\ txn[h].msg \in Messages /\ stock[Change(h).sku] \in Int
      /\ txn[h].rows \in [Keys -> Row] /\ daily \in [Keys -> Row]
  <2>1. txn[h] \in HandlerState /\ daily \in [Keys -> Row]
    BY DEF TypeInv, TypeOK, TablesTypeOK, HandlerTypeOK
  <2>2. /\ cs \in Seq(ChangeRecord) /\ n \in 1 .. Len(cs) /\ txn[h].msg \in Messages
        /\ txn[h].rows \in [Keys -> Row]
    BY <1>1, <2>1, GoodTxn DEF Good, HandlerState
  <2>3. cs[n] \in ChangeRecord /\ Len(cs) \in Nat
    BY <2>2
  <2>4. cs[n].count \in Int /\ Change(h) = cs[n]
    BY <2>3 DEF ChangeRecord, Change
  <2>5. Change(h).sku \in Skus
    BY <1>1 DEF LockInv
  <2>6. stock[Change(h).sku] \in Int
    BY <2>5 DEF TypeInv, TypeOK, TablesTypeOK
  <2> QED BY <2>1, <2>2, <2>3, <2>4, <2>6
<1>3. key \in Keys /\ key = KeyAt(day, cs[n])
  <2>1. key \in Keys
    BY <1>1, KeyTyped DEF LockInv
  <2> QED BY <2>1, <1>2 DEF KeyOf, KeyAt
<1>4. StagedTo(h, n - 1)
  BY <1>1 DEF SumTxn
<1>5. PICK result \in StageTwo(txn[h].msg) : result.day = day /\ result.changes = cs
  BY <1>1 DEF SumTxn
<1>6. n - 1 \in 0 .. Len(cs) /\ n \in 0 .. Len(cs)
  BY <1>2
<1> DEFINE old(k) == CountIn(day, cs, n - 1, k)
           new(k) == CountIn(day, cs, n, k)
<1>7. \A k \in Keys :
        /\ old(k) \in Int
        /\ k \notin TouchedIn(day, cs, n - 1) => old(k) = 0
        /\ k = key => new(k) = old(k) + count
        /\ k # key => new(k) = old(k)
  <2> SUFFICES ASSUME NEW k \in Keys
               PROVE  /\ old(k) \in Int
                      /\ k \notin TouchedIn(day, cs, n - 1) => old(k) = 0
                      /\ k = key => new(k) = old(k) + count
                      /\ k # key => new(k) = old(k)
    OBVIOUS
  <2> HIDE DEF cs, n, day, key, count
  <2>1. old(k) \in Int /\ (k \notin TouchedIn(day, cs, n - 1) => old(k) = 0)
    BY <1>2, <1>6, CountSteps
  <2>2. new(k) = old(k) + (IF KeyAt(day, cs[n]) = k THEN cs[n].count ELSE 0)
    BY <1>2, CountSteps
  <2> HIDE DEF old, new
  <2> QED BY <1>3, <2>1, <2>2 DEF count
<1>8. TouchedIn(day, cs, n) = TouchedIn(day, cs, n - 1) \cup {key}
  <2>1. \A i : i \in 1 .. n <=> i \in 1 .. n - 1 \/ i = n
    BY <1>2
  <2> HIDE DEF key
  <2> QED BY <1>3, <2>1 DEF TouchedIn
<1>9. row.used /\ row.diff = daily[key].diff + new(key)
  <2>1. seen \in Row /\ daily[key].diff \in Int /\ count \in Int /\ count = Change(h).count
    BY <1>2, <1>3 DEF Visible, Row
  <2>2. seen.used => row.used /\ row.diff = seen.diff + count
    BY <2>1 DEF UpsertedRow, UpdatedRow, NewRow
  <2>3. ~seen.used => row.used /\ row.diff = count
    BY <2>1 DEF UpsertedRow, InsertedRow, NewRow
  <2>4. old(key) \in Int /\ new(key) = old(key) + count
        /\ (key \notin TouchedIn(day, cs, n - 1) => old(key) = 0)
    BY <1>3, <1>7
  <2>5. CASE txn[h].rows[key].used
    <3>1. seen = txn[h].rows[key] /\ seen.diff = daily[key].diff + old(key)
      BY <1>3, <1>4, <2>5 DEF Visible, StagedTo
    <3> HIDE DEF old, new, seen, row, key, count
    <3> QED BY <2>1, <2>2, <2>4, <2>5, <3>1
  <2>6. CASE ~txn[h].rows[key].used
    <3>1. seen = daily[key] /\ old(key) = 0
      <4>1. key \notin TouchedIn(day, cs, n - 1)
        BY <1>3, <1>4, <2>6 DEF StagedTo
      <4> HIDE DEF old
      <4> QED BY <2>4, <2>6, <4>1 DEF Visible
    <3>2. ~seen.used => daily[key].diff = 0
      <4>1. ~daily[key].used => daily[key] = NoRow
        BY <1>3 DEF BooksInv
      <4> HIDE DEF key
      <4> QED BY <3>1, <4>1 DEF NoRow
    <3> HIDE DEF old, new, seen, row, key, count
    <3> QED BY <2>1, <2>2, <2>3, <2>4, <3>1, <3>2
  <2> QED BY <2>5, <2>6
<1>10. \A k \in Keys : txn'[h].rows[k] = IF k = key THEN row ELSE txn[h].rows[k]
  BY <1>1, <1>2
<1>11. \A k \in Keys :
         /\ txn'[h].rows[k].used <=> k \in TouchedIn(day, cs, n)
         /\ txn'[h].rows[k].used => txn'[h].rows[k].diff = daily[k].diff + new(k)
  <2> HIDE DEF row, new, key, old
  <2>1. \A k \in Keys :
          /\ txn[h].rows[k].used <=> k \in TouchedIn(day, cs, n - 1)
          /\ txn[h].rows[k].used => txn[h].rows[k].diff = daily[k].diff + old(k)
    BY <1>4 DEF StagedTo, old
  <2> QED BY <1>7, <1>8, <1>9, <1>10, <2>1
<1>12. CASE txn'[h].pc = "lock_sku" /\ txn'[h].next = n + 1
  <2>1. txn'[h].next - 1 = n
    BY <1>2, <1>12
  <2>2. StagedTo(h, txn[h].next - 1)'
    BY <1>1, <1>11, <2>1 DEF StagedTo
  <2> QED BY <1>1, <1>5, <1>12, <2>2 DEF SumTxn
<1>13. CASE txn'[h].pc = "commit" /\ ~(n < Len(cs))
  <2>1. n = Len(cs) /\ cs # <<>>
    <3>1. Len(cs) # 0
      BY <1>2
    <3> QED BY <1>2, <1>13, <3>1
  <2>2. TouchedBy(txn[h].msg) = TouchedIn(day, cs, n)
        /\ \A k \in Keys : DeltaOf(txn[h].msg, k) = new(k)
    BY <1>2, <1>5, <2>1, DeltaIs
  <2>3. StagedAll(h)'
    <3> HIDE DEF new
    <3> QED BY <1>1, <1>11, <2>2 DEF StagedAll
  <2> QED BY <1>13, <2>3 DEF SumTxn
<1> QED BY <1>1, <1>12, <1>13

\* A commit enters the message of its request with all it adds, or nothing.
LEMMA SumCommitted ==
  ASSUME TypeInv, LockInv, OnceInv, SumInv, NEW h \in Handlers, Committed(h)
  PROVE  SumInv'
<1> DEFINE m == txn[h].msg
           log == eventLog
<1>1. /\ txn[h].pc = "commit" /\ txn'[h].pc = "reply"
      /\ eventLog' = IF txn[h].claimed THEN eventLog \cup {m} ELSE eventLog
      /\ \A k \in Keys :
           daily'[k] = IF txn[h].rows[k].used THEN txn[h].rows[k] ELSE daily[k]
      /\ \A g \in Handlers \ {h} : txn'[g] = txn[g]
      /\ eventLog \subseteq Messages
  BY DEF Committed, OthersKept, PublishRows, Visible, TypeInv, TypeOK, HandlerTypeOK
<1>2. \A g \in Handlers : SumTxn(g)'
  <2>1. SumTxn(h)'
    BY <1>1 DEF SumTxn
  <2>2. ASSUME NEW g \in Handlers \ {h}
        PROVE  SumTxn(g)'
    <3>1. \A k \in Keys : txn[g].rows[k].used => ~txn[h].rows[k].used
      BY DEF LockInv, StagedRowsLocked
    <3>2. \A k \in Keys : txn[g].rows[k].used => daily'[k].diff = daily[k].diff
      BY <1>1, <3>1
    <3> QED BY <1>1, <3>2, SumOthers DEF SumInv
  <2> QED BY <2>1, <2>2
<1>3. CASE ~txn[h].claimed
  <2>1. eventLog' = eventLog /\ \A k \in Keys : daily'[k] = daily[k]
    BY <1>1, <1>3, NoRowsUnused DEF OnceInv
  <2> QED BY <1>2, <2>1 DEF SumInv, Summed
<1>4. CASE txn[h].claimed
  <2>1. m \in Messages /\ m \notin log /\ eventLog' = log \cup {m}
    BY <1>1, <1>4, GoodTxn DEF OnceInv, Good
  <2>2. IsFiniteSet(log) /\ log \subseteq Messages
    BY <1>1 DEF SumInv
  <2>3. IsFiniteSet(log \cup {m}) /\ log \cup {m} \subseteq Messages
    BY <2>1, <2>2, FS_AddElement
  <2>4. ASSUME NEW k \in Keys
        PROVE  Total(DeltasAt(k), log \cup {m}) = DeltaOf(m, k) + Total(DeltasAt(k), log)
               /\ DeltaOf(m, k) \in Int /\ Total(DeltasAt(k), log) \in Int
    <3> DEFINE f == DeltasAt(k)
               more == log \cup {m}
    <3>1. \A x \in Messages : f[x] = DeltaOf(x, k) /\ f[x] \in Int
      BY DeltaType DEF DeltasAt
    <3>2. more \ {m} = log /\ m \in more
      BY <2>1
    <3> HIDE DEF f, more, m, log
    <3>3. IsFiniteSet(more) /\ \A x \in more : f[x] \in Int
      BY <2>3, <3>1 DEF more
    <3>4. Total(f, more) = f[m] + Total(f, more \ {m})
      BY <3>2, <3>3, TotalTake
    <3>5. Total(f, log) \in Int
      BY <2>2, <3>1, TotalInt
    <3> QED BY <2>1, <3>1, <3>2, <3>4, <3>5 DEF f, more
  <2>5. \A k \in Keys : daily[k].diff = Total(DeltasAt(k), log)
    BY DEF SumInv, Summed
  <2>6. StagedAll(h)
    BY <1>1, <1>4 DEF SumInv, SumTxn
  <2>7. ASSUME NEW k \in Keys
        PROVE  daily'[k].diff = Total(DeltasAt(k), log \cup {m})
    <3> DEFINE old == Total(DeltasAt(k), log)
               new == Total(DeltasAt(k), log \cup {m})
               more == DeltaOf(m, k)
    <3>1. new = more + old /\ more \in Int /\ old \in Int /\ daily[k].diff = old
      BY <2>4, <2>5
    <3>2. daily'[k].diff = daily[k].diff + more \/ (more = 0 /\ daily'[k] = daily[k])
      <4>1. CASE txn[h].rows[k].used
        BY <1>1, <2>6, <4>1 DEF StagedAll
      <4>2. CASE ~txn[h].rows[k].used
        <5>1. daily'[k] = daily[k] /\ k \notin TouchedBy(m)
          BY <1>1, <2>6, <4>2 DEF StagedAll
        <5>2. DeltaOf(m, k) = 0
          BY <2>1, <5>1, DeltaType
        <5> QED BY <5>1, <5>2
      <4> QED BY <4>1, <4>2
    <3> HIDE DEF old, new, more
    <3>3. daily'[k].diff = new
      BY <3>1, <3>2
    <3> QED BY <3>3 DEF new
  <2>8. Summed'
    BY <2>1, <2>7 DEF Summed
  <2> QED BY <1>2, <2>1, <2>3, <2>8 DEF SumInv
<1> QED BY <1>3, <1>4

\* No step of the handler that commits nothing disturbs the sums.
LEMMA SumMoves ==
  ASSUME TypeInv, LockInv, BooksInv, OnceInv, SumInv, NEW h \in Handlers,
         HandlerEffect(h), ~Committed(h)
  PROVE  SumInv'
<1>1. /\ eventLog' = eventLog /\ daily' = daily
      /\ \A g \in Handlers \ {h} : txn'[g] = txn[g]
  BY DEF HandlerEffect, Delivered, RolledBack, Acked, Skipped, Claimed, Made, Inserted,
         Logs, Locked, Upserted, Moved, TablesKept, OthersKept
<1>2. \A g \in Handlers : SumTxn(g)
  BY DEF SumInv
<1>3. \A g \in Handlers \ {h} : SumTxn(g)'
  BY <1>1, <1>2, SumOthers
<1>4. SumTxn(h)'
  <2>1. CASE Delivered(h) \/ RolledBack(h) \/ Acked(h)
    <3>1. txn'[h].pc \in {"dedup", "idle"}
      BY <2>1 DEF Delivered, RolledBack, Acked
    <3> QED BY <3>1 DEF SumTxn
  <2>2. CASE Skipped(h) \/ Claimed(h)
    <3>1. txn[h].pc = "dedup" /\ txn'[h].rows = txn[h].rows
          /\ \/ txn'[h].pc = "commit" /\ txn'[h].claimed = txn[h].claimed
             \/ txn'[h].pc = "create_change_log"
      BY <2>2 DEF Skipped, Claimed, Moved
    <3>2. ~txn[h].claimed /\ txn[h].rows = NoRows
      BY <3>1 DEF OnceInv, Working
    <3> QED BY <3>1, <3>2 DEF SumTxn
  <2>3. CASE Made(h)
    BY <1>2, <2>3, SumMade
  <2>4. CASE Inserted(h)
    BY <1>2, <2>4, SumInserted
  <2>5. CASE Locked(h)
    BY <1>2, <2>5, SumLocked
  <2>6. CASE Upserted(h)
    BY <1>2, <2>6, SumUpserted
  <2> QED BY <2>1, <2>2, <2>3, <2>4, <2>5, <2>6 DEF HandlerEffect
<1> QED BY <1>1, <1>3, <1>4 DEF SumInv, Summed

\* PrepareSkus moves no difference and enters no event.
LEMMA SumPrepared ==
  ASSUME TypeInv, LockInv, BooksInv, SumInv, NEW p \in Preparers, PrepareEffect(p)
  PROVE  SumInv'
<1>1. UNCHANGED <<txn, eventLog>> /\ \A k \in Keys : daily'[k].diff = daily[k].diff
  BY PrepareBooks DEF PrepareEffect, Begun, RowLocked, Selected, DayInserted, Ended, CallsKept
<1>2. \A h \in Handlers : SumTxn(h)'
  BY <1>1, SumOthers DEF SumInv
<1> QED BY <1>1, <1>2 DEF SumInv, Summed

\* Every step keeps the days at the sums of the recorded events.
LEMMA SumStep ==
  ASSUME TypeInv, LockInv, BooksInv, OnceInv, SumInv, [Next]_vars
  PROVE  SumInv'
<1>1. ASSUME NoEffect
      PROVE  SumInv'
  <2>1. UNCHANGED <<txn, eventLog, daily>>
    BY <1>1 DEF NoEffect
  <2>2. \A h \in Handlers : SumTxn(h)'
    BY <2>1, SumOthers DEF SumInv
  <2> QED BY <2>1, <2>2 DEF SumInv, Summed
<1>2. ASSUME NEW h \in Handlers, HandlerEffect(h)
      PROVE  SumInv'
  BY <1>2, SumCommitted, SumMoves
<1> QED BY <1>1, <1>2, SumPrepared, Effects

\* Empty days are the sums of no events.
LEMMA InitSums == Init => SumInv
<1> SUFFICES ASSUME Init PROVE SumInv
  OBVIOUS
<1>1. eventLog = {} /\ daily = NoRows /\ \A h \in Handlers : txn[h] = Idle
  BY DEF Init, TablesInit, HandlerInit
<1>2. IsFiniteSet({})
  BY FS_EmptySet
<1>4. Summed
  BY <1>1, TotalEmpty, NoRowsUnused DEF Summed, NoRow
<1>5. \A h \in Handlers : SumTxn(h)
  BY <1>1 DEF SumTxn, Idle
<1> QED BY <1>1, <1>2, <1>4, <1>5 DEF SumInv

\* The sums hold in every reachable state.
LEMMA SumsHold == Spec => [](TypeInv /\ LockInv /\ BooksInv /\ OnceInv /\ SumInv)
<1>1. TypeInv /\ LockInv /\ BooksInv /\ OnceInv /\ SumInv /\ [Next]_vars => SumInv'
  BY SumStep
<1> QED BY <1>1, InitSums, BooksHold, OnceHolds, PTL DEF Spec

\* The difference of a day is the sum of what the recorded events add to it, for
\* any messages and tables: duplicates, concurrent upserts of one day, failures
\* and PrepareSkus calls count no event twice and lose none.
THEOREM DailyCountsEachEventOnceHolds == Spec => []DailyCountsEachEventOnce
<1>1. TypeInv /\ SumInv => DailyCountsEachEventOnce
  BY CountsSummed DEF SumInv, TypeInv, TypeOK, HandlerTypeOK
<1> QED BY <1>1, SumsHold, PTL

-----------------------------------------------------------------------------
(* The change log along the chain. *)

\* The change log has the keys of the recorded events.  A transaction has staged
\* keys of its own event only; in the loop of stage three those behind it are
\* stored or staged, and after the loop all of them are.
Stored(h, key) == \E c \in changeLog \cup txn[h].log : LogKey(c) = key

WholeInv ==
  /\ ChangeLogMatchesEventLog
  /\ \A h \in Handlers :
       /\ \A c \in txn[h].log : LogKey(c) \in LogKeysOf(txn[h].msg)
       /\ txn[h].pc = "create_change_log" => txn[h].log = {}
       /\ txn[h].pc = "insert_log" =>
            /\ LogKeysOf(txn[h].msg)
                 = {LogKey(txn[h].changes[i]) : i \in 1 .. Len(txn[h].changes)}
            /\ \A i \in 1 .. txn[h].next - 1 : Stored(h, LogKey(txn[h].changes[i]))
       /\ \/ txn[h].pc \in {"lock_sku", "upsert_daily"}
          \/ txn[h].pc = "commit" /\ txn[h].claimed
          => \A key \in LogKeysOf(txn[h].msg) : Stored(h, key)

\* The keys of a list of changes.
KeysIn(changes) == {LogKey(changes[i]) : i \in 1 .. Len(changes)}

\* Stage two hands stage three the keys of the message.
LEMMA MadeKeys ==
  ASSUME NEW m \in Messages, NEW result \in StageTwo(m)
  PROVE  /\ result.changes \in Seq(ChangeRecord) => LogKeysOf(m) = KeysIn(result.changes)
         /\ result.tag = "nil" \/ result.changes = <<>> => LogKeysOf(m) = {}
<1>1. Range(result.changes) = ChangesOf(m)
  BY ChangesFixed
<1>2. ASSUME result.changes \in Seq(ChangeRecord)
      PROVE  LogKeysOf(m) = KeysIn(result.changes)
  <2>1. DOMAIN result.changes = 1 .. Len(result.changes)
    BY <1>2
  <2>2. ChangesOf(m) = {result.changes[i] : i \in 1 .. Len(result.changes)}
    BY <1>1, <2>1 DEF Range
  <2> QED BY <2>2 DEF LogKeysOf, KeysIn
<1>3. ASSUME result.changes = <<>>
      PROVE  LogKeysOf(m) = {}
  <2>1. DOMAIN result.changes = {}
    BY <1>3
  <2>2. ChangesOf(m) = {}
    BY <1>1, <2>1 DEF Range
  <2> QED BY <2>2 DEF LogKeysOf
<1> QED BY <1>2, <1>3, ChangesFixed

\* A key that is stored or staged stays so until its transaction ends.
LEMMA StoredStays ==
  ASSUME NEW h \in Handlers, changeLog \subseteq changeLog',
         txn[h].log \subseteq txn'[h].log
  PROVE  \A key : Stored(h, key) => Stored(h, key)'
BY DEF Stored

\* The part of WholeInv about one request.
WholeTxn(h) ==
  /\ \A c \in txn[h].log : LogKey(c) \in LogKeysOf(txn[h].msg)
  /\ txn[h].pc = "create_change_log" => txn[h].log = {}
  /\ txn[h].pc = "insert_log" =>
       /\ LogKeysOf(txn[h].msg)
            = {LogKey(txn[h].changes[i]) : i \in 1 .. Len(txn[h].changes)}
       /\ \A i \in 1 .. txn[h].next - 1 : Stored(h, LogKey(txn[h].changes[i]))
  /\ \/ txn[h].pc \in {"lock_sku", "upsert_daily"}
     \/ txn[h].pc = "commit" /\ txn[h].claimed
     => \A key \in LogKeysOf(txn[h].msg) : Stored(h, key)

\* WholeInv request by request.
LEMMA WholeParts ==
  WholeInv <=> ChangeLogMatchesEventLog /\ \A h \in Handlers : WholeTxn(h)
BY DEF WholeInv, WholeTxn

\* Nobody else's request is disturbed: the stored keys only grow.
LEMMA WholeOthers ==
  ASSUME NEW g \in Handlers, WholeTxn(g), txn'[g] = txn[g], changeLog \subseteq changeLog'
  PROVE  WholeTxn(g)'
<1>1. \A key : Stored(g, key) => Stored(g, key)'
  BY StoredStays
<1> QED BY <1>1 DEF WholeTxn

\* A step of a request's own transaction, which commits nothing.
LEMMA WholeMoves ==
  ASSUME TypeInv, OnceInv, NEW h \in Handlers, WholeTxn(h),
         \/ Delivered(h) \/ RolledBack(h) \/ Acked(h) \/ Skipped(h) \/ Claimed(h)
         \/ Made(h) \/ Inserted(h) \/ Locked(h) \/ Upserted(h)
  PROVE  WholeTxn(h)'
<1>t. /\ txn[h].changes \in Seq(ChangeRecord) /\ txn[h].next \in Nat \ {0}
  BY DEF TypeInv, TypeOK, HandlerTypeOK, HandlerState
<1>1. CASE Delivered(h) \/ RolledBack(h) \/ Acked(h)
  <2>1. txn'[h].log = {} /\ txn'[h].pc \in {"dedup", "idle"}
    BY <1>1 DEF Delivered, RolledBack, Acked, Fresh
  <2> QED BY <2>1 DEF WholeTxn
<1>2. CASE Skipped(h) \/ Claimed(h)
  <2>1. ~txn[h].claimed /\ txn[h].log = {}
    <3>1. txn[h].pc = "dedup"
      BY <1>2 DEF Skipped, Claimed
    <3> QED BY <3>1 DEF OnceInv, Working
  <2>2. /\ txn'[h].log = {} /\ txn'[h].msg = txn[h].msg
        /\ \/ txn'[h].pc = "commit" /\ ~txn'[h].claimed
           \/ txn'[h].pc = "create_change_log"
    BY <1>2, <2>1 DEF Skipped, Claimed, Moved
  <2> QED BY <2>2 DEF WholeTxn
<1>3. CASE Made(h)
  <2>1. /\ txn'[h].log = txn[h].log /\ txn'[h].msg = txn[h].msg
        /\ txn[h].pc = "create_change_log" /\ txn[h].msg \in Messages
    BY <1>3, GoodTxn DEF Made, Moved, Good
  <2>2. txn'[h].log = {}
    BY <2>1 DEF WholeTxn
  <2>3. PICK result \in StageTwo(txn[h].msg) :
          \/ txn'[h].pc = "commit" /\ (result.tag = "nil" \/ result.changes = <<>>)
          \/ /\ txn'[h].pc = "insert_log"
             /\ txn'[h].changes = result.changes /\ txn'[h].next = 1
    BY <1>3 DEF Made
  <2>4. result.changes \in Seq(ChangeRecord)
    BY <2>1, StageTwoType DEF Results
  <2>5. CASE txn'[h].pc = "commit" /\ (result.tag = "nil" \/ result.changes = <<>>)
    <3>1. LogKeysOf(txn[h].msg) = {}
      BY <2>1, <2>5, MadeKeys
    <3> QED BY <2>1, <2>2, <2>5, <3>1 DEF WholeTxn
  <2>6. CASE /\ txn'[h].pc = "insert_log"
             /\ txn'[h].changes = result.changes /\ txn'[h].next = 1
    <3>1. LogKeysOf(txn[h].msg) = KeysIn(txn'[h].changes)
      BY <2>1, <2>4, <2>6, MadeKeys
    <3>2. 1 .. txn'[h].next - 1 = {}
      BY <2>6
    <3> QED BY <2>1, <2>2, <2>6, <3>1, <3>2 DEF WholeTxn, KeysIn
  <2> QED BY <2>3, <2>5, <2>6
<1>4. CASE Inserted(h)
  <2>1. /\ txn[h].pc = "insert_log" /\ txn'[h].changes = txn[h].changes
        /\ txn'[h].msg = txn[h].msg /\ changeLog' = changeLog
        /\ \/ txn'[h].pc = "insert_log" /\ txn'[h].next = txn[h].next + 1
           \/ txn'[h].pc = "lock_sku" /\ ~(txn[h].next < Len(txn[h].changes))
        /\ \/ txn'[h].log = txn[h].log /\ Holds(changeLog \cup txn[h].log, Change(h))
           \/ txn'[h].log = txn[h].log \cup {Change(h)}
    BY <1>4 DEF Inserted, Logs, Moved, TablesKept
  <2>2. /\ txn[h].next \in 1 .. Len(txn[h].changes) /\ Len(txn[h].changes) \in Nat
        /\ Change(h) = txn[h].changes[txn[h].next]
    BY <2>1, <1>t, ChangeTyped DEF Change
  <2>3. LogKeysOf(txn[h].msg)
          = {LogKey(txn[h].changes[i]) : i \in 1 .. Len(txn[h].changes)}
    BY <2>1 DEF WholeTxn
  <2> DEFINE after(key) == \E c \in changeLog' \cup txn'[h].log : LogKey(c) = key
  <2>4. \A key : Stored(h, key) => after(key)
    BY <2>1 DEF Stored
  <2>5. after(LogKey(txn[h].changes[txn[h].next]))
    BY <2>1, <2>2 DEF Holds
  <2>s. \A key : after(key) <=> Stored(h, key)'
    BY DEF Stored
  <2> HIDE DEF after
  <2>6. \A i \in 1 .. txn[h].next : after(LogKey(txn[h].changes[i]))
    <3>1. \A i \in 1 .. txn[h].next : i = txn[h].next \/ i \in 1 .. txn[h].next - 1
      BY <2>2
    <3>2. \A i \in 1 .. txn[h].next - 1 : Stored(h, LogKey(txn[h].changes[i]))
      BY <2>1 DEF WholeTxn
    <3> QED BY <2>4, <2>5, <3>1, <3>2
  <2>7. \A c \in txn'[h].log : LogKey(c) \in LogKeysOf(txn[h].msg)
    BY <2>1, <2>2, <2>3 DEF WholeTxn
  <2>8. CASE txn'[h].pc = "insert_log" /\ txn'[h].next = txn[h].next + 1
    <3>1. txn'[h].next - 1 = txn[h].next
      BY <2>8, <1>t
    <3>2. \A i \in 1 .. txn'[h].next - 1 : Stored(h, LogKey(txn[h].changes[i]))'
      BY <2>1, <2>6, <2>s, <3>1
    <3> QED BY <2>1, <2>3, <2>7, <2>8, <3>2 DEF WholeTxn
  <2>9. CASE txn'[h].pc = "lock_sku" /\ ~(txn[h].next < Len(txn[h].changes))
    <3>1. txn[h].next = Len(txn[h].changes)
      BY <2>2, <2>9
    <3>2. \A key \in LogKeysOf(txn[h].msg) : after(key)
      BY <2>3, <2>6, <3>1
    <3> QED BY <2>1, <2>7, <2>9, <2>s, <3>2 DEF WholeTxn
  <2> QED BY <2>1, <2>8, <2>9
<1>5. CASE Locked(h) \/ Upserted(h)
  <2>1. /\ txn[h].pc \in {"lock_sku", "upsert_daily"}
        /\ txn'[h].pc \in {"lock_sku", "upsert_daily", "commit"}
        /\ txn'[h].log = txn[h].log /\ txn'[h].msg = txn[h].msg
        /\ changeLog' = changeLog
    BY <1>5 DEF Locked, Upserted, Moved, TablesKept
  <2>2. \A key : Stored(h, key) => Stored(h, key)'
    BY <2>1 DEF Stored
  <2> QED BY <2>1, <2>2 DEF WholeTxn
<1> QED BY <1>1, <1>2, <1>3, <1>4, <1>5

\* A commit records the message with all of its keys, or changes nothing.
LEMMA WholeCommit ==
  ASSUME TypeInv, OnceInv, NEW h \in Handlers, WholeTxn(h), ChangeLogMatchesEventLog,
         Committed(h)
  PROVE  ChangeLogMatchesEventLog' /\ WholeTxn(h)'
<1>c. /\ txn[h].pc = "commit" /\ txn'[h].pc = "reply" /\ txn'[h].log = {}
      /\ changeLog' = changeLog \cup txn[h].log
      /\ eventLog' = IF txn[h].claimed THEN eventLog \cup {txn[h].msg} ELSE eventLog
  BY DEF Committed, Fresh
<1>1. CASE txn[h].claimed
  <2> DEFINE m == txn[h].msg
  <2>1. \A key \in LogKeysOf(m) : \E c \in changeLog' : LogKey(c) = key
    BY <1>1, <1>c DEF WholeTxn, Stored
  <2>2. \A c \in txn[h].log : LogKey(c) \in LogKeysOf(m)
    BY DEF WholeTxn
  <2>3. {LogKey(c) : c \in changeLog'} = {LogKey(c) : c \in changeLog} \cup LogKeysOf(m)
    BY <1>c, <2>1, <2>2
  <2>4. UNION {LogKeysOf(k) : k \in eventLog'}
          = (UNION {LogKeysOf(k) : k \in eventLog}) \cup LogKeysOf(m)
    BY <1>1, <1>c
  <2> QED BY <1>c, <2>3, <2>4 DEF ChangeLogMatchesEventLog, WholeTxn
<1>2. CASE ~txn[h].claimed
  <2>1. txn[h].log = {}
    BY <1>2 DEF OnceInv
  <2> QED BY <1>2, <1>c, <2>1 DEF ChangeLogMatchesEventLog, WholeTxn
<1> QED BY <1>1, <1>2

\* Every step keeps the change log whole.
LEMMA WholeStep ==
  ASSUME TypeInv, OnceInv, WholeInv, [Next]_vars
  PROVE  WholeInv'
<1>w. ChangeLogMatchesEventLog /\ \A h \in Handlers : WholeTxn(h)
  BY WholeParts
<1>1. CASE UNCHANGED <<txn, changeLog, eventLog>>
  BY <1>1 DEF WholeInv, ChangeLogMatchesEventLog, Stored
<1>2. ASSUME NEW h \in Handlers, HandlerEffect(h)
      PROVE  WholeInv'
  <2>1. \A g \in Handlers \ {h} : txn'[g] = txn[g]
    BY <1>2 DEF HandlerEffect, Delivered, RolledBack, Acked, Skipped, Claimed, Made,
                Inserted, Logs, Locked, Upserted, Committed, Moved, OthersKept
  <2>2. changeLog \subseteq changeLog'
    BY <1>2 DEF HandlerEffect, Delivered, RolledBack, Acked, Skipped, Claimed, Made,
                Inserted, Logs, Locked, Upserted, Committed, Moved, TablesKept
  <2>3. \A g \in Handlers \ {h} : WholeTxn(g)'
    BY <1>w, <2>1, <2>2, WholeOthers
  <2>4. ChangeLogMatchesEventLog' /\ WholeTxn(h)'
    <3>1. CASE Committed(h)
      BY <3>1, <1>w, WholeCommit
    <3>2. CASE ~Committed(h)
      <4>1. changeLog' = changeLog /\ eventLog' = eventLog
        BY <1>2, <3>2 DEF HandlerEffect, Delivered, RolledBack, Acked, Skipped, Claimed,
                          Made, Inserted, Logs, Locked, Upserted, Moved, TablesKept
      <4>2. WholeTxn(h)'
        BY <1>2, <1>w, <3>2, WholeMoves DEF HandlerEffect
      <4> QED BY <1>w, <4>1, <4>2 DEF ChangeLogMatchesEventLog
    <3> QED BY <3>1, <3>2
  <2>5. ChangeLogMatchesEventLog' /\ \A g \in Handlers : WholeTxn(g)'
    BY <2>3, <2>4
  <2> QED BY <2>5 DEF WholeInv, WholeTxn
<1>3. ASSUME NEW p \in Preparers, PrepareEffect(p)
      PROVE  UNCHANGED <<txn, changeLog, eventLog>>
  BY <1>3 DEF PrepareEffect, Begun, RowLocked, Selected, DayInserted, Ended, CallsKept
<1>4. NoEffect => UNCHANGED <<txn, changeLog, eventLog>>
  BY DEF NoEffect
<1> QED BY <1>1, <1>2, <1>3, <1>4, Effects

\* No events, no rows.
LEMMA InitWhole == Init => WholeInv
<1> SUFFICES ASSUME Init PROVE WholeInv
  OBVIOUS
<1>1. changeLog = {} /\ eventLog = {} /\ \A h \in Handlers : txn[h] = Idle
  BY DEF Init, HandlerInit
<1>2. Idle.log = {} /\ Idle.pc = "idle"
  BY DEF Idle
<1> QED BY <1>1, <1>2 DEF WholeInv, ChangeLogMatchesEventLog

\* The change log is whole in every reachable state.
LEMMA WholeHolds == Spec => [](TypeInv /\ OnceInv /\ WholeInv)
<1>1. TypeInv /\ OnceInv /\ WholeInv /\ [Next]_vars => WholeInv'
  BY WholeStep
<1> QED BY <1>1, InitWhole, OnceHolds, PTL DEF Spec

\* stock_change_logs has the rows of the recorded events and no others, for any
\* messages and tables: whatever order the rows come in, whichever requests meet
\* at a key, and wherever a transaction fails, an event is recorded with all of
\* its rows, and no row is there without its event.
THEOREM ChangeLogMatchesEventLogHolds == Spec => []ChangeLogMatchesEventLog
<1>1. WholeInv => ChangeLogMatchesEventLog
  BY DEF WholeInv
<1> QED BY <1>1, WholeHolds, PTL

-----------------------------------------------------------------------------
(* The ledger. *)

LedgerInv == TypeInv /\ LockInv /\ BooksInv /\ OnceInv /\ SumInv /\ WholeInv

\* A commit with a claim enters its message: the keys of all its rows, and on
\* each of its days what it adds, at the opening stock the day has or gets.
LEMMA EnteredAtOnce ==
  ASSUME LedgerInv, NEW h \in Handlers, Committed(h), txn[h].claimed
  PROVE  /\ txn[h].msg \in Messages
         /\ Ledger!Record(txn[h].msg)
<1> DEFINE m == txn[h].msg
<1>1. /\ txn[h].pc = "commit" /\ eventLog' = eventLog \cup {m}
      /\ daily' = PublishRows(txn[h].rows)
  BY DEF Committed
<1>2. m \in Messages /\ m \notin eventLog
  BY <1>1, GoodTxn DEF OnceInv, Good, LedgerInv
<1>3. {LogKey(c) : c \in changeLog'} = {LogKey(c) : c \in changeLog} \cup LogKeysOf(m)
  <2>1. ChangeLogMatchesEventLog /\ WholeTxn(h)
    BY WholeParts DEF LedgerInv
  <2>2. ChangeLogMatchesEventLog'
    BY <2>1, WholeCommit DEF LedgerInv
  <2>3. UNION {LogKeysOf(k) : k \in eventLog'}
          = (UNION {LogKeysOf(k) : k \in eventLog}) \cup LogKeysOf(m)
    BY <1>1
  <2> QED BY <2>1, <2>2, <2>3 DEF ChangeLogMatchesEventLog
<1>4. DOMAIN daily' = Keys
  BY <1>1 DEF PublishRows
<1>5. StagedAll(h)
  BY <1>1 DEF LedgerInv, SumInv, SumTxn
<1>6. /\ txn[h].rows \in [Keys -> Row] /\ daily \in [Keys -> Row]
      /\ \A k \in Keys : daily'[k] = IF txn[h].rows[k].used THEN txn[h].rows[k] ELSE daily[k]
  BY <1>1 DEF LedgerInv, TypeInv, TypeOK, TablesTypeOK, HandlerTypeOK, HandlerState,
              PublishRows, Visible
<1> DEFINE delta == [x \in Messages |-> [k \in Keys |-> DeltaOf(x, k)]]
           touched == [x \in Messages |-> TouchedBy(x)]
           opened(day, start, diff) ==
             day = [used |-> TRUE, start |-> start, end |-> start + diff, diff |-> diff]
<1>7. ASSUME NEW k \in Keys
      PROVE  IF k \in touched[m]
             THEN IF daily[k].used
                  THEN opened(daily'[k], daily[k].start, daily[k].diff + delta[m][k])
                  ELSE opened(daily'[k], daily'[k].start, delta[m][k])
             ELSE daily'[k] = daily[k]
  <2> DEFINE row == txn[h].rows[k]
  <2>1. touched[m] = TouchedBy(m) /\ delta[m][k] = DeltaOf(m, k)
    BY <1>2
  <2>2. /\ row.used <=> k \in TouchedBy(m)
        /\ row.used => row.diff = daily[k].diff + DeltaOf(m, k)
    BY <1>5 DEF StagedAll
  <2>3. CASE ~row.used
    BY <1>6, <2>1, <2>2, <2>3
  <2>4. CASE row.used
    <3>1. /\ daily'[k] = row /\ row \in Row /\ daily[k] \in Row /\ DeltaOf(m, k) \in Int
          /\ row.diff = row.end - row.start
          /\ daily[k].used => row.start = daily[k].start
          /\ ~daily[k].used => daily[k].diff = 0
      <4>1. daily'[k] = row /\ row \in Row /\ daily[k] \in Row
        BY <1>6, <2>4
      <4>2. DeltaOf(m, k) \in Int
        BY <1>2, DeltaType
      <4>3. /\ row.diff = row.end - row.start
            /\ daily[k].used => row.start = daily[k].start
            /\ ~daily[k].used => daily[k] = NoRow
        BY <2>4 DEF LedgerInv, BooksInv, Balanced
      <4> QED BY <4>1, <4>2, <4>3 DEF NoRow
    <3>2. row = [used |-> TRUE, start |-> row.start, end |-> row.start + row.diff,
                 diff |-> row.diff]
      <4>1. row.start + row.diff = row.end
        BY <3>1 DEF Row
      <4> QED BY <2>4, <3>1, <4>1 DEF Row
    <3>3. opened(daily'[k], row.start, row.diff)
      BY <3>1, <3>2
    <3> HIDE DEF opened
    <3>4. CASE daily[k].used
      BY <2>1, <2>2, <2>4, <3>1, <3>3, <3>4
    <3>5. CASE ~daily[k].used
      <4>1. row.diff = DeltaOf(m, k)
        BY <2>2, <2>4, <3>1, <3>5
      <4> QED BY <2>1, <2>2, <2>4, <3>1, <3>3, <3>5, <4>1
    <3> QED BY <3>4, <3>5
  <2> QED BY <2>3, <2>4
<1>8. Ledger!Record(m)
  <2>1. [x \in Messages |-> LogKeysOf(x)][m] = LogKeysOf(m)
    BY <1>2
  <2> QED BY <1>1, <1>2, <1>3, <1>4, <1>7, <2>1 DEF Ledger!Record, Ledger!Opened
<1> QED BY <1>2, <1>8

Books == <<eventLog, {LogKey(c) : c \in changeLog}, daily>>

\* Any other step of the handler leaves the ledger alone.
LEMMA LedgerKept ==
  ASSUME LedgerInv, NEW h \in Handlers, HandlerEffect(h), ~(Committed(h) /\ txn[h].claimed)
  PROVE  UNCHANGED Books
<1>1. UNCHANGED <<eventLog, changeLog, daily>>
  <2>1. CASE Committed(h)
    <3>1. ~txn[h].claimed
      BY <2>1
    <3>2. txn[h].rows = NoRows /\ txn[h].log = {}
      BY <3>1 DEF LedgerInv, OnceInv
    <3>3. daily' = daily
      <4>1. daily \in [Keys -> Row]
        BY DEF LedgerInv, TypeInv, TypeOK, TablesTypeOK
      <4>2. daily' = [k \in Keys |-> daily[k]]
        BY <2>1, <3>2, NoRowsUnused DEF Committed, PublishRows, Visible
      <4> QED BY <4>1, <4>2
    <3> QED BY <2>1, <3>1, <3>2, <3>3 DEF Committed
  <2>2. CASE ~Committed(h)
    BY <2>2 DEF HandlerEffect, Delivered, RolledBack, Acked, Skipped, Claimed, Made,
                Inserted, Logs, Locked, Upserted, Moved, TablesKept
  <2> QED BY <2>1, <2>2
<1> QED BY <1>1 DEF Books

\* PrepareSkus opens days ahead of their first event, or leaves the ledger alone.
LEMMA PreparedAhead ==
  ASSUME LedgerInv, NEW p \in Preparers, PrepareEffect(p)
  PROVE  Ledger!Prepare \/ UNCHANGED Books
<1>1. UNCHANGED <<eventLog, changeLog>>
  BY DEF PrepareEffect, Begun, RowLocked, Selected, DayInserted, Ended, CallsKept
<1>2. CASE daily' = daily
  BY <1>1, <1>2 DEF Books
<1>3. CASE daily' = PublishRows(prep[p].rows)
  <2>1. /\ prep[p].rows \in [Keys -> Row] /\ DOMAIN daily' = Keys
        /\ \A k \in Keys : daily'[k] = IF prep[p].rows[k].used THEN prep[p].rows[k]
                                       ELSE daily[k]
    BY <1>3 DEF LedgerInv, TypeInv, TypeOK, PrepareTypeOK, PreparerState, PublishRows,
                Visible
  <2>2. ASSUME NEW k \in Keys, prep[p].rows[k].used
        PROVE  /\ ~daily[k].used
               /\ daily'[k] = [used |-> TRUE, start |-> daily'[k].start,
                               end |-> daily'[k].start + 0, diff |-> 0]
    <3> DEFINE row == prep[p].rows[k]
    <3>1. ~daily[k].used /\ row.diff = row.end - row.start /\ row.diff = 0
      BY <2>2 DEF LedgerInv, BooksInv, Balanced
    <3>2. row \in Row /\ daily'[k] = row
      BY <2>1, <2>2
    <3>3. row.start + 0 = row.end
      BY <3>1, <3>2 DEF Row
    <3> QED BY <2>2, <3>1, <3>2, <3>3 DEF Row
  <2> QED BY <1>1, <2>1, <2>2 DEF Ledger!Prepare, Ledger!Opened
<1> QED BY <1>2, <1>3 DEF PrepareEffect, Begun, RowLocked, Selected, DayInserted, Ended

\* Every step of the service is a step of the ledger or none.
LEMMA LedgerStep ==
  ASSUME LedgerInv, [Next]_vars
  PROVE  [Ledger!Next]_Books
<1>1. CASE NoEffect
  BY <1>1 DEF NoEffect, Books
<1>2. ASSUME NEW h \in Handlers, HandlerEffect(h)
      PROVE  [Ledger!Next]_Books
  <2>1. CASE Committed(h) /\ txn[h].claimed
    BY <2>1, EnteredAtOnce DEF Ledger!Next
  <2>2. CASE ~(Committed(h) /\ txn[h].claimed)
    BY <1>2, <2>2, LedgerKept
  <2> QED BY <2>1, <2>2
<1>3. ASSUME NEW p \in Preparers, PrepareEffect(p)
      PROVE  [Ledger!Next]_Books
  BY <1>3, PreparedAhead DEF Ledger!Next
<1> QED BY <1>1, <1>2, <1>3, Effects DEF LedgerInv

\* The empty tables are the empty ledger.
LEMMA InitLedger == Init => Ledger!Init /\ LedgerInv
<1>1. Init => Ledger!Init
  BY DEF Init, TablesInit, HandlerInit, Ledger!Init, NoRows, NoRow
<1> QED BY <1>1, InitType, InitLocks, InitBooks, InitOnce, InitSums, InitWhole DEF LedgerInv

\* The invariants of the tables hold together in every reachable state.
LEMMA LedgerHolds == Spec => []LedgerInv
<1>1. LedgerInv <=> (TypeInv /\ LockInv /\ BooksInv /\ OnceInv /\ SumInv) /\ WholeInv
  BY DEF LedgerInv
<1> QED BY <1>1, SumsHold, WholeHolds, PTL

\* The event handler and PrepareSkus implement the ledger, for any messages and
\* tables and any number of requests and calls: whatever they do to the tables is
\* to enter one event, whole and once, or to open days ahead of their events.
THEOREM StockLedgerHolds == Spec => ImplementsLedger
<1> DEFINE books == <<eventLog, {LogKey(c) : c \in changeLog}, daily>>
<1>1. LedgerInv /\ [Next]_vars => [Ledger!Next]_books
  BY LedgerStep DEF Books
<1> QED BY <1>1, InitLedger, LedgerHolds, PTL DEF Spec, ImplementsLedger, Ledger!Spec,
           Ledger!ledger

-----------------------------------------------------------------------------
(* The closing stock, when the inventory service moves stock one message at  *)
(* a time.                                                                   *)

\* Recorded rows close at the stock while everything is recorded, and short of
\* it by the one message that is not; staged rows close at the stock.
SerialInv ==
  /\ today = 1 /\ eventLog \subseteq published
  /\ \A m, n \in published \ eventLog : m = n
  /\ \A h \in Handlers : txn[h].pc # "idle" => txn[h].msg \in published
  /\ \A p \in Preparers : prep[p].pc # "idle" => Settled
  /\ \A p \in Preparers, k \in Keys :
       prep[p].rows[k].used =>
         prep[p].pc # "idle" /\ k[1] = 1 /\ prep[p].rows[k].end = stock[k[2]]
  /\ \A k \in Keys : daily[k].used => k[1] = 1
  /\ SerialEndIsStock
  /\ \A m \in published \ eventLog, k \in Keys :
       daily[k].used => daily[k].end + Moves[m][k[2]] = stock[k[2]]
  /\ \A h \in Handlers, k \in Keys :
       txn[h].rows[k].used /\ ~daily[k].used => txn[h].rows[k].end = stock[k[2]]

SerialPremise == OnDayOne /\ MovesAreCounts /\ OneChangePerSku

\* A request stages rows only for the message that is not recorded yet.
LEMMA StagedUnsettled ==
  ASSUME LedgerInv, SerialInv, NEW h \in Handlers,
         txn[h].claimed \/ \E k \in Keys : txn[h].rows[k].used
  PROVE  txn[h].claimed /\ txn[h].msg \in published \ eventLog /\ ~Settled
<1>1. txn[h].claimed
  BY NoRowsUnused DEF LedgerInv, OnceInv
<1>2. txn[h].msg \notin eventLog /\ txn[h].pc # "idle"
  BY <1>1 DEF LedgerInv, OnceInv, Working
<1> QED BY <1>1, <1>2 DEF SerialInv, Settled

\* The message goes out with the stock it moved when all others are recorded.
LEMMA SerialPublished ==
  ASSUME LedgerInv, SerialInv, NEW m \in Messages, Publish(m), Settled,
         \A p \in Preparers : prep[p].pc = "idle",
         UNCHANGED <<txn, prep, daily, eventLog, today>>
  PROVE  SerialInv'
<1>1. /\ published' = published \cup {m} /\ m \notin published
      /\ \A s \in Skus : stock'[s] = stock[s] + Moves[m][s]
  BY DEF Publish
<1>2. m \notin eventLog /\ published' \ eventLog' = {m} /\ ~Settled'
  BY <1>1 DEF SerialInv, Settled
<1>3. \A h \in Handlers, k \in Keys : ~txn[h].rows[k].used
  BY StagedUnsettled
<1>4. \A p \in Preparers, k \in Keys : ~prep[p].rows[k].used
  BY DEF SerialInv
<1>5. ASSUME NEW k \in Keys, daily[k].used
      PROVE  daily[k].end + Moves[m][k[2]] = stock'[k[2]]
  <2>1. k[2] \in Skus
    BY DEF Keys
  <2>2. daily[k].end = stock[k[2]]
    BY <1>5 DEF SerialInv, SerialEndIsStock
  <2> QED BY <1>1, <2>1, <2>2
<1>6. eventLog' \subseteq published'
  BY <1>1 DEF SerialInv
<1>7. \A h \in Handlers : txn'[h].pc # "idle" => txn'[h].msg \in published'
  BY <1>1 DEF SerialInv
<1>8. SerialEndIsStock'
  BY <1>2 DEF SerialEndIsStock
<1> HIDE DEF SerialEndIsStock
<1> QED BY <1>2, <1>3, <1>4, <1>5, <1>6, <1>7, <1>8 DEF SerialInv

\* The row that opens a day closes at the stock: no other change of the message
\* has its sku.
LEMMA SerialUpserted ==
  ASSUME LedgerInv, SerialInv, SerialPremise, NEW h \in Handlers, Upserted(h),
         NEW k \in Keys, txn'[h].rows[k].used, ~daily[k].used
  PROVE  txn'[h].rows[k].end = stock[k[2]]
<1> DEFINE key == KeyOf(h)
           cs == txn[h].changes
           n == txn[h].next
           seen == Visible(txn[h].rows, key)
           row == UpsertedRow(seen, stock[Change(h).sku], Change(h).count)
<1>1. /\ txn[h].pc = "upsert_daily"
      /\ txn'[h].rows = [txn[h].rows EXCEPT ![key] = row]
  BY DEF Upserted, Moved
<1>2. txn[h] \in HandlerState /\ txn[h].rows \in [Keys -> Row]
      /\ n \in 1 .. Len(cs) /\ cs \in Seq(ChangeRecord) /\ Len(cs) \in Nat
      /\ txn[h].msg \in Messages
  <2>1. txn[h] \in HandlerState /\ Good(txn[h])
    BY GoodTxn DEF LedgerInv, Good
  <2>2. txn[h].rows \in [Keys -> Row] /\ cs \in Seq(ChangeRecord)
    BY <2>1 DEF HandlerState
  <2> QED BY <1>1, <2>1, <2>2 DEF Good
<1>3. CASE k # key
  <2>1. txn'[h].rows[k] = txn[h].rows[k]
    BY <1>1, <1>2, <1>3
  <2> QED BY <2>1 DEF SerialInv
<1>4. CASE k = key
  <2>1. k[2] = Change(h).sku /\ txn'[h].rows[k] = row
    <3>1. KeyOf(h)[2] = Change(h).sku
      BY <1>1, KeyTyped DEF LedgerInv, LockInv
    <3> QED BY <1>1, <1>2, <1>4, <3>1
  <2>2. ~txn[h].rows[k].used
    <3>1. StagedTo(h, n - 1)
      BY <1>1 DEF LedgerInv, SumInv, SumTxn
    <3>2. PICK r \in StageTwo(txn[h].msg) : r.changes = cs
      BY <1>1 DEF LedgerInv, SumInv, SumTxn
    <3>3. \A i \in 1 .. n - 1 : cs[i].sku # cs[n].sku
      <4>1. \A i, j \in 1 .. Len(cs) : cs[i].sku = cs[j].sku => i = j
        BY <1>2, <3>2 DEF SerialPremise, OneChangePerSku
      <4>2. \A i \in 1 .. n - 1 : i \in 1 .. Len(cs) /\ i # n
        BY <1>2
      <4> QED BY <1>2, <4>1, <4>2
    <3>4. \A i \in 1 .. n - 1 : KeyAt(txn[h].day, cs[i]) # k
      BY <2>1, <3>3 DEF KeyAt, Change
    <3>5. k \notin TouchedIn(txn[h].day, cs, n - 1)
      BY <3>4 DEF TouchedIn
    <3> QED BY <3>1, <3>5 DEF StagedTo
  <2>3. seen = daily[k] /\ ~seen.used
    BY <1>4, <2>2 DEF Visible
  <2>4. row = InsertedRow(stock[k[2]], Change(h).count)
    BY <2>1, <2>3 DEF UpsertedRow
  <2> HIDE DEF row
  <2> QED BY <2>1, <2>4 DEF InsertedRow, NewRow
<1> QED BY <1>3, <1>4

\* The commit of the message brings the rows of its days to the stock.
LEMMA SerialRecorded ==
  ASSUME LedgerInv, SerialInv, SerialPremise, NEW h \in Handlers, Committed(h),
         txn[h].claimed, NEW k \in Keys, daily'[k].used
  PROVE  k[1] = 1 /\ daily'[k].end = stock[k[2]]
<1> DEFINE m == txn[h].msg
           row == txn[h].rows[k]
<1>1. txn[h].pc = "commit" /\ daily'[k] = IF row.used THEN row ELSE daily[k]
  BY DEF Committed, PublishRows, Visible
<1>2. m \in Messages /\ m \in published \ eventLog /\ StagedAll(h)
  <2>1. m \in Messages
    BY <1>1, GoodTxn DEF LedgerInv, Good
  <2>2. m \in published \ eventLog
    BY StagedUnsettled
  <2> QED BY <1>1, <2>1, <2>2 DEF LedgerInv, SumInv, SumTxn
<1>3. k[1] = 1
  <2>1. row.used => k \in TouchedBy(m)
    BY <1>2 DEF StagedAll
  <2>2. ~row.used => daily[k].used
    BY <1>1
  <2> QED BY <1>2, <2>1, <2>2 DEF SerialInv, SerialPremise, OnDayOne
<1>4. DeltaOf(m, k) \in Int /\ Moves[m][k[2]] = DeltaOf(m, k)
      /\ (k \notin TouchedBy(m) => DeltaOf(m, k) = 0)
  BY <1>2, <1>3, DeltaType DEF SerialPremise, MovesAreCounts
<1>5. daily[k].used => daily[k].end + DeltaOf(m, k) = stock[k[2]]
  BY <1>2, <1>4 DEF SerialInv
<1>6. daily[k] \in Row /\ row \in Row
  BY DEF LedgerInv, TypeInv, TypeOK, TablesTypeOK, HandlerTypeOK, HandlerState
<1>7. CASE row.used /\ daily[k].used
  <2>1. row.diff = row.end - row.start /\ row.start = daily[k].start
    BY <1>7 DEF LedgerInv, BooksInv, Balanced
  <2>2. daily[k].diff = daily[k].end - daily[k].start
    BY DEF LedgerInv, BooksInv, DiffIsEndMinusStart
  <2>3. row.diff = daily[k].diff + DeltaOf(m, k)
    BY <1>2, <1>7 DEF StagedAll
  <2>4. row.end = daily[k].end + DeltaOf(m, k)
    <3> HIDE DEF row
    <3> QED BY <1>4, <1>6, <2>1, <2>2, <2>3 DEF Row
  <2> QED BY <1>1, <1>3, <1>5, <1>7, <2>4
<1>8. CASE row.used /\ ~daily[k].used
  BY <1>1, <1>3, <1>8 DEF SerialInv
<1>9. CASE ~row.used
  <2>1. daily'[k] = daily[k] /\ daily[k].used
    BY <1>1, <1>9
  <2>2. DeltaOf(m, k) = 0
    BY <1>2, <1>4, <1>9 DEF StagedAll
  <2>3. daily[k].end = stock[k[2]]
    BY <1>5, <1>6, <2>1, <2>2 DEF Row
  <2> QED BY <1>3, <2>1, <2>3
<1> QED BY <1>7, <1>8, <1>9

\* A commit with a claim settles everything, and leaves nothing staged.
LEMMA SerialCommitted ==
  ASSUME LedgerInv, SerialInv, SerialPremise, NEW h \in Handlers, Committed(h),
         txn[h].claimed
  PROVE  SerialInv'
<1> DEFINE m == txn[h].msg
<1>1. /\ eventLog' = eventLog \cup {m} /\ UNCHANGED <<prep, stock, published, today>>
      /\ \A g \in Handlers \ {h} : txn'[g] = txn[g]
      /\ txn'[h].rows = NoRows /\ txn'[h].msg = m
  BY DEF Committed, OthersKept, Fresh
<1>2. m \in published \ eventLog /\ ~Settled
  BY StagedUnsettled
<1>3. published' \ eventLog' = {} /\ eventLog' \subseteq published'
  BY <1>1, <1>2 DEF SerialInv
<1>4. ASSUME NEW g \in Handlers, NEW k \in Keys
      PROVE  ~txn'[g].rows[k].used
  <2>1. CASE g = h
    BY <1>1, <2>1, NoRowsUnused
  <2>2. CASE g # h
    <3>1. ASSUME txn[g].rows[k].used
          PROVE  FALSE
      <4>1. txn[g].claimed /\ txn[g].msg \in published \ eventLog
        BY <3>1, StagedUnsettled
      <4>2. txn[g].msg = m
        BY <1>2, <4>1 DEF SerialInv
      <4> QED BY <2>2, <4>1, <4>2 DEF LedgerInv, OnceInv
    <3> QED BY <1>1, <2>2, <3>1
  <2> QED BY <2>1, <2>2
<1>5. \A p \in Preparers : prep'[p].pc = "idle"
  BY <1>1, <1>2 DEF SerialInv
<1>6. \A p \in Preparers, k \in Keys : ~prep'[p].rows[k].used
  BY <1>1, <1>5 DEF SerialInv
<1>7. \A k \in Keys : daily'[k].used => k[1] = 1 /\ daily'[k].end = stock'[k[2]]
  BY <1>1, SerialRecorded
<1>8. \A g \in Handlers : txn'[g].pc # "idle" => txn'[g].msg \in published'
  BY <1>1, <1>2 DEF SerialInv
<1>9. SerialEndIsStock'
  BY <1>7 DEF SerialEndIsStock
<1>10. today' = 1
  BY <1>1 DEF SerialInv
<1> HIDE DEF SerialEndIsStock
<1> QED BY <1>3, <1>4, <1>5, <1>6, <1>7, <1>8, <1>9, <1>10 DEF SerialInv

\* Any other step of the handler leaves the days where they are.
LEMMA SerialMoved ==
  ASSUME LedgerInv, SerialInv, SerialPremise, NEW h \in Handlers, HandlerEffect(h),
         ~(Committed(h) /\ txn[h].claimed)
  PROVE  SerialInv'
<1>1. UNCHANGED <<eventLog, daily, prep, stock, published, today>>
      /\ \A g \in Handlers \ {h} : txn'[g] = txn[g]
  <2>1. OthersKept(h)
    BY DEF HandlerEffect, Delivered, RolledBack, Acked, Skipped, Claimed, Made,
           Inserted, Logs, Locked, Upserted, Committed, Moved
  <2>2. eventLog' = eventLog /\ daily' = daily
    BY LedgerKept DEF Books
  <2> QED BY <2>1, <2>2 DEF OthersKept
<1>2. txn'[h].pc # "idle" => txn'[h].msg \in published
  <2>1. CASE Delivered(h) \/ RolledBack(h) \/ Acked(h)
    BY <2>1 DEF Delivered, RolledBack, Acked
  <2>2. CASE /\ txn'[h].msg = txn[h].msg
             /\ txn[h].pc # "idle"
    BY <2>2 DEF SerialInv
  <2> QED BY <2>1, <2>2 DEF HandlerEffect, Skipped, Claimed, Made, Inserted, Logs,
                            Locked, Upserted, Committed, Moved
<1>3. ASSUME NEW k \in Keys, txn'[h].rows[k].used, ~daily[k].used
      PROVE  txn'[h].rows[k].end = stock[k[2]]
  <2>1. CASE Upserted(h)
    BY <1>3, <2>1, SerialUpserted
  <2>2. CASE txn'[h].rows = NoRows
    BY <1>3, <2>2, NoRowsUnused
  <2>3. CASE txn'[h].rows = txn[h].rows
    BY <1>3, <2>3 DEF SerialInv
  <2> QED BY <2>1, <2>2, <2>3 DEF HandlerEffect, Delivered, RolledBack, Acked, Fresh,
             Skipped, Claimed, Made, Inserted, Logs, Locked, Committed, Moved
<1>4. \A g \in Handlers : txn'[g].pc # "idle" => txn'[g].msg \in published
  BY <1>1, <1>2 DEF SerialInv
<1>5. \A g \in Handlers, k \in Keys :
        txn'[g].rows[k].used /\ ~daily[k].used => txn'[g].rows[k].end = stock[k[2]]
  BY <1>1, <1>3 DEF SerialInv
<1> QED BY <1>1, <1>4, <1>5 DEF SerialInv, SerialEndIsStock, Settled

\* PrepareSkus, between two messages, opens days at the stock.
LEMMA SerialPrepared ==
  ASSUME LedgerInv, SerialInv, NEW p \in Preparers, PrepareEffect(p),
         prep[p].pc = "idle" /\ prep'[p].pc # "idle" => Settled
  PROVE  SerialInv'
<1>1. /\ UNCHANGED <<txn, eventLog, stock, published, today>>
      /\ \A q \in Preparers \ {p} : prep'[q] = prep[q]
  BY DEF PrepareEffect, Begun, RowLocked, Selected, DayInserted, Ended, CallsKept
<1>2. prep'[p].pc # "idle" => Settled
  BY DEF SerialInv
<1>3. ASSUME NEW k \in Keys, prep'[p].rows[k].used
      PROVE  prep'[p].pc # "idle" /\ k[1] = 1 /\ prep'[p].rows[k].end = stock[k[2]]
  <2>1. CASE prep'[p].rows = NoRows
    BY <1>3, <2>1, NoRowsUnused
  <2>2. CASE prep'[p].rows = prep[p].rows /\ prep'[p].pc # "idle"
    BY <1>3, <2>2 DEF SerialInv
  <2>3. CASE DayInserted(p)
    <3>1. PICK s \in prep[p].locked :
            \/ prep'[p].rows = prep[p].rows
            \/ prep'[p].rows =
                 [prep[p].rows EXCEPT ![<<today, s, SkuWarehouse[s]>>] =
                                        PreparedRow(stock[s])]
      BY <2>3 DEF DayInserted
    <3>2. prep'[p].pc # "idle"
      BY <2>3 DEF DayInserted
    <3>3. CASE prep'[p].rows = prep[p].rows
      BY <2>2, <3>2, <3>3
    <3> DEFINE key == <<today, s, SkuWarehouse[s]>>
    <3>4. CASE prep'[p].rows = [prep[p].rows EXCEPT ![key] = PreparedRow(stock[s])]
      <4>1. prep[p].rows \in [Keys -> Row]
        BY DEF LedgerInv, TypeInv, TypeOK, PrepareTypeOK, PreparerState
      <4>2. CASE k = key
        <5>1. k[1] = 1 /\ k[2] = s
          BY <4>2 DEF SerialInv
        <5>2. prep'[p].rows[k] = PreparedRow(stock[s])
          BY <3>4, <4>1, <4>2
        <5> QED BY <3>2, <5>1, <5>2 DEF PreparedRow, NewRow
      <4>3. CASE k # key
        <5>1. prep'[p].rows[k] = prep[p].rows[k]
          BY <3>4, <4>1, <4>3
        <5> QED BY <1>3, <3>2, <5>1 DEF SerialInv
      <4> QED BY <4>2, <4>3
    <3> QED BY <3>1, <3>3, <3>4
  <2> QED BY <2>1, <2>2, <2>3 DEF PrepareEffect, Begun, RowLocked, Selected, Ended
<1>4. \A q \in Preparers : prep'[q].pc # "idle" => Settled
  BY <1>1, <1>2 DEF SerialInv
<1>5. \A q \in Preparers, k \in Keys :
        prep'[q].rows[k].used =>
          prep'[q].pc # "idle" /\ k[1] = 1 /\ prep'[q].rows[k].end = stock[k[2]]
  BY <1>1, <1>3 DEF SerialInv
<1>6. CASE daily' = daily
  BY <1>1, <1>4, <1>5, <1>6 DEF SerialInv, SerialEndIsStock, Settled
<1>7. CASE daily' = PublishRows(prep[p].rows) /\ prep[p].pc # "idle"
  <2>1. Settled
    BY <1>7 DEF SerialInv
  <2>2. \A k \in Keys :
          daily'[k] = IF prep[p].rows[k].used THEN prep[p].rows[k] ELSE daily[k]
    BY <1>7 DEF PublishRows, Visible
  <2>3. ASSUME NEW k \in Keys, daily'[k].used
        PROVE  k[1] = 1 /\ daily'[k].end = stock[k[2]]
    BY <2>1, <2>2, <2>3 DEF SerialInv, SerialEndIsStock
  <2>4. SerialEndIsStock'
    BY <1>1, <2>3 DEF SerialEndIsStock
  <2>5. published' \ eventLog' = {}
    BY <1>1, <2>1 DEF Settled
  <2>6. \A h \in Handlers, k \in Keys : ~txn[h].rows[k].used
    BY <2>1, StagedUnsettled
  <2> HIDE DEF SerialEndIsStock
  <2> QED BY <1>1, <1>4, <1>5, <2>3, <2>4, <2>5, <2>6 DEF SerialInv, Settled
<1> QED BY <1>6, <1>7 DEF PrepareEffect, Begun, RowLocked, Selected, DayInserted, Ended

\* Every step under the premise keeps the closing stock at the stock.
LEMMA SerialStep ==
  ASSUME LedgerInv, SerialInv, SerialPremise, [SerialNext]_vars
  PROVE  SerialInv'
<1>1. [Next]_vars
  BY DEF SerialNext
<1>2. /\ published' # published => Settled /\ \A p \in Preparers : prep[p].pc = "idle"
      /\ \A p \in Preparers : prep[p].pc = "idle" /\ prep'[p].pc # "idle" => Settled
  BY DEF SerialNext, vars, handlerVars, prepareVars
<1>3. CASE NoEffect
  <2>1. today' = today
    <3>1. ~(today < MaxDay)
      BY DEF SerialInv, SerialPremise, OnDayOne
    <3> QED BY <1>3, <3>1 DEF NoEffect
  <2>2. UNCHANGED <<txn, prep, daily, eventLog>>
    BY <1>3 DEF NoEffect
  <2>3. CASE UNCHANGED <<published, stock>>
    BY <2>1, <2>2, <2>3 DEF SerialInv, SerialEndIsStock, Settled
  <2>4. ASSUME NEW m \in Messages, Publish(m)
        PROVE  SerialInv'
    <3>1. published' # published
      BY <2>4 DEF Publish
    <3> QED BY <1>2, <2>1, <2>2, <2>4, <3>1, SerialPublished
  <2> QED BY <1>3, <2>3, <2>4 DEF NoEffect
<1>4. ASSUME NEW h \in Handlers, HandlerEffect(h)
      PROVE  SerialInv'
  BY <1>4, SerialCommitted, SerialMoved
<1>5. ASSUME NEW p \in Preparers, PrepareEffect(p)
      PROVE  SerialInv'
  BY <1>2, <1>5, SerialPrepared
<1> QED BY <1>1, <1>3, <1>4, <1>5, Effects DEF LedgerInv

\* Nothing is published and there is no day.
LEMMA InitSerial == Init => SerialInv
BY NoRowsUnused DEF Init, TablesInit, HandlerInit, PrepareInit, SerialInv,
   SerialEndIsStock, Idle, PrepareIdle

\* When the inventory service waits for each message to be recorded before it
\* moves stock again, PrepareSkus runs in between, and a message has one change of
\* a sku at most, the closing stock of the day is the stock there is, whatever
\* faults, duplicates and deadlocks there were.
THEOREM SerialEndIsStockHolds == SerialSpec => []SerialEndIsStock
<1>1. SerialSpec => Spec
  <2>1. SerialInit => Init
    BY DEF SerialInit
  <2>2. [SerialNext]_vars => [Next]_vars
    BY DEF SerialNext
  <2> QED BY <2>1, <2>2, PTL DEF SerialSpec, Spec
<1>2. SerialInit => SerialInv /\ SerialPremise
  BY InitSerial DEF SerialInit, SerialPremise
<1>3. LedgerInv /\ SerialInv /\ SerialPremise /\ [SerialNext]_vars
        => (SerialInv /\ SerialPremise)'
  BY SerialStep DEF SerialPremise, OnDayOne, MovesAreCounts, OneChangePerSku
<1>4. SerialInv => SerialEndIsStock
  BY DEF SerialInv
<1> QED BY <1>1, <1>2, <1>3, <1>4, LedgerHolds, PTL DEF SerialSpec
=============================================================================
