----------------------- MODULE ChangeLogCheck_proofs -----------------------
(***************************************************************************)
(* What the change log of a transaction adds up to, and what a later       *)
(* cancellation gives back, for any number of problems, costs and cancel   *)
(* stamps, any counts and prices and any booking in between.               *)
(***************************************************************************)
EXTENDS ChangeLogCheck, ChangeLog_proofs

-----------------------------------------------------------------------------
(* The tables a call reads, and what it answers. *)

Typed(d) ==
  /\ FiniteTables(d)
  /\ \A i \in d.item : i.tx = Tx /\ i.count \in Int /\ i.price \in Int
  /\ \A i, j \in d.item : i.id = j.id => i = j
  /\ \A p \in d.problem : p.count \in Int
  /\ \A c \in d.cost : c.tx = Tx /\ c.fee = 1
  /\ Tx \in DOMAIN d.tx
  /\ {"tx", "item", "problem", "cost"} \subseteq DOMAIN d

Answered ==
  \/ type = "none" /\ result = Nothing
  \/ type \in ChangeTypes /\ result \in CreateStockChangeLog(db, "m", Tx, type)

TakenOf(r) == [sku \in Skus |-> [field \in Fields |-> LogTotal(r, sku, field)]]

\* What is remembered is an event of the tables at the acceptance, whose items
\* are those of now; only its cancellation follows.
Remembered ==
  past.type # "none" =>
    /\ past.type \in {Undoes[t] : t \in DOMAIN Undoes}
    /\ Typed(past.db)
    /\ past.db.item = db.item
    /\ \E r \in Logged(past.db, "m", Tx, past.type) : past.taken = TakenOf(r)
    /\ type # "none" => type \in DOMAIN Undoes /\ Undoes[type] = past.type

CheckInv == Typed(db) /\ Answered /\ Remembered

\* The problem rows are finitely many and their counts are numbers.
LEMMA ProblemRowsTyped ==
  ASSUME NEW problems \in [Items -> 0 .. MaxJoined]
  PROVE  /\ IsFiniteSet(ProblemRows(problems))
         /\ \A p \in ProblemRows(problems) : p.count \in Int
<1> DEFINE row(i) == [n \in 1 .. problems[i] |-> [id |-> n, item |-> i, count |-> 1]]
           rows == [i \in Items |-> {row(i)[n] : n \in 1 .. problems[i]}]
<1>1. \A i \in Items : problems[i] \in Nat
  BY CheckAssumption
<1>2. IsFiniteSet(Items)
  <2>1. IsFiniteSet({11}) /\ IsFiniteSet({12})
    BY FS_Singleton
  <2>2. IsFiniteSet({11} \cup {12})
    BY <2>1, FS_Union
  <2>3. Items = {11} \cup {12}
    BY DEF Items
  <2> QED BY <2>2, <2>3
<1>3. IsFiniteSet(UNION {rows[i] : i \in Items})
  <2>1. ASSUME NEW i \in Items
        PROVE  IsFiniteSet(rows[i])
    <3>1. DOMAIN row(i) = 1 .. problems[i] /\ IsFiniteSet(1 .. problems[i])
      BY <1>1, FS_Interval
    <3>2. rows[i] = {row(i)[n] : n \in 1 .. problems[i]}
      OBVIOUS
    <3> HIDE DEF row, rows
    <3> QED BY <3>1, <3>2, FiniteImage
  <2>2. DOMAIN rows = Items
    OBVIOUS
  <2> HIDE DEF rows
  <2> QED BY <1>2, <2>1, <2>2, FiniteUnion
<1>4. ProblemRows(problems) = UNION {rows[i] : i \in Items}
  <2>1. \A i \in Items : rows[i] = {[id |-> n, item |-> i, count |-> 1] : n \in 1 .. problems[i]}
    OBVIOUS
  <2> HIDE DEF rows
  <2> QED BY <2>1 DEF ProblemRows
<1>5. \A p \in ProblemRows(problems) : p.count \in Int
  <2> SUFFICES ASSUME NEW p \in ProblemRows(problems) PROVE p.count \in Int
    OBVIOUS
  <2>1. PICK i \in Items : p \in rows[i]
    <3> HIDE DEF rows
    <3> QED BY <1>4
  <2>2. PICK n \in 1 .. problems[i] : p = [id |-> n, item |-> i, count |-> 1]
    BY <2>1
  <2> QED BY <2>2
<1> HIDE DEF rows
<1> QED BY <1>3, <1>4, <1>5

\* The cost rows are finitely many, of the transaction and of one fee.
LEMMA CostRowsTyped ==
  ASSUME NEW costs \in 0 .. MaxJoined
  PROVE  /\ IsFiniteSet(CostRows(costs))
         /\ \A c \in CostRows(costs) : c.tx = Tx /\ c.fee = 1
<1> DEFINE row == [n \in 1 .. costs |-> [id |-> n, tx |-> Tx, fee |-> 1]]
<1>1. DOMAIN row = 1 .. costs /\ IsFiniteSet(1 .. costs)
  BY CheckAssumption, FS_Interval
<1>2. CostRows(costs) = {row[n] : n \in 1 .. costs}
  BY DEF CostRows
<1>3. \A c \in CostRows(costs) : c.tx = Tx /\ c.fee = 1
  BY DEF CostRows
<1> HIDE DEF row
<1> QED BY <1>1, <1>2, <1>3, FiniteImage

\* Every content of the tables that the check starts from has these types.
LEMMA SnapshotTyped ==
  ASSUME NEW item \in [Items -> ItemContents], NEW problems \in [Items -> 0 .. MaxJoined],
         NEW costs \in 0 .. MaxJoined, NEW cancels, NEW arrived
  PROVE  Typed(Snapshot(item, problems, costs, cancels, arrived))
<1> DEFINE d == Snapshot(item, problems, costs, cancels, arrived)
           row == [i \in Items |-> [id |-> i, tx |-> Tx, sku |-> item[i].sku,
                                    count |-> item[i].count, price |-> item[i].price]]
<1>1. \A i \in Items : item[i].count \in Int /\ item[i].price \in Int
  BY CheckAssumption DEF ItemContents
<1>2. d.item = {row[i] : i \in Items}
  BY DEF Snapshot
<1>3. IsFiniteSet(d.item)
  <2>1. IsFiniteSet({row[11]}) /\ IsFiniteSet({row[12]})
    BY FS_Singleton
  <2>2. IsFiniteSet({row[11]} \cup {row[12]})
    BY <2>1, FS_Union
  <2>3. d.item = {row[11]} \cup {row[12]}
    <3> HIDE DEF d, row
    <3> QED BY <1>2 DEF Items
  <2> QED BY <2>2, <2>3
<1>4. \A i \in d.item : i.tx = Tx /\ i.count \in Int /\ i.price \in Int
  BY <1>1, <1>2
<1>5. \A i, j \in d.item : i.id = j.id => i = j
  BY <1>2
<1>6. d.problem = ProblemRows(problems) /\ d.cost = CostRows(costs)
  BY DEF Snapshot
<1>7. Tx \in DOMAIN d.tx /\ {"tx", "item", "problem", "cost"} \subseteq DOMAIN d
  BY DEF Snapshot
<1> HIDE DEF d, row
<1>8. Typed(d)
  BY <1>3, <1>4, <1>5, <1>6, <1>7, ProblemRowsTyped, CostRowsTyped DEF Typed, FiniteTables
<1> QED BY <1>8 DEF d

\* A booking keeps these types, and the items.
LEMMA BookedTyped ==
  ASSUME NEW d, Typed(d), NEW problems \in [Items -> 0 .. MaxJoined],
         NEW costs \in 0 .. MaxJoined, NEW cancels, NEW arrived
  PROVE  /\ Typed(Booked(d, problems, costs, cancels, arrived))
         /\ Booked(d, problems, costs, cancels, arrived).item = d.item
<1> DEFINE e == Booked(d, problems, costs, cancels, arrived)
<1>1. /\ e.item = d.item /\ DOMAIN e.tx = DOMAIN d.tx /\ DOMAIN e = DOMAIN d
      /\ e.problem = ProblemRows(problems) /\ e.cost = CostRows(costs)
  BY DEF Booked, Typed
<1> HIDE DEF e
<1>2. Typed(e)
  BY <1>1, ProblemRowsTyped, CostRowsTyped DEF Typed, FiniteTables
<1> QED BY <1>1, <1>2 DEF e

\* An answer that is an event is one of the rows the query selects.
LEMMA EventLogged ==
  ASSUME NEW d, NEW t, NEW r \in CreateStockChangeLog(d, "m", Tx, t), r.tag = "event"
  PROVE  /\ r \in Logged(d, "m", Tx, t)
         /\ ChangedRows(d, Tx, t) # {}
BY DEF CreateStockChangeLog, Failed, Nothing

\* What is answered is an answer of the call on the tables as they are, and
\* what is remembered was one on the tables as they were.
LEMMA CheckHolds == Spec => []CheckInv
<1>1. Init => CheckInv
  <2> SUFFICES ASSUME Init PROVE CheckInv
    OBVIOUS
  <2>1. PICK item \in [Items -> ItemContents], problems \in [Items -> 0 .. MaxJoined],
             costs \in 0 .. MaxJoined, cancels \in 0 .. MaxJoined, arrived \in 0 .. 1 :
               db = Snapshot(item, problems, costs, cancels, arrived)
    BY DEF Init
  <2>2. Typed(db)
    BY <2>1, SnapshotTyped
  <2> QED BY <2>2 DEF Init, CheckInv, Answered, Remembered, NoPast
<1>2. CheckInv /\ [Next]_vars => CheckInv'
  <2> SUFFICES ASSUME CheckInv, [Next]_vars PROVE CheckInv'
    OBVIOUS
  <2>1. ASSUME NEW t \in ChangeTypes, Call(t)
        PROVE  CheckInv'
    <3>1. db' = db /\ past' = past /\ type' = t
      BY <2>1 DEF Call
    <3>2. Typed(db)' /\ Answered'
      BY <2>1, <3>1 DEF CheckInv, Call, Answered
    <3>3. Remembered'
      BY <2>1, <3>1 DEF CheckInv, Call, Remembered
    <3> QED BY <3>2, <3>3 DEF CheckInv
  <2>2. CASE Book
    <3>1. /\ type \in {Undoes[t] : t \in DOMAIN Undoes} /\ result.tag = "event"
          /\ past'.type = type /\ past'.db = db /\ past'.taken = TakenOf(result)
          /\ type' = "none" /\ result' = Nothing
      BY <2>2 DEF Book, TakenOf
    <3>2. PICK problems \in [Items -> 0 .. MaxJoined], costs \in 0 .. MaxJoined,
               cancels \in 0 .. MaxJoined, arrived \in 0 .. 1 :
                 db' = Booked(db, problems, costs, cancels, arrived)
      BY <2>2 DEF Book
    <3>3. Typed(db') /\ db'.item = db.item
      BY <3>2, BookedTyped DEF CheckInv
    <3>4. result \in Logged(db, "m", Tx, type)
      <4>1. result \in CreateStockChangeLog(db, "m", Tx, type)
        BY <3>1 DEF CheckInv, Answered, Nothing
      <4> QED BY <3>1, <4>1, EventLogged
    <3>5. Remembered'
      BY <3>1, <3>3, <3>4 DEF CheckInv, Remembered
    <3>6. Answered'
      BY <3>1 DEF Answered
    <3> QED BY <3>3, <3>5, <3>6 DEF CheckInv
  <2>3. CASE UNCHANGED vars
    BY <2>3 DEF vars, CheckInv, Answered, Remembered
  <2> QED BY <2>1, <2>2, <2>3 DEF Next
<1> QED BY <1>1, <1>2, PTL DEF Spec

-----------------------------------------------------------------------------
(* The rows of the query. *)

\* The columns of a row are those of an item of the transaction, of its
\* problem and of a cost; they are numbers.
LEMMA RowTyped ==
  ASSUME NEW d, Typed(d), NEW row \in JoinRows(d, Tx), NEW t
  PROVE  /\ row.item \in d.item
         /\ row.problem \in ProblemsOf(d, row.item)
         /\ row.cost \in CostsOf(d, Tx)
         /\ row = [item |-> row.item, problem |-> row.problem, cost |-> row.cost]
         /\ row.item.count \in Int /\ row.item.price \in Int
         /\ row.problem.count \in Int /\ row.cost.fee \in Int
         /\ CountOf(row, t) \in Int /\ AmountOf(row, t) \in Int
<1>1. PICK i \in ItemsOf(d, Tx) : row \in Joined(i, ProblemsOf(d, i), CostsOf(d, Tx))
  BY DEF JoinRows
<1>2. PICK p \in ProblemsOf(d, i), c \in CostsOf(d, Tx) :
        row = [item |-> i, problem |-> p, cost |-> c]
  BY <1>1 DEF Joined
<1>3. i \in d.item
  BY DEF ItemsOf
<1>4. p.count \in Int
  BY DEF ProblemsOf, NoProblem, Typed
<1>5. c.fee \in Int
  BY DEF CostsOf, NoCost, Typed
<1>6. i.count \in Int /\ i.price \in Int
  BY <1>3 DEF Typed
<1>7. row.item = i /\ row.problem = p /\ row.cost = c
  BY <1>2
<1>8. CountOf(row, t) \in Int
  BY <1>4, <1>6, <1>7 DEF CountOf, Sign
<1>9. AmountOf(row, t) \in Int
  BY <1>5, <1>6, <1>7, <1>8 DEF AmountOf
<1> QED BY <1>2, <1>3, <1>4, <1>5, <1>6, <1>7, <1>8, <1>9

\* The query has finitely many rows.
LEMMA RowsFinite ==
  ASSUME NEW d, Typed(d)
  PROVE  IsFiniteSet(JoinRows(d, Tx))
BY JoinFinite DEF Typed

-----------------------------------------------------------------------------
(* An event adds up to the sum over its rows. *)

FieldsOf(cs, field) == [i \in DOMAIN cs |-> cs[i][field]]

PlacesOf(cs, sku) == {i \in DOMAIN cs : cs[i].sku = sku}

\* What an event moves of a sku, as a sum of numbers.
LEMMA LogTotalIs ==
  ASSUME NEW r, NEW sku, NEW field, IsFiniteSet(PlacesOf(r.changes, sku))
  PROVE  LogTotal(r, sku, field)
           = Total(FieldsOf(r.changes, field), PlacesOf(r.changes, sku))
<1> DEFINE f == FieldsOf(r.changes, field)
           at == PlacesOf(r.changes, sku)
           IsFold(g) == g = [s \in SUBSET at |->
                              IF s = {} THEN 0
                              ELSE r.changes[Pick(s)][field] + g[s \ {Pick(s)}]]
           fold == CHOOSE g : IsFold(g)
<1>1. LogTotal(r, sku, field) = fold[at]
  BY DEF LogTotal, PlacesOf, MapThenSumSet, MapThenFoldSet, Pick
<1>2. ASSUME NEW g
      PROVE  IsFold(g) <=> Adds(f, at, g)
  <2>1. ASSUME NEW s \in SUBSET at, s # {}
        PROVE  r.changes[Pick(s)][field] = f[Pick(s)]
    <3>1. Pick(s) \in DOMAIN r.changes
      BY <2>1, Picked DEF PlacesOf
    <3> QED BY <3>1 DEF FieldsOf
  <2> HIDE DEF f
  <2> QED BY <2>1 DEF Adds
<1>3. PICK g : Adds(f, at, g)
  BY AddsExists
<1> HIDE DEF IsFold
<1>4. Adds(f, at, fold)
  BY <1>2, <1>3
<1> HIDE DEF f, fold
<1>5. Total(f, at) = fold[at]
  BY <1>4, TotalAdds DEF at
<1> QED BY <1>1, <1>5 DEF f, at

RowField(row, t, field) ==
  IF field = "count" THEN CountOf(row, t) ELSE AmountOf(row, t)

RowFields(d, t, field) == [row \in JoinRows(d, Tx) |-> RowField(row, t, field)]

RowsOf(d, t, sku) == {row \in ChangedRows(d, Tx, t) : row.item.sku = sku}

\* Whatever order its rows come in, an event moves what they stand for.
LEMMA LogSum ==
  ASSUME NEW d, Typed(d), NEW t, NEW r \in Logged(d, "m", Tx, t), NEW sku,
         NEW field \in {"count", "amount"}
  PROVE  LogTotal(r, sku, field) = Total(RowFields(d, t, field), RowsOf(d, t, sku))
<1> DEFINE rows == ChangedRows(d, Tx, t)
           change(row) == ChangeOf(d, "m", Tx, t, row)
<1>1. IsFiniteSet(rows) /\ rows \subseteq JoinRows(d, Tx)
  BY RowsFinite, FS_Subset DEF ChangedRows
<1>2. PICK day \in TimesOf(d, Tx, t), order \in SetToSeqs(rows) :
        r = StockChange(day, [i \in 1 .. Len(order) |-> change(order[i])])
  BY DEF Logged
<1>3. /\ Range(order) = rows /\ DOMAIN order = 1 .. Len(order) /\ Len(order) \in Nat
      /\ \A i, j \in 1 .. Len(order) : order[i] = order[j] => i = j
  <2> HIDE DEF rows
  <2> QED BY <1>1, OrderCovers
<1>4. \A i \in 1 .. Len(order) : order[i] \in rows
  BY <1>3 DEF Range
<1>5. \A row : change(row).sku = row.item.sku /\ change(row)[field] = RowField(row, t, field)
  BY DEF ChangeOf, RowField
<1> DEFINE cs == [i \in 1 .. Len(order) |-> change(order[i])]
           A == PlacesOf(cs, sku)
           B == RowsOf(d, t, sku)
           f == FieldsOf(cs, field)
           g == RowFields(d, t, field)
           p == [i \in A |-> order[i]]
<1>6. r.changes = cs
  BY <1>2 DEF StockChange
<1>7. DOMAIN cs = 1 .. Len(order) /\ \A i \in 1 .. Len(order) : cs[i] = change(order[i])
  OBVIOUS
<1> HIDE DEF change, rows, cs
<1>8. IsFiniteSet(A) /\ A \subseteq 1 .. Len(order) /\ IsFiniteSet(B)
  <2>1. A \subseteq 1 .. Len(order)
    BY <1>7 DEF PlacesOf
  <2>2. IsFiniteSet(1 .. Len(order))
    BY <1>3, FS_Interval
  <2>3. B \subseteq rows
    BY DEF RowsOf, rows
  <2> HIDE DEF A, B
  <2> QED BY <1>1, <2>1, <2>2, <2>3, FS_Subset
<1>9. \A i \in 1 .. Len(order) : i \in A <=> order[i] \in B
  BY <1>4, <1>5, <1>7 DEF PlacesOf, RowsOf, rows
<1>10. \A i \in A : p[i] = order[i]
  OBVIOUS
<1>11. B \subseteq rows
  BY DEF RowsOf, rows
<1> HIDE DEF B
<1>12. p \in [A -> B]
  BY <1>8, <1>9
<1>13. \A i, j \in A : p[i] = p[j] => i = j
  BY <1>3, <1>8, <1>10
<1>14. \A row \in B : \E i \in A : p[i] = row
  <2> SUFFICES ASSUME NEW row \in B PROVE \E i \in A : p[i] = row
    OBVIOUS
  <2>1. PICK i \in 1 .. Len(order) : order[i] = row
    BY <1>3, <1>11 DEF Range
  <2> QED BY <2>1, <1>9
<1>15. \A i \in A : f[i] = g[p[i]] /\ f[i] \in Int
  <2> SUFFICES ASSUME NEW i \in A PROVE f[i] = g[p[i]] /\ f[i] \in Int
    OBVIOUS
  <2>1. i \in 1 .. Len(order) /\ order[i] \in JoinRows(d, Tx) /\ p[i] = order[i]
    BY <1>1, <1>4, <1>8, <1>10
  <2>2. f[i] = change(order[i])[field]
    BY <1>7, <2>1 DEF FieldsOf
  <2>3. g[order[i]] = RowField(order[i], t, field)
    BY <2>1 DEF RowFields
  <2>4. RowField(order[i], t, field) \in Int
    BY <2>1, RowTyped DEF RowField
  <2> HIDE DEF f, g, p
  <2> QED BY <1>5, <2>1, <2>2, <2>3, <2>4
<1> HIDE DEF A, f, g, p
<1>16. Total(f, A) = Total(g, B)
  <2>1. IsFiniteSet(A) /\ IsFiniteSet(B)
    BY <1>8
  <2>2. p \in [A -> B]
    BY <1>12
  <2>3. \A i, j \in A : p[i] = p[j] => i = j
    BY <1>13
  <2> QED BY <2>1, <2>2, <2>3, <1>14, <1>15, TotalMoved
<1>17. LogTotal(r, sku, field) = Total(f, A)
  BY <1>6, <1>8, LogTotalIs DEF A, f
<1> QED BY <1>16, <1>17 DEF g, B

-----------------------------------------------------------------------------
(* The rows against the items of the transaction. *)

CountsIn(S) == [p \in S |-> p.count]

\* The pieces broken, as a sum of numbers.
LEMMA ProblemSum ==
  ASSUME NEW S, IsFiniteSet(S)
  PROVE  MapThenSumSet(LAMBDA p : p.count, S) = Total(CountsIn(S), S)
<1> DEFINE f == CountsIn(S)
           IsFold(g) == g = [s \in SUBSET S |->
                              IF s = {} THEN 0 ELSE Pick(s).count + g[s \ {Pick(s)}]]
           fold == CHOOSE g : IsFold(g)
<1>1. MapThenSumSet(LAMBDA p : p.count, S) = fold[S]
  BY DEF MapThenSumSet, MapThenFoldSet, Pick
<1>2. ASSUME NEW g
      PROVE  IsFold(g) <=> Adds(f, S, g)
  <2>1. ASSUME NEW s \in SUBSET S, s # {}
        PROVE  Pick(s).count = f[Pick(s)]
    <3>1. Pick(s) \in S
      BY <2>1, Picked
    <3> QED BY <3>1 DEF CountsIn
  <2> HIDE DEF f
  <2> QED BY <2>1 DEF Adds
<1>3. PICK g : Adds(f, S, g)
  BY AddsExists
<1> HIDE DEF IsFold
<1>4. Adds(f, S, fold)
  BY <1>2, <1>3
<1> HIDE DEF f, fold
<1>5. Total(f, S) = fold[S]
  BY <1>4, TotalAdds
<1> QED BY <1>1, <1>5 DEF f

\* At most one element: none or a single one.
LEMMA AtMostOne ==
  ASSUME NEW S, IsFiniteSet(S), Cardinality(S) <= 1
  PROVE  S = {} \/ \E x : S = {x}
<1>1. Cardinality(S) \in Nat
  BY FS_CardinalityType
<1>2. Cardinality(S) = 0 \/ Cardinality(S) = 1
  BY <1>1
<1> QED BY <1>2, FS_EmptySet, FS_Singleton

\* An item without repeated rows has one row of problems, and what the row
\* says is broken is what all its problems say.
LEMMA OneProblem ==
  ASSUME NEW d, Typed(d), NoFanOut(d), NEW i \in d.item, NEW t
  PROVE  \E q : /\ ProblemsOf(d, i) = {q} /\ q.count \in Int
                /\ Pieces(d, i, t) = i.count - (IF t = "STOCK_PROBLEM" THEN 0 ELSE q.count)
<1> DEFINE S == {p \in d.problem : p.item = i.id}
<1>1. IsFiniteSet(S)
  BY FS_Subset DEF Typed, FiniteTables
<1>2. Cardinality(S) <= 1
  BY DEF NoFanOut
<1>3. \A p \in S : p.count \in Int
  BY DEF Typed
<1>4. Pieces(d, i, t) = i.count - (IF t = "STOCK_PROBLEM" THEN 0
                                ELSE MapThenSumSet(LAMBDA p : p.count, S))
  BY DEF Pieces
<1>5. ProblemsOf(d, i) = IF S = {} THEN {NoProblem}
                          ELSE {[id |-> p.id, count |-> p.count] : p \in S}
  BY DEF ProblemsOf
<1> HIDE DEF S
<1>6. Pieces(d, i, t) = i.count - (IF t = "STOCK_PROBLEM" THEN 0
                                ELSE Total(CountsIn(S), S))
  BY <1>1, <1>4, ProblemSum
<1>7. CASE S = {}
  <2>1. Total(CountsIn(S), S) = 0
    BY <1>7, TotalEmpty
  <2>2. ProblemsOf(d, i) = {NoProblem} /\ NoProblem.count = 0
    BY <1>5, <1>7 DEF NoProblem
  <2> QED BY <1>6, <2>1, <2>2
<1>8. CASE \E p : S = {p}
  <2>1. PICK p : S = {p}
    BY <1>8
  <2> DEFINE q == [id |-> p.id, count |-> p.count]
  <2>2. ProblemsOf(d, i) = {q}
    BY <1>5, <2>1
  <2>3. q.count = p.count /\ p.count \in Int
    BY <1>3, <2>1
  <2>4. Total(CountsIn(S), S) = p.count
    <3>1. \A x \in S : CountsIn(S)[x] \in Int
      BY <1>3 DEF CountsIn
    <3>2. CountsIn(S)[p] = p.count /\ p \in S
      BY <2>1 DEF CountsIn
    <3>3. Total(CountsIn(S), S) = CountsIn(S)[p] + Total(CountsIn(S), S \ {p})
      BY <1>1, <3>1, <3>2, TotalTake
    <3>4. S \ {p} = {}
      BY <2>1
    <3>5. Total(CountsIn(S), S \ {p}) = 0
      BY <3>4, TotalEmpty
    <3> QED BY <2>3, <3>2, <3>3, <3>5
  <2> HIDE DEF q
  <2> QED BY <1>6, <2>2, <2>3, <2>4
<1> QED BY <1>1, <1>2, <1>7, <1>8, AtMostOne

\* A transaction without repeated rows has one cost row, with its fee.
LEMMA OneCost ==
  ASSUME NEW d, Typed(d), NoFanOut(d)
  PROVE  \E q : CostsOf(d, Tx) = {q} /\ q.fee = Fee(d)
<1>1. IsFiniteSet(d.cost) /\ Cardinality(d.cost) <= 1
  BY DEF Typed, FiniteTables, NoFanOut
<1>2. {c \in d.cost : c.tx = Tx} = d.cost
  BY DEF Typed
<1>3. CostsOf(d, Tx) = IF d.cost = {} THEN {NoCost}
                        ELSE {[id |-> c.id, fee |-> c.fee] : c \in d.cost}
  BY <1>2 DEF CostsOf
<1>4. CASE d.cost = {}
  <2>1. CostsOf(d, Tx) = {NoCost}
    BY <1>3, <1>4
  <2>2. NoCost.fee = 0
    BY DEF NoCost
  <2> QED BY <1>4, <2>1, <2>2 DEF Fee
<1>5. CASE \E c : d.cost = {c}
  <2>1. PICK c : d.cost = {c}
    BY <1>5
  <2> DEFINE q == [id |-> c.id, fee |-> c.fee]
  <2>2. CostsOf(d, Tx) = {q}
    BY <1>3, <2>1
  <2>3. q.fee = 1
    BY <2>1 DEF Typed
  <2> HIDE DEF q
  <2> QED BY <2>1, <2>2, <2>3 DEF Fee
<1> QED BY <1>1, <1>4, <1>5, AtMostOne

ItemField(d, i, t, field) ==
  IF field = "count" THEN Pieces(d, i, t) ELSE Pieces(d, i, t) * (i.price + Fee(d))

ItemFields(d, t, field) == [i \in d.item |-> ItemField(d, i, t, field)]

\* The pieces of the items, and their price, as sums of numbers.
LEMMA PiecesTotal ==
  ASSUME NEW d, NEW t, NEW S, IsFiniteSet(S), S \subseteq d.item
  PROVE  MapThenSumSet(LAMBDA i : Pieces(d, i, t), S) = Total(ItemFields(d, t, "count"), S)
<1> DEFINE f == ItemFields(d, t, "count")
           IsFold(g) == g = [s \in SUBSET S |->
                              IF s = {} THEN 0 ELSE Pieces(d, Pick(s), t) + g[s \ {Pick(s)}]]
           fold == CHOOSE g : IsFold(g)
<1>1. MapThenSumSet(LAMBDA i : Pieces(d, i, t), S) = fold[S]
  BY DEF MapThenSumSet, MapThenFoldSet, Pick
<1>2. ASSUME NEW g
      PROVE  IsFold(g) <=> Adds(f, S, g)
  <2>1. ASSUME NEW s \in SUBSET S, s # {}
        PROVE  Pieces(d, Pick(s), t) = f[Pick(s)]
    <3>1. Pick(s) \in d.item
      BY <2>1, Picked
    <3> QED BY <3>1 DEF ItemFields, ItemField
  <2> HIDE DEF f
  <2> QED BY <2>1 DEF Adds
<1>3. PICK g : Adds(f, S, g)
  BY AddsExists
<1> HIDE DEF IsFold
<1>4. Adds(f, S, fold)
  BY <1>2, <1>3
<1> HIDE DEF f, fold
<1>5. Total(f, S) = fold[S]
  BY <1>4, TotalAdds
<1> QED BY <1>1, <1>5 DEF f

\* The same for the price of the pieces.
LEMMA PricesTotal ==
  ASSUME NEW d, NEW t, NEW S, IsFiniteSet(S), S \subseteq d.item
  PROVE  MapThenSumSet(LAMBDA i : Pieces(d, i, t) * (i.price + Fee(d)), S)
           = Total(ItemFields(d, t, "amount"), S)
<1> DEFINE f == ItemFields(d, t, "amount")
           worth(i) == Pieces(d, i, t) * (i.price + Fee(d))
           IsFold(g) == g = [s \in SUBSET S |->
                              IF s = {} THEN 0 ELSE worth(Pick(s)) + g[s \ {Pick(s)}]]
           fold == CHOOSE g : IsFold(g)
<1>1. MapThenSumSet(LAMBDA i : Pieces(d, i, t) * (i.price + Fee(d)), S) = fold[S]
  BY DEF MapThenSumSet, MapThenFoldSet, Pick
<1>2. ASSUME NEW g
      PROVE  IsFold(g) <=> Adds(f, S, g)
  <2>1. ASSUME NEW s \in SUBSET S, s # {}
        PROVE  worth(Pick(s)) = f[Pick(s)]
    <3>1. Pick(s) \in d.item
      BY <2>1, Picked
    <3> QED BY <3>1 DEF ItemFields, ItemField
  <2> HIDE DEF f, worth
  <2> QED BY <2>1 DEF Adds
<1>3. PICK g : Adds(f, S, g)
  BY AddsExists
<1> HIDE DEF IsFold
<1>4. Adds(f, S, fold)
  BY <1>2, <1>3
<1> HIDE DEF f, fold
<1>5. Total(f, S) = fold[S]
  BY <1>4, TotalAdds
<1> QED BY <1>1, <1>5 DEF f

\* Without repeated rows a row carries the pieces and the price of its item.
LEMMA RowOfItem ==
  ASSUME NEW d, Typed(d), NoFanOut(d), NEW t, NEW row \in JoinRows(d, Tx),
         NEW field \in {"count", "amount"}
  PROVE  /\ ItemField(d, row.item, t, field) \in Int
         /\ RowField(row, t, field) = Sign(t) * ItemField(d, row.item, t, field)
<1> DEFINE i == row.item
           n == Pieces(d, i, t)
           price == i.price + Fee(d)
<1>1. /\ i \in d.item /\ i.count \in Int /\ i.price \in Int
      /\ row.problem \in ProblemsOf(d, i) /\ row.cost \in CostsOf(d, Tx)
      /\ row.cost.fee \in Int
  BY RowTyped
<1> HIDE DEF i
<1>2. PICK p : /\ ProblemsOf(d, i) = {p} /\ p.count \in Int
               /\ n = i.count - (IF t = "STOCK_PROBLEM" THEN 0 ELSE p.count)
  BY <1>1, OneProblem
<1>3. row.problem = p
  BY <1>1, <1>2
<1>4. row.cost.fee = Fee(d)
  BY <1>1, OneCost
<1>5. n \in Int /\ price \in Int
  BY <1>1, <1>2, <1>4
<1>6. CountOf(row, t) = Sign(t) * n
  <2>1. CASE t = "STOCK_PROBLEM"
    <3>1. n = i.count
      BY <1>1, <1>2, <2>1
    <3>2. CountOf(row, t) = Sign(t) * i.count
      BY <2>1 DEF CountOf, i
    <3> QED BY <3>1, <3>2
  <2>2. CASE t # "STOCK_PROBLEM"
    <3>1. n = i.count - row.problem.count
      BY <1>2, <1>3, <2>2
    <3>2. CountOf(row, t) = Sign(t) * (i.count - row.problem.count)
      BY <2>2 DEF CountOf, i
    <3> QED BY <3>1, <3>2
  <2> QED BY <2>1, <2>2
<1>7. AmountOf(row, t) = CountOf(row, t) * price
  BY <1>4 DEF AmountOf, i
<1>8. Sign(t) = 1 \/ Sign(t) = -1
  BY DEF Sign
<1> HIDE DEF n, price
<1>9. n * price \in Int
  BY <1>5
<1>10. AmountOf(row, t) = Sign(t) * (n * price)
  <2>1. CASE Sign(t) = 1
    BY <1>5, <1>6, <1>7, <2>1
  <2>2. CASE Sign(t) = -1
    <3>1. AmountOf(row, t) = (-n) * price
      BY <1>5, <1>6, <1>7, <2>2
    <3>2. (-n) * price = -(n * price)
      BY <1>5
    <3> QED BY <1>9, <2>2, <3>1, <3>2
  <2> QED BY <1>8, <2>1, <2>2
<1>11. ItemField(d, i, t, field) = IF field = "count" THEN n ELSE n * price
  BY DEF ItemField, n, price
<1>12. RowField(row, t, field) = IF field = "count" THEN CountOf(row, t) ELSE AmountOf(row, t)
  BY DEF RowField
<1>13. ItemField(d, i, t, field) \in Int
  BY <1>5, <1>9, <1>11
<1>14. RowField(row, t, field) = Sign(t) * ItemField(d, i, t, field)
  BY <1>6, <1>10, <1>11, <1>12
<1> QED BY <1>13, <1>14 DEF i

\* A row that is not selected stands for no pieces.
LEMMA UnselectedIsNothing ==
  ASSUME NEW d, Typed(d), NEW t, NEW row \in JoinRows(d, Tx),
         row \notin ChangedRows(d, Tx, t), NEW field
  PROVE  RowField(row, t, field) = 0
<1>1. CountOf(row, t) = 0
  BY DEF ChangedRows, Typed
<1>2. row.item.price + row.cost.fee \in Int
  BY RowTyped
<1>3. AmountOf(row, t) = 0
  BY <1>1, <1>2 DEF AmountOf
<1> QED BY <1>1, <1>3 DEF RowField

\* A sum with every summand taken by the sign is the sum with the sign.
LEMMA TotalSigned ==
  ASSUME NEW S, IsFiniteSet(S), NEW t, NEW f, NEW g,
         \A x \in S : f[x] \in Int /\ g[x] = Sign(t) * f[x]
  PROVE  Total(g, S) = Sign(t) * Total(f, S)
<1>1. Total(f, S) \in Int
  BY TotalInt
<1>2. Sign(t) = 1 \/ Sign(t) = -1
  BY DEF Sign
<1>3. CASE Sign(t) = 1
  <2>1. \A x \in S : f[x] = g[x] /\ f[x] \in Int
    BY <1>3
  <2>2. Total(f, S) = Total(g, S)
    BY <2>1, TotalSame
  <2> QED BY <1>1, <1>3, <2>2
<1>4. CASE Sign(t) = -1
  <2>1. \A x \in S : f[x] \in Int /\ g[x] = -f[x]
    BY <1>4
  <2>2. Total(g, S) = -Total(f, S)
    BY <2>1, TotalNegated
  <2> QED BY <1>1, <1>4, <2>2
<1> QED BY <1>2, <1>3, <1>4

\* Without repeated rows the selected rows of a sku sum up to its items.
LEMMA RowsSumToItems ==
  ASSUME NEW d, Typed(d), NoFanOut(d), NEW t, NEW sku, NEW field \in {"count", "amount"}
  PROVE  Total(RowFields(d, t, field), RowsOf(d, t, sku))
           = Sign(t) * Total(ItemFields(d, t, field), SkuItems(d, sku))
<1> DEFINE A == {row \in JoinRows(d, Tx) : row.item.sku = sku}
           B == SkuItems(d, sku)
           f == RowFields(d, t, field)
           h == ItemFields(d, t, field)
           g == [i \in B |-> Sign(t) * h[i]]
           p == [row \in A |-> row.item]
<1>1. IsFiniteSet(A) /\ IsFiniteSet(B)
  <2>1. IsFiniteSet(JoinRows(d, Tx)) /\ IsFiniteSet(d.item)
    BY RowsFinite DEF Typed, FiniteTables
  <2>2. A \subseteq JoinRows(d, Tx) /\ B \subseteq d.item
    BY DEF SkuItems
  <2> HIDE DEF A, B
  <2> QED BY <2>1, <2>2, FS_Subset
<1>2. \A row \in A : f[row] = RowField(row, t, field)
  BY DEF RowFields
<1>3. \A i \in B : h[i] = ItemField(d, i, t, field) /\ g[i] = Sign(t) * h[i]
  BY DEF ItemFields, SkuItems
<1>4. \A row \in A : row \in JoinRows(d, Tx) /\ p[row] = row.item /\ row.item \in B
  <2>1. \A row \in JoinRows(d, Tx) : row.item \in d.item
    BY RowTyped
  <2> QED BY <2>1 DEF SkuItems
<1>5. p \in [A -> B]
  BY <1>4
<1>6. RowsOf(d, t, sku) \subseteq A
  BY DEF RowsOf, ChangedRows
<1>7. \A row \in A : row \notin RowsOf(d, t, sku) => row \notin ChangedRows(d, Tx, t)
  BY DEF RowsOf
<1>8. \A row1, row2 \in A : p[row1] = p[row2] => row1 = row2
  <2> SUFFICES ASSUME NEW row1 \in A, NEW row2 \in A, row1.item = row2.item
               PROVE  row1 = row2
    BY <1>4
  <2>1. /\ row1 = [item |-> row1.item, problem |-> row1.problem, cost |-> row1.cost]
        /\ row2 = [item |-> row2.item, problem |-> row2.problem, cost |-> row2.cost]
        /\ {row1.problem, row2.problem} \subseteq ProblemsOf(d, row1.item)
        /\ {row1.cost, row2.cost} \subseteq CostsOf(d, Tx)
        /\ row1.item \in d.item
    BY RowTyped
  <2>2. row1.problem = row2.problem
    <3> DEFINE i == row1.item
    <3>0. i \in d.item
      BY <2>1
    <3> HIDE DEF i, A, B, f, g, h, p
    <3>1. PICK q : ProblemsOf(d, i) = {q}
      BY <3>0, OneProblem
    <3> USE DEF i
    <3> QED BY <2>1, <3>1
  <2>3. row1.cost = row2.cost
    <3>1. PICK q : CostsOf(d, Tx) = {q}
      BY OneCost
    <3> QED BY <2>1, <3>1
  <2> QED BY <2>1, <2>2, <2>3
<1>9. \A i \in B : \E row \in A : p[row] = i
  <2> SUFFICES ASSUME NEW i \in B PROVE \E row \in A : row.item = i
    BY <1>4
  <2>1. i \in d.item /\ i.sku = sku
    BY DEF SkuItems
  <2>2. PICK q : ProblemsOf(d, i) = {q}
    BY <2>1, OneProblem
  <2>3. PICK c : CostsOf(d, Tx) = {c}
    BY OneCost
  <2> DEFINE row == [item |-> i, problem |-> q, cost |-> c]
  <2>4. row \in Joined(i, ProblemsOf(d, i), CostsOf(d, Tx))
    BY <2>2, <2>3 DEF Joined
  <2>5. i \in ItemsOf(d, Tx)
    BY <2>1 DEF ItemsOf, Typed
  <2>6. row \in JoinRows(d, Tx)
    BY <2>4, <2>5 DEF JoinRows
  <2>7. row \in A /\ row.item = i
    BY <2>1, <2>6
  <2> QED BY <2>7
<1> HIDE DEF A, B, f, g, h, p
<1>10. \A row \in A : /\ h[row.item] \in Int
                      /\ f[row] = Sign(t) * h[row.item]
                      /\ f[row] = g[p[row]] /\ f[row] \in Int
  <2> SUFFICES ASSUME NEW row \in A
               PROVE  /\ h[row.item] \in Int
                      /\ f[row] = Sign(t) * h[row.item]
                      /\ f[row] = g[p[row]] /\ f[row] \in Int
    OBVIOUS
  <2>1. row \in JoinRows(d, Tx) /\ p[row] = row.item /\ row.item \in B
    BY <1>4
  <2>2. /\ ItemField(d, row.item, t, field) \in Int
        /\ RowField(row, t, field) = Sign(t) * ItemField(d, row.item, t, field)
    BY <2>1, RowOfItem
  <2>3. h[row.item] = ItemField(d, row.item, t, field) /\ g[row.item] = Sign(t) * h[row.item]
    BY <1>3, <2>1
  <2>4. Sign(t) \in Int
    BY DEF Sign
  <2> QED BY <1>2, <2>1, <2>2, <2>3, <2>4
<1>11. Total(f, RowsOf(d, t, sku)) = Total(f, A)
  <2>1. \A row \in A : f[row] \in Int
    BY <1>10
  <2>2. \A row \in A \ RowsOf(d, t, sku) : f[row] = 0
    BY <1>2, <1>4, <1>7, UnselectedIsNothing
  <2> QED BY <1>1, <1>6, <2>1, <2>2, TotalDropped
<1>12. Total(f, A) = Total(g, B)
  <2>1. \A row \in A : f[row] = g[p[row]] /\ f[row] \in Int
    BY <1>10
  <2>2. IsFiniteSet(A) /\ IsFiniteSet(B)
    BY <1>1
  <2> QED BY <2>1, <2>2, <1>5, <1>8, <1>9, TotalMoved
<1>13. \A i \in B : h[i] \in Int /\ g[i] = Sign(t) * h[i]
  BY <1>3, <1>4, <1>9, <1>10
<1>14. Total(g, B) = Sign(t) * Total(h, B)
  BY <1>1, <1>13, TotalSigned
<1> QED BY <1>11, <1>12, <1>14 DEF f, h, B

\* Where no joined row repeats, the change log moves, per sku, the pieces of the
\* transaction that are not broken and their price with the restock fee, in the
\* direction of the type.
THEOREM TotalsMatchHolds == Spec => []TotalsMatchTransaction
<1>1. CheckInv => TotalsMatchTransaction
  <2> SUFFICES ASSUME CheckInv, result.tag = "event", NoFanOut(db), NEW sku \in Skus
               PROVE  /\ LogTotal(result, sku, "count")
                           = Sign(type) * MapThenSumSet(LAMBDA i : Pieces(db, i, type),
                                                        SkuItems(db, sku))
                      /\ LogTotal(result, sku, "amount")
                           = Sign(type) * MapThenSumSet(
                               LAMBDA i : Pieces(db, i, type) * (i.price + Fee(db)), SkuItems(db, sku))
    BY DEF TotalsMatchTransaction
  <2>t. Typed(db)
    BY DEF CheckInv
  <2>1. result \in CreateStockChangeLog(db, "m", Tx, type)
    BY DEF CheckInv, Answered, Nothing
  <2>2. result \in Logged(db, "m", Tx, type)
    BY <2>1, EventLogged
  <2>3. ASSUME NEW field \in {"count", "amount"}
        PROVE  LogTotal(result, sku, field)
                 = Sign(type) * Total(ItemFields(db, type, field), SkuItems(db, sku))
    BY <2>t, <2>2, LogSum, RowsSumToItems
  <2>4. IsFiniteSet(SkuItems(db, sku)) /\ SkuItems(db, sku) \subseteq db.item
    <3>1. SkuItems(db, sku) \subseteq db.item
      BY DEF SkuItems
    <3> QED BY <2>t, <3>1, FS_Subset DEF Typed, FiniteTables
  <2>5. MapThenSumSet(LAMBDA i : Pieces(db, i, type), SkuItems(db, sku))
          = Total(ItemFields(db, type, "count"), SkuItems(db, sku))
    BY <2>4, PiecesTotal
  <2>6. MapThenSumSet(LAMBDA i : Pieces(db, i, type) * (i.price + Fee(db)), SkuItems(db, sku))
          = Total(ItemFields(db, type, "amount"), SkuItems(db, sku))
    BY <2>4, PricesTotal
  <2> QED BY <2>3, <2>5, <2>6
<1> QED BY <1>1, CheckHolds, PTL

-----------------------------------------------------------------------------
(* A cancellation against what it cancels. *)

\* The rows of a cancellation are those of what it cancels, with the other sign.
LEMMA UndoneRows ==
  ASSUME NEW d, Typed(d), NEW t \in DOMAIN Undoes
  PROVE  /\ ChangedRows(d, Tx, Undoes[t]) = ChangedRows(d, Tx, t)
         /\ \A row \in JoinRows(d, Tx) :
              /\ CountOf(row, t) = -CountOf(row, Undoes[t])
              /\ AmountOf(row, t) = -AmountOf(row, Undoes[t])
<1>1. /\ t \in {"ORDER_CANCELED", "TRANSFER_OUT_CANCELED"}
      /\ Undoes[t] \in {"ORDER_ACCEPTED", "TRANSFER_OUT"}
  BY DEF Undoes
<1>2. Sign(t) = 1 /\ Sign(Undoes[t]) = -1
  BY <1>1 DEF Sign, DebitTypes
<1>3. ASSUME NEW row \in JoinRows(d, Tx)
      PROVE  /\ CountOf(row, t) \in Int /\ CountOf(row, Undoes[t]) \in Int
             /\ CountOf(row, t) = -CountOf(row, Undoes[t])
  <2>1. row.item.count \in Int /\ row.problem.count \in Int
    BY RowTyped
  <2>2. CountOf(row, t) = 1 * (row.item.count - row.problem.count)
    BY <1>1, <1>2 DEF CountOf
  <2>3. CountOf(row, Undoes[t]) = (-1) * (row.item.count - row.problem.count)
    BY <1>1, <1>2 DEF CountOf
  <2> QED BY <2>1, <2>2, <2>3
<1>4. ASSUME NEW row \in JoinRows(d, Tx)
      PROVE  AmountOf(row, t) = -AmountOf(row, Undoes[t])
  <2> DEFINE n == CountOf(row, Undoes[t])
             price == row.item.price + row.cost.fee
  <2>1. price \in Int
    BY RowTyped
  <2>2. n \in Int /\ CountOf(row, t) = -n
    BY <1>3
  <2>3. AmountOf(row, t) = CountOf(row, t) * price /\ AmountOf(row, Undoes[t]) = n * price
    BY DEF AmountOf
  <2> HIDE DEF n, price
  <2> QED BY <2>1, <2>2, <2>3
<1>5. ChangedRows(d, Tx, Undoes[t]) = ChangedRows(d, Tx, t)
  <2>1. \A row \in JoinRows(d, Tx) : CountOf(row, t) # 0 <=> CountOf(row, Undoes[t]) # 0
    BY <1>3
  <2> QED BY <2>1 DEF ChangedRows
<1> QED BY <1>3, <1>4, <1>5

\* The rows of a sku that were booked upon for other items only are selected
\* by the cancellation as they were by what it cancels.
LEMMA SameSelected ==
  ASSUME NEW d, Typed(d), NEW e, Typed(e), d.item = e.item, d.cost = e.cost, NEW sku,
         \A i \in SkuItems(e, sku) : ProblemsOf(d, i) = ProblemsOf(e, i), NEW t
  PROVE  RowsOf(d, t, sku) = RowsOf(e, t, sku)
<1>1. ItemsOf(d, Tx) = ItemsOf(e, Tx) /\ CostsOf(d, Tx) = CostsOf(e, Tx)
  BY DEF ItemsOf, CostsOf
<1>2. \A i \in ItemsOf(e, Tx) : i.sku = sku => ProblemsOf(d, i) = ProblemsOf(e, i)
  BY DEF ItemsOf, SkuItems
<1> DEFINE InJoin(u, row) == \E i \in ItemsOf(u, Tx) :
                               row \in Joined(i, ProblemsOf(u, i), CostsOf(u, Tx))
<1>3. \A u, row : row \in JoinRows(u, Tx) <=> InJoin(u, row)
  BY DEF JoinRows
<1>4. \A i, P, C, row : row \in Joined(i, P, C) => row.item = i
  BY DEF Joined
<1>5. \A row : row.item.sku = sku => (InJoin(d, row) <=> InJoin(e, row))
  BY <1>1, <1>2, <1>4
<1> HIDE DEF InJoin
<1>6. \A row : row.item.sku = sku => (row \in JoinRows(d, Tx) <=> row \in JoinRows(e, Tx))
  BY <1>3, <1>5
<1> QED BY <1>6 DEF RowsOf, ChangedRows, Typed

\* Of such a sku the two events move nothing together.
LEMMA SameUndone ==
  ASSUME NEW d, Typed(d), NEW e, Typed(e), d.item = e.item, d.cost = e.cost, NEW sku,
         \A i \in SkuItems(e, sku) : ProblemsOf(d, i) = ProblemsOf(e, i),
         NEW t \in DOMAIN Undoes, NEW field \in {"count", "amount"}
  PROVE  Total(RowFields(d, Undoes[t], field), RowsOf(d, Undoes[t], sku))
           + Total(RowFields(e, t, field), RowsOf(e, t, sku)) = 0
<1> DEFINE took == RowFields(d, Undoes[t], field)
           back == RowFields(e, t, field)
           S == RowsOf(e, t, sku)
<1>1. RowsOf(d, Undoes[t], sku) = S
  <2>1. RowsOf(d, Undoes[t], sku) = RowsOf(e, Undoes[t], sku)
    BY SameSelected
  <2>2. ChangedRows(e, Tx, Undoes[t]) = ChangedRows(e, Tx, t)
    BY UndoneRows
  <2> QED BY <2>1, <2>2 DEF RowsOf
<1>2. S \subseteq JoinRows(e, Tx) /\ S \subseteq JoinRows(d, Tx) /\ IsFiniteSet(S)
  <2>1. S \subseteq JoinRows(e, Tx) /\ RowsOf(d, Undoes[t], sku) \subseteq JoinRows(d, Tx)
    BY DEF RowsOf, ChangedRows
  <2>2. IsFiniteSet(JoinRows(e, Tx))
    BY RowsFinite
  <2> HIDE DEF S
  <2> QED BY <1>1, <2>1, <2>2, FS_Subset
<1>3. ASSUME NEW row \in S
      PROVE  took[row] \in Int /\ back[row] = -took[row]
  <2>1. row \in JoinRows(e, Tx) /\ row \in JoinRows(d, Tx)
    BY <1>2
  <2>2. took[row] = RowField(row, Undoes[t], field) /\ back[row] = RowField(row, t, field)
    BY <2>1 DEF RowFields
  <2>3. CountOf(row, Undoes[t]) \in Int /\ AmountOf(row, Undoes[t]) \in Int
    BY <2>1, RowTyped
  <2>4. CountOf(row, t) = -CountOf(row, Undoes[t])
        /\ AmountOf(row, t) = -AmountOf(row, Undoes[t])
    BY <2>1, UndoneRows
  <2> HIDE DEF took, back
  <2> QED BY <2>2, <2>3, <2>4 DEF RowField
<1> HIDE DEF took, back, S
<1>4. Total(back, S) = -Total(took, S) /\ Total(took, S) \in Int
  BY <1>2, <1>3, TotalNegated, TotalInt
<1>5. Total(took, S) + Total(back, S) = 0
  BY <1>4
<1> QED BY <1>1, <1>5 DEF took, back, S

\* Without repeated rows the pieces of an item and their price are numbers.
LEMMA ItemTyped ==
  ASSUME NEW d, Typed(d), NoFanOut(d), NEW i \in d.item, NEW t
  PROVE  /\ Pieces(d, i, t) \in Int /\ i.price + Fee(d) \in Int
         /\ ItemField(d, i, t, "count") = Pieces(d, i, t)
         /\ ItemField(d, i, t, "amount") = Pieces(d, i, t) * (i.price + Fee(d))
<1>1. i.count \in Int /\ i.price \in Int
  BY DEF Typed
<1>2. PICK q : /\ q.count \in Int
               /\ Pieces(d, i, t) = i.count - (IF t = "STOCK_PROBLEM" THEN 0 ELSE q.count)
  BY OneProblem
<1>3. Pieces(d, i, t) \in Int
  BY <1>1, <1>2
<1>4. Fee(d) \in Int
  BY DEF Fee
<1> QED BY <1>1, <1>3, <1>4 DEF ItemField

\* What was broken in between, as sums of numbers.
BrokenField(i, field) ==
  IF field = "count" THEN BrokenSince(i) ELSE BrokenSince(i) * (i.price + Fee(db))

BrokenFields(field) == [i \in db.item |-> BrokenField(i, field)]

\* The sum of the pieces reported broken.
LEMMA BrokenTotal ==
  ASSUME NEW S, IsFiniteSet(S), S \subseteq db.item
  PROVE  MapThenSumSet(LAMBDA i : BrokenSince(i), S) = Total(BrokenFields("count"), S)
<1> DEFINE f == BrokenFields("count")
           IsFold(g) == g = [s \in SUBSET S |->
                              IF s = {} THEN 0 ELSE BrokenSince(Pick(s)) + g[s \ {Pick(s)}]]
           fold == CHOOSE g : IsFold(g)
<1>1. MapThenSumSet(LAMBDA i : BrokenSince(i), S) = fold[S]
  BY DEF MapThenSumSet, MapThenFoldSet, Pick
<1>2. ASSUME NEW g
      PROVE  IsFold(g) <=> Adds(f, S, g)
  <2>1. ASSUME NEW s \in SUBSET S, s # {}
        PROVE  BrokenSince(Pick(s)) = f[Pick(s)]
    <3>1. Pick(s) \in db.item
      BY <2>1, Picked
    <3> QED BY <3>1 DEF BrokenFields, BrokenField
  <2> HIDE DEF f
  <2> QED BY <2>1 DEF Adds
<1>3. PICK g : Adds(f, S, g)
  BY AddsExists
<1> HIDE DEF IsFold
<1>4. Adds(f, S, fold)
  BY <1>2, <1>3
<1> HIDE DEF f, fold
<1>5. Total(f, S) = fold[S]
  BY <1>4, TotalAdds
<1> QED BY <1>1, <1>5 DEF f

\* The sum of their price.
LEMMA BrokenPriceTotal ==
  ASSUME NEW S, IsFiniteSet(S), S \subseteq db.item
  PROVE  MapThenSumSet(LAMBDA i : BrokenSince(i) * (i.price + Fee(db)), S)
           = Total(BrokenFields("amount"), S)
<1> DEFINE f == BrokenFields("amount")
           worth(i) == BrokenSince(i) * (i.price + Fee(db))
           IsFold(g) == g = [s \in SUBSET S |->
                              IF s = {} THEN 0 ELSE worth(Pick(s)) + g[s \ {Pick(s)}]]
           fold == CHOOSE g : IsFold(g)
<1>1. MapThenSumSet(LAMBDA i : BrokenSince(i) * (i.price + Fee(db)), S) = fold[S]
  BY DEF MapThenSumSet, MapThenFoldSet, Pick
<1>2. ASSUME NEW g
      PROVE  IsFold(g) <=> Adds(f, S, g)
  <2>1. ASSUME NEW s \in SUBSET S, s # {}
        PROVE  worth(Pick(s)) = f[Pick(s)]
    <3>1. Pick(s) \in db.item
      BY <2>1, Picked
    <3> QED BY <3>1 DEF BrokenFields, BrokenField
  <2> HIDE DEF f, worth
  <2> QED BY <2>1 DEF Adds
<1>3. PICK g : Adds(f, S, g)
  BY AddsExists
<1> HIDE DEF IsFold
<1>4. Adds(f, S, fold)
  BY <1>2, <1>3
<1> HIDE DEF f, fold
<1>5. Total(f, S) = fold[S]
  BY <1>4, TotalAdds
<1> QED BY <1>1, <1>5 DEF f

\* Without repeated rows at either moment the two events leave behind what was
\* reported broken in between.
LEMMA BrokenLeft ==
  ASSUME Typed(past.db), NoFanOut(past.db), Typed(db), NoFanOut(db),
         past.db.item = db.item, type \in DOMAIN Undoes, past.type = Undoes[type],
         NEW sku, NEW field \in {"count", "amount"},
         field = "amount" => past.db.cost = db.cost
  PROVE  Total(RowFields(past.db, past.type, field), RowsOf(past.db, past.type, sku))
           + Total(RowFields(db, type, field), RowsOf(db, type, sku))
           = -Total(BrokenFields(field), SkuItems(db, sku))
<1> DEFINE S == SkuItems(db, sku)
           before == ItemFields(past.db, past.type, field)
           now == ItemFields(db, type, field)
           broken == BrokenFields(field)
<1>1. S \subseteq db.item /\ IsFiniteSet(S) /\ SkuItems(past.db, sku) = S
  <2>1. S \subseteq db.item /\ SkuItems(past.db, sku) = S
    BY DEF SkuItems
  <2> QED BY <2>1, FS_Subset DEF Typed, FiniteTables
<1>2. Sign(type) = 1 /\ Sign(past.type) = -1
  BY DEF Undoes, Sign, DebitTypes
<1>3. ASSUME NEW i \in S
      PROVE  before[i] \in Int /\ now[i] \in Int /\ broken[i] = before[i] - now[i]
  <2> DEFINE m == Pieces(past.db, i, past.type)
             n == Pieces(db, i, type)
             price == i.price + Fee(db)
  <2>1. i \in db.item
    BY <1>1
  <2>2. /\ m \in Int /\ i.price + Fee(past.db) \in Int
        /\ before[i] = IF field = "count" THEN m ELSE m * (i.price + Fee(past.db))
    BY <2>1, ItemTyped DEF ItemFields
  <2>3. /\ n \in Int /\ price \in Int
        /\ now[i] = IF field = "count" THEN n ELSE n * price
    BY <2>1, ItemTyped DEF ItemFields
  <2>4. field = "amount" => i.price + Fee(past.db) = price
    BY DEF Fee
  <2>5. broken[i] = IF field = "count" THEN m - n ELSE (m - n) * price
    BY <2>1 DEF BrokenFields, BrokenField, BrokenSince
  <2> HIDE DEF m, n, price, before, now, broken
  <2>6. CASE field = "count"
    BY <2>2, <2>3, <2>5, <2>6
  <2>7. CASE field = "amount"
    <3>1. before[i] = m * price /\ now[i] = n * price /\ broken[i] = (m - n) * price
      BY <2>2, <2>3, <2>4, <2>5, <2>7
    <3>2. (m - n) * price = m * price - n * price
      BY <2>2, <2>3
    <3>3. m * price \in Int /\ n * price \in Int
      BY <2>2, <2>3
    <3> QED BY <3>1, <3>2, <3>3
  <2> QED BY <2>6, <2>7
<1>4. Total(RowFields(past.db, past.type, field), RowsOf(past.db, past.type, sku))
        = Sign(past.type) * Total(before, S)
  BY <1>1, RowsSumToItems
<1>5. Total(RowFields(db, type, field), RowsOf(db, type, sku)) = Sign(type) * Total(now, S)
  BY RowsSumToItems
<1> HIDE DEF S, before, now, broken
<1>6. Total(broken, S) = Total(before, S) - Total(now, S)
  BY <1>1, <1>3, TotalLess
<1>7. Total(before, S) \in Int /\ Total(now, S) \in Int
  BY <1>1, <1>3, TotalInt
<1>8. (-1) * Total(before, S) + 1 * Total(now, S) = -Total(broken, S)
  BY <1>6, <1>7
<1> QED BY <1>2, <1>4, <1>5, <1>8 DEF S, broken

\* A cancellation reads the tables anew.  It gives back all that was taken of a
\* sku whose rows are as they were, for any number of joined rows; without
\* repeated rows, what was taken but for the pieces reported broken in between.
THEOREM CancelGivesBackHolds == Spec => []CancelGivesBack
<1>1. CheckInv => CancelGivesBack
  <2> SUFFICES ASSUME CheckInv, past.type # "none", result.tag = "event", NEW sku \in Skus
               PROVE  /\ SameRows(sku) => \A field \in Fields : Left(sku, field) = 0
                      /\ NoFanOut(past.db) /\ NoFanOut(db) =>
                           /\ Left(sku, "count")
                                = -MapThenSumSet(LAMBDA i : BrokenSince(i), SkuItems(db, sku))
                           /\ past.db.cost = db.cost =>
                                Left(sku, "amount")
                                  = -MapThenSumSet(
                                       LAMBDA i : BrokenSince(i) * (i.price + Fee(db)),
                                       SkuItems(db, sku))
    BY DEF CancelGivesBack
  <2>1. Typed(db) /\ Typed(past.db) /\ past.db.item = db.item
    BY DEF CheckInv, Remembered
  <2>2. /\ type \in ChangeTypes
        /\ result \in CreateStockChangeLog(db, "m", Tx, type)
    BY DEF CheckInv, Answered, Nothing
  <2>3. type \in DOMAIN Undoes /\ past.type = Undoes[type]
    <3>1. type # "none"
      BY <2>2 DEF ChangeTypes, DebitTypes, CreditTypes
    <3> QED BY <3>1 DEF CheckInv, Remembered
  <2>4. result \in Logged(db, "m", Tx, type)
    BY <2>2, EventLogged
  <2>5. PICK r \in Logged(past.db, "m", Tx, past.type) : past.taken = TakenOf(r)
    BY DEF CheckInv, Remembered
  <2>6. ASSUME NEW field \in {"count", "amount"}
        PROVE  Left(sku, field)
                 = Total(RowFields(past.db, past.type, field), RowsOf(past.db, past.type, sku))
                   + Total(RowFields(db, type, field), RowsOf(db, type, sku))
    <3>1. past.taken[sku][field] = LogTotal(r, sku, field)
      BY <2>5 DEF TakenOf, Fields
    <3>2. LogTotal(r, sku, field)
            = Total(RowFields(past.db, past.type, field), RowsOf(past.db, past.type, sku))
      BY <2>1, <2>5, LogSum
    <3>3. LogTotal(result, sku, field) = Total(RowFields(db, type, field), RowsOf(db, type, sku))
      BY <2>1, <2>4, LogSum
    <3> QED BY <3>1, <3>2, <3>3 DEF Left
  <2>7. ASSUME SameRows(sku), NEW field \in Fields
        PROVE  Left(sku, field) = 0
    <3>1. field \in {"count", "amount"}
      BY DEF Fields
    <3>2. /\ past.db.cost = db.cost
          /\ \A i \in SkuItems(db, sku) : ProblemsOf(past.db, i) = ProblemsOf(db, i)
      BY <2>7 DEF SameRows
    <3> QED BY <2>1, <2>3, <2>6, <3>1, <3>2, SameUndone
  <2>8. IsFiniteSet(SkuItems(db, sku)) /\ SkuItems(db, sku) \subseteq db.item
    <3>1. SkuItems(db, sku) \subseteq db.item
      BY DEF SkuItems
    <3> QED BY <2>1, <3>1, FS_Subset DEF Typed, FiniteTables
  <2>9. ASSUME NoFanOut(past.db), NoFanOut(db)
        PROVE  Left(sku, "count")
                 = -MapThenSumSet(LAMBDA i : BrokenSince(i), SkuItems(db, sku))
    <3>1. Left(sku, "count") = -Total(BrokenFields("count"), SkuItems(db, sku))
      BY <2>1, <2>3, <2>6, <2>9, BrokenLeft
    <3>2. MapThenSumSet(LAMBDA i : BrokenSince(i), SkuItems(db, sku))
            = Total(BrokenFields("count"), SkuItems(db, sku))
      BY <2>8, BrokenTotal
    <3> QED BY <3>1, <3>2
  <2>10. ASSUME NoFanOut(past.db), NoFanOut(db), past.db.cost = db.cost
         PROVE  Left(sku, "amount")
                  = -MapThenSumSet(LAMBDA i : BrokenSince(i) * (i.price + Fee(db)),
                                   SkuItems(db, sku))
    <3>1. Left(sku, "amount") = -Total(BrokenFields("amount"), SkuItems(db, sku))
      BY <2>1, <2>3, <2>6, <2>10, BrokenLeft
    <3>2. MapThenSumSet(LAMBDA i : BrokenSince(i) * (i.price + Fee(db)), SkuItems(db, sku))
            = Total(BrokenFields("amount"), SkuItems(db, sku))
      BY <2>8, BrokenPriceTotal
    <3> QED BY <3>1, <3>2
  <2> QED BY <2>7, <2>9, <2>10
<1> QED BY <1>1, CheckHolds, PTL
=============================================================================
