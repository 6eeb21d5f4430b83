-------------------------- MODULE ChangeLog_proofs -------------------------
(***************************************************************************)
(* What the proofs about stock need of finite sets and of                  *)
(* CreateStockChangeLog, for any contents of the tables it reads: its      *)
(* query has finitely many rows, and sums over sets follow the laws of     *)
(* addition whatever order they are taken in.                              *)
(***************************************************************************)
EXTENDS ChangeLog, FiniteSetTheorems, WellFoundedInduction, TLAPS

-----------------------------------------------------------------------------
(* Finite images, unions and joins. *)

\* A function with a finite domain has finitely many values.
LEMMA FiniteImage ==
  ASSUME NEW S, IsFiniteSet(S), NEW f, DOMAIN f = S
  PROVE  IsFiniteSet({f[x] : x \in S})
<1> DEFINE T == {f[x] : x \in S}
           g == [x \in S |-> f[x]]
<1>1. g \in Surjection(S, T)
  BY DEF Surjection
<1> QED BY <1>1, FS_Surjection

\* A finite union of finite sets is finite.
LEMMA FiniteUnion ==
  ASSUME NEW S, IsFiniteSet(S), NEW f, DOMAIN f = S,
         \A x \in S : IsFiniteSet(f[x])
  PROVE  IsFiniteSet(UNION {f[x] : x \in S})
<1>1. IsFiniteSet({f[x] : x \in S})
  BY FiniteImage
<1>2. \A part \in {f[x] : x \in S} : IsFiniteSet(part)
  OBVIOUS
<1> QED BY <1>1, <1>2, FS_UNION

\* The join rows of one item are finitely many.
LEMMA FiniteJoin ==
  ASSUME NEW i, NEW P, IsFiniteSet(P), NEW C, IsFiniteSet(C)
  PROVE  IsFiniteSet(Joined(i, P, C))
<1> DEFINE join == [q \in P \X C |-> [item |-> i, problem |-> q[1], cost |-> q[2]]]
<1>1. IsFiniteSet(P \X C)
  BY FS_Product
<1>2. DOMAIN join = P \X C
  OBVIOUS
<1>3. IsFiniteSet({join[q] : q \in P \X C})
  <2> HIDE DEF join
  <2> QED BY <1>1, <1>2, FiniteImage
<1>4. {join[q] : q \in P \X C}
        = {[item |-> i, problem |-> p, cost |-> c] : p \in P, c \in C}
  <2> DEFINE rows == {[item |-> i, problem |-> p, cost |-> c] : p \in P, c \in C}
  <2>1. ASSUME NEW q \in P \X C
        PROVE  join[q] \in rows
    <3>1. join[q] = [item |-> i, problem |-> q[1], cost |-> q[2]]
      OBVIOUS
    <3>2. q[1] \in P /\ q[2] \in C
      OBVIOUS
    <3> QED BY <3>1, <3>2
  <2>2. ASSUME NEW r \in rows
        PROVE  \E q \in P \X C : r = join[q]
    <3>1. PICK p \in P, c \in C : r = [item |-> i, problem |-> p, cost |-> c]
      OBVIOUS
    <3>2. <<p, c>> \in P \X C /\ <<p, c>>[1] = p /\ <<p, c>>[2] = c
      OBVIOUS
    <3>3. join[<<p, c>>] = [item |-> i, problem |-> p, cost |-> c]
      BY <3>2
    <3> QED BY <3>1, <3>2, <3>3
  <2> HIDE DEF join, rows
  <2>3. {join[q] : q \in P \X C} = rows
    BY <2>1, <2>2
  <2> QED BY <2>3 DEF rows
<1> QED BY <1>3, <1>4 DEF Joined

\* The tables of the second query have finitely many rows.
FiniteTables(db) ==
  IsFiniteSet(db.item) /\ IsFiniteSet(db.problem) /\ IsFiniteSet(db.cost)

\* An item has finitely many problem rows.
LEMMA ProblemsFinite ==
  ASSUME NEW db, FiniteTables(db), NEW i
  PROVE  IsFiniteSet(ProblemsOf(db, i))
<1> DEFINE found == {p \in db.problem : p.item = i.id}
           pick == [p \in found |-> [id |-> p.id, count |-> p.count]]
<1>1. IsFiniteSet(found)
  BY FS_Subset DEF FiniteTables
<1>2. DOMAIN pick = found
  OBVIOUS
<1>3. IsFiniteSet({pick[p] : p \in found})
  <2> HIDE DEF found, pick
  <2> QED BY <1>1, <1>2, FiniteImage
<1>4. {pick[p] : p \in found} = {[id |-> p.id, count |-> p.count] : p \in found}
  OBVIOUS
<1>5. IsFiniteSet({NoProblem})
  BY FS_Singleton
<1> QED BY <1>3, <1>4, <1>5 DEF ProblemsOf

\* A transaction has finitely many restock costs.
LEMMA CostsFinite ==
  ASSUME NEW db, FiniteTables(db), NEW tx
  PROVE  IsFiniteSet(CostsOf(db, tx))
<1> DEFINE found == {c \in db.cost : c.tx = tx}
           pick == [c \in found |-> [id |-> c.id, fee |-> c.fee]]
<1>1. IsFiniteSet(found)
  BY FS_Subset DEF FiniteTables
<1>2. DOMAIN pick = found
  OBVIOUS
<1>3. IsFiniteSet({pick[c] : c \in found})
  <2> HIDE DEF found, pick
  <2> QED BY <1>1, <1>2, FiniteImage
<1>4. {pick[c] : c \in found} = {[id |-> c.id, fee |-> c.fee] : c \in found}
  OBVIOUS
<1>5. IsFiniteSet({NoCost})
  BY FS_Singleton
<1> QED BY <1>3, <1>4, <1>5 DEF CostsOf

\* A query over finite tables has finitely many rows.
LEMMA JoinFinite ==
  ASSUME NEW db, FiniteTables(db), NEW tx
  PROVE  IsFiniteSet(JoinRows(db, tx))
<1> DEFINE rowsOf == [i \in ItemsOf(db, tx) |->
                        Joined(i, ProblemsOf(db, i), CostsOf(db, tx))]
<1>1. IsFiniteSet(ItemsOf(db, tx))
  BY FS_Subset DEF FiniteTables, ItemsOf
<1>2. DOMAIN rowsOf = ItemsOf(db, tx)
  OBVIOUS
<1>3. ASSUME NEW i \in ItemsOf(db, tx)
      PROVE  IsFiniteSet(rowsOf[i])
  <2>1. IsFiniteSet(ProblemsOf(db, i)) /\ IsFiniteSet(CostsOf(db, tx))
    BY ProblemsFinite, CostsFinite
  <2> QED BY <2>1, FiniteJoin
<1>4. IsFiniteSet(UNION {rowsOf[i] : i \in ItemsOf(db, tx)})
  <2> HIDE DEF rowsOf
  <2> QED BY <1>1, <1>2, <1>3, FiniteUnion
<1>5. \A i \in ItemsOf(db, tx) :
        rowsOf[i] = Joined(i, ProblemsOf(db, i), CostsOf(db, tx))
  OBVIOUS
<1>6. UNION {rowsOf[i] : i \in ItemsOf(db, tx)} = JoinRows(db, tx)
  <2> HIDE DEF rowsOf
  <2> QED BY <1>5 DEF JoinRows
<1> QED BY <1>4, <1>6

\* An order of the rows of a finite set names every one of them.
LEMMA OrderCovers ==
  ASSUME NEW S, IsFiniteSet(S), NEW order \in SetToSeqs(S)
  PROVE  /\ Range(order) = S /\ DOMAIN order = 1 .. Len(order) /\ Len(order) \in Nat
         /\ \A i, j \in 1 .. Len(order) : order[i] = order[j] => i = j
<1>1. Cardinality(S) \in Nat
  BY FS_CardinalityType
<1>2. order \in [1 .. Cardinality(S) -> S] /\ order \in Injection(1 .. Cardinality(S), S)
  BY DEF SetToSeqs, Injection, IsInjective
<1>3. IsFiniteSet(1 .. Cardinality(S)) /\ Cardinality(1 .. Cardinality(S)) = Cardinality(S)
  BY <1>1, FS_Interval
<1>4. order \in Surjection(1 .. Cardinality(S), S)
  BY <1>2, <1>3, FS_Injection
<1>5. Range(order) = S
  BY <1>2, <1>4 DEF Range, Surjection
<1>6. order \in Seq(S)
  BY <1>1, <1>2
<1>7. DOMAIN order = 1 .. Len(order) /\ Len(order) \in Nat
  BY <1>6
<1>8. \A i, j \in 1 .. Len(order) : order[i] = order[j] => i = j
  <2>1. 1 .. Len(order) = 1 .. Cardinality(S)
    BY <1>2, <1>7
  <2> QED BY <2>1 DEF SetToSeqs
<1> QED BY <1>5, <1>7, <1>8

\* The rows of a finite set can be put in an order.
LEMMA SomeOrder ==
  ASSUME NEW S, IsFiniteSet(S)
  PROVE  \E order : order \in SetToSeqs(S)
<1>1. PICK n \in Nat : ExistsBijection(1 .. n, S)
  BY FS_NatBijection
<1>2. n = Cardinality(S)
  BY <1>1, FS_CountingElements
<1>3. PICK order : order \in Bijection(1 .. n, S)
  BY <1>1 DEF ExistsBijection
<1>4. order \in [1 .. n -> S] /\ \A i, j \in 1 .. n : i # j => order[i] # order[j]
  BY <1>3 DEF Bijection, Injection, IsInjective
<1> QED BY <1>2, <1>4 DEF SetToSeqs

-----------------------------------------------------------------------------
(* Sums over finite sets.  Instead of an induction: of the subsets for     *)
(* which a fact is wrong there is a smallest.                              *)

\* A set of finite sets has one that contains no other of them.
LEMMA Smallest ==
  ASSUME NEW S, IsFiniteSet(S), NEW Bad, Bad \subseteq SUBSET S, Bad # {}
  PROVE  \E T \in Bad : \A U \in Bad : U \subseteq T => U = T
<1>1. IsWellFoundedOn(StrictSubsetOrdering(S), SUBSET S)
  BY FS_StrictSubsetOrderingWellFounded, FS_FiniteSubsetsOfFinite
<1>2. PICK T \in Bad : \A U \in Bad : <<U, T>> \notin StrictSubsetOrdering(S)
  BY <1>1, WFMin
<1>3. \A U \in Bad : ~(U \subseteq T /\ U # T)
  BY <1>2 DEF StrictSubsetOrdering
<1> QED BY <1>3

Pick(s) == CHOOSE x \in s : TRUE

\* The element of a set that is added next is one of the set.
LEMMA Picked ==
  ASSUME NEW s, s # {}
  PROVE  Pick(s) \in s
BY DEF Pick

\* g adds f up over the subsets of A, one element after the other.
Adds(f, A, g) ==
  g = [s \in SUBSET A |-> IF s = {} THEN 0 ELSE f[Pick(s)] + g[s \ {Pick(s)}]]

\* What such a g is of the empty set and of another.
LEMMA AddsValue ==
  ASSUME NEW f, NEW A, NEW g, Adds(f, A, g)
  PROVE  /\ g[{}] = 0
         /\ \A s \in SUBSET A : s # {} => g[s] = f[Pick(s)] + g[s \ {Pick(s)}]
BY DEF Adds

\* Two of them agree where both are defined.
LEMMA AddsOnce ==
  ASSUME NEW f, NEW A, NEW B, NEW g, NEW h, IsFiniteSet(A), Adds(f, A, g), Adds(f, B, h)
  PROVE  \A s \in SUBSET A : s \in SUBSET B => g[s] = h[s]
<1> DEFINE Bad == {s \in SUBSET A : s \in SUBSET B /\ g[s] # h[s]}
<1>1. SUFFICES ASSUME Bad # {} PROVE FALSE
  OBVIOUS
<1>2. PICK s \in Bad : \A U \in Bad : U \subseteq s => U = s
  <2>1. Bad \subseteq SUBSET A
    OBVIOUS
  <2> HIDE DEF Bad
  <2> QED BY <1>1, <2>1, Smallest
<1>3. s # {}
  BY AddsValue
<1>4. Pick(s) \in s
  BY <1>3, Picked
<1>5. s \ {Pick(s)} \notin Bad
  BY <1>2, <1>4
<1>6. g[s \ {Pick(s)}] = h[s \ {Pick(s)}]
  BY <1>5
<1>7. g[s] = f[Pick(s)] + g[s \ {Pick(s)}]
  BY <1>3, AddsValue
<1>8. h[s] = f[Pick(s)] + h[s \ {Pick(s)}]
  BY <1>3, AddsValue
<1> QED BY <1>6, <1>7, <1>8

\* There is one for every finite set.
LEMMA AddsExists ==
  ASSUME NEW f, NEW A, IsFiniteSet(A)
  PROVE  \E g : Adds(f, A, g)
<1> DEFINE Bad == {T \in SUBSET A : ~\E g : Adds(f, T, g)}
<1>1. SUFFICES ASSUME Bad # {} PROVE FALSE
  OBVIOUS
<1>2. PICK T \in Bad : \A U \in Bad : U \subseteq T => U = T
  <2>1. Bad \subseteq SUBSET A
    OBVIOUS
  <2> HIDE DEF Bad
  <2> QED BY <1>1, <2>1, Smallest
<1> DEFINE below == [x \in T |-> CHOOSE g : Adds(f, T \ {x}, g)]
           g == [s \in SUBSET T |->
                   IF s = {} THEN 0 ELSE f[Pick(s)] + below[Pick(s)][s \ {Pick(s)}]]
<1>3. \A x \in T : Adds(f, T \ {x}, below[x])
  <2> SUFFICES ASSUME NEW x \in T PROVE Adds(f, T \ {x}, below[x])
    OBVIOUS
  <2>1. T \ {x} \notin Bad
    BY <1>2
  <2>2. \E k : Adds(f, T \ {x}, k)
    BY <2>1
  <2>3. below[x] = CHOOSE k : Adds(f, T \ {x}, k)
    OBVIOUS
  <2> QED BY <2>2, <2>3
<1>4. \A x \in T : IsFiniteSet(T \ {x})
  BY FS_Subset
<1>5. ASSUME NEW s \in SUBSET T, s # {}
      PROVE  g[s] = f[Pick(s)] + g[s \ {Pick(s)}]
  <2> DEFINE x == Pick(s)
             r == s \ {x}
             y == Pick(r)
  <2>1. x \in s
    BY <1>5, Picked
  <2>2. g[s] = f[x] + below[x][r]
    BY <1>5
  <2>3. below[x][r] = g[r]
    <3> HIDE DEF below
    <3>1. r \in SUBSET (T \ {x}) /\ r \in SUBSET T
      OBVIOUS
    <3>2. CASE r = {}
      <4>1. below[x][{}] = 0
        BY <1>3, <2>1, AddsValue
      <4> QED BY <3>2, <4>1
    <3>3. CASE r # {}
      <4>1. y \in r
        BY <3>3, Picked
      <4> HIDE DEF x, r, y
      <4>2. x \in T /\ y \in T
        BY <2>1, <3>1, <4>1
      <4>3. Adds(f, T \ {x}, below[x]) /\ Adds(f, T \ {y}, below[y])
        BY <1>3, <4>2
      <4>4. IsFiniteSet(T \ {x})
        BY <1>4, <4>2
      <4>5. below[x][r] = f[y] + below[x][r \ {y}]
        <5>1. \A u \in SUBSET (T \ {x}) : u # {} =>
                below[x][u] = f[Pick(u)] + below[x][u \ {Pick(u)}]
          BY <4>3, AddsValue
        <5> QED BY <5>1, <3>1, <3>3 DEF y
      <4>6. g[r] = f[y] + below[y][r \ {y}]
        BY <3>1, <3>3 DEF y
      <4>7. r \ {y} \in SUBSET (T \ {x}) /\ r \ {y} \in SUBSET (T \ {y})
        BY <3>1
      <4>8. below[x][r \ {y}] = below[y][r \ {y}]
        <5> HIDE DEF below, Bad, g
        <5>1. \A u \in SUBSET (T \ {x}) : u \in SUBSET (T \ {y})
                => below[x][u] = below[y][u]
          BY <4>3, <4>4, AddsOnce
        <5> QED BY <5>1, <4>7
      <4> QED BY <4>5, <4>6, <4>8
    <3> QED BY <3>2, <3>3
  <2> QED BY <2>2, <2>3
<1>6. g[{}] = 0
  OBVIOUS
<1>7. Adds(f, T, g)
  <2> DEFINE k == [s \in SUBSET T |-> IF s = {} THEN 0 ELSE f[Pick(s)] + g[s \ {Pick(s)}]]
  <2>1. ASSUME NEW s \in SUBSET T PROVE g[s] = k[s]
    <3>1. k[s] = IF s = {} THEN 0 ELSE f[Pick(s)] + g[s \ {Pick(s)}]
      OBVIOUS
    <3> HIDE DEF g, k
    <3> QED BY <3>1, <1>5, <1>6
  <2>2. g = k
    BY <2>1
  <2> QED BY <2>2 DEF Adds
<1> QED BY <1>7

Total(f, S) == MapThenSumSet(LAMBDA x : f[x], S)

\* The sum of a library's fold.
LEMMA TotalIs ==
  ASSUME NEW f, NEW S
  PROVE  Total(f, S) = (CHOOSE g : Adds(f, S, g))[S]
BY DEF Total, MapThenSumSet, MapThenFoldSet, Adds, Pick

\* The sum is what any such g says.
LEMMA TotalAdds ==
  ASSUME NEW f, NEW A, NEW S, S \subseteq A, IsFiniteSet(A), NEW g, Adds(f, A, g)
  PROVE  Total(f, S) = g[S]
<1>1. IsFiniteSet(S)
  BY FS_Subset
<1> DEFINE k == CHOOSE k : Adds(f, S, k)
<1>2. Adds(f, S, k)
  BY <1>1, AddsExists
<1>3. Total(f, S) = k[S]
  BY TotalIs
<1> HIDE DEF k
<1> QED BY <1>1, <1>2, <1>3, AddsOnce

\* Nothing adds up to 0.
LEMMA TotalEmpty == ASSUME NEW f PROVE Total(f, {}) = 0
<1>1. PICK g : Adds(f, {}, g)
  BY AddsExists, FS_EmptySet
<1> QED BY <1>1, AddsValue, TotalAdds, FS_EmptySet

\* A sum and its next element.
LEMMA TotalPick ==
  ASSUME NEW f, NEW S, IsFiniteSet(S), S # {}
  PROVE  Total(f, S) = f[Pick(S)] + Total(f, S \ {Pick(S)})
<1>1. PICK g : Adds(f, S, g)
  BY AddsExists
<1>2. Total(f, S) = g[S]
  BY <1>1, TotalAdds
<1>3. Total(f, S \ {Pick(S)}) = g[S \ {Pick(S)}]
  BY <1>1, TotalAdds
<1> QED BY <1>1, <1>2, <1>3, AddsValue

\* A sum of integers is an integer.
LEMMA TotalInt ==
  ASSUME NEW S, IsFiniteSet(S), NEW f, \A x \in S : f[x] \in Int
  PROVE  Total(f, S) \in Int
<1> DEFINE Bad == {T \in SUBSET S : Total(f, T) \notin Int}
<1>1. SUFFICES ASSUME Bad # {} PROVE FALSE
  OBVIOUS
<1>2. PICK T \in Bad : \A U \in Bad : U \subseteq T => U = T
  <2>1. Bad \subseteq SUBSET S
    OBVIOUS
  <2> HIDE DEF Bad
  <2> QED BY <1>1, <2>1, Smallest
<1>3. T # {}
  BY TotalEmpty
<1>4. Pick(T) \in T
  BY <1>3, Picked
<1>5. Total(f, T \ {Pick(T)}) \in Int
  BY <1>2, <1>4
<1>6. IsFiniteSet(T)
  BY FS_Subset
<1>7. Total(f, T) = f[Pick(T)] + Total(f, T \ {Pick(T)})
  BY <1>3, <1>6, TotalPick
<1>8. f[Pick(T)] \in Int
  BY <1>4
<1> QED BY <1>5, <1>7, <1>8

\* Any element may be added last.
LEMMA TotalTake ==
  ASSUME NEW S, IsFiniteSet(S), NEW f, \A x \in S : f[x] \in Int, NEW e \in S
  PROVE  Total(f, S) = f[e] + Total(f, S \ {e})
<1> DEFINE Bad == {T \in SUBSET S : \E x \in T : Total(f, T) # f[x] + Total(f, T \ {x})}
<1>1. SUFFICES ASSUME Bad # {} PROVE FALSE
  OBVIOUS
<1>2. PICK T \in Bad : \A U \in Bad : U \subseteq T => U = T
  <2>1. Bad \subseteq SUBSET S
    OBVIOUS
  <2> HIDE DEF Bad
  <2> QED BY <1>1, <2>1, Smallest
<1>3. PICK x \in T : Total(f, T) # f[x] + Total(f, T \ {x})
  BY <1>2
<1> DEFINE y == Pick(T)
<1>4. y \in T
  BY Picked
<1>5. \A U : U \subseteq S => IsFiniteSet(U)
  BY FS_Subset
<1> HIDE DEF y
<1>6. Total(f, T) = f[y] + Total(f, T \ {y})
  BY <1>5, TotalPick DEF y
<1>7. x # y
  BY <1>3, <1>6
<1>8. T \ {x} \notin Bad /\ T \ {y} \notin Bad
  BY <1>2, <1>4
<1>9. Total(f, T \ {y}) = f[x] + Total(f, (T \ {y}) \ {x})
  BY <1>7, <1>8
<1>10. Total(f, T \ {x}) = f[y] + Total(f, (T \ {x}) \ {y})
  BY <1>4, <1>7, <1>8
<1>11. (T \ {x}) \ {y} = (T \ {y}) \ {x}
  OBVIOUS
<1> DEFINE rest == Total(f, (T \ {y}) \ {x})
<1>12. rest \in Int /\ f[x] \in Int /\ f[y] \in Int
  BY <1>4, <1>5, TotalInt
<1> HIDE DEF rest, Bad
<1>13. Total(f, T \ {y}) = f[x] + rest /\ Total(f, T \ {x}) = f[y] + rest
  BY <1>9, <1>10, <1>11 DEF rest
<1>14. f[y] + (f[x] + rest) = f[x] + (f[y] + rest)
  BY <1>12
<1> QED BY <1>3, <1>6, <1>13, <1>14

\* A sum over places is the sum over what is in them, when p puts no two
\* elements in one place.
LEMMA TotalMoved ==
  ASSUME NEW A, IsFiniteSet(A), NEW B, IsFiniteSet(B), NEW p \in [A -> B],
         \A i, j \in A : p[i] = p[j] => i = j, \A b \in B : \E i \in A : p[i] = b,
         NEW f, NEW g, \A i \in A : f[i] = g[p[i]] /\ f[i] \in Int
  PROVE  Total(f, A) = Total(g, B)
<1> DEFINE image(U) == {p[i] : i \in U}
           Bad == {U \in SUBSET A : Total(f, U) # Total(g, image(U))}
<1>1. SUFFICES ASSUME Bad # {} PROVE FALSE
  <2>1. image(A) = B
    OBVIOUS
  <2>2. A \notin Bad
    BY <1>1
  <2> QED BY <2>1, <2>2
<1>2. PICK T \in Bad : \A U \in Bad : U \subseteq T => U = T
  <2>1. Bad \subseteq SUBSET A
    OBVIOUS
  <2> HIDE DEF Bad
  <2> QED BY <1>1, <2>1, Smallest
<1>3. T # {}
  <2>1. image({}) = {}
    OBVIOUS
  <2> QED BY <2>1, TotalEmpty
<1>4. PICK e \in T : TRUE
  BY <1>3
<1>5. T \ {e} \notin Bad
  BY <1>2
<1>6. Total(f, T \ {e}) = Total(g, image(T \ {e}))
  BY <1>5
<1>7. image(T \ {e}) = image(T) \ {p[e]}
  OBVIOUS
<1>8. Total(f, T) = f[e] + Total(f, T \ {e})
  <2>1. IsFiniteSet(T) /\ \A i \in T : f[i] \in Int
    BY FS_Subset
  <2> QED BY <2>1, TotalTake
<1>9. Total(g, image(T)) = g[p[e]] + Total(g, image(T) \ {p[e]})
  <2>1. image(T) \in SUBSET B
    OBVIOUS
  <2>2. IsFiniteSet(image(T))
    BY <2>1, FS_Subset
  <2>3. \A b \in image(T) : g[b] \in Int
    OBVIOUS
  <2>4. p[e] \in image(T)
    OBVIOUS
  <2> HIDE DEF image
  <2> QED BY <2>2, <2>3, <2>4, TotalTake
<1>10. f[e] = g[p[e]]
  OBVIOUS
<1>11. Total(f, T) # Total(g, image(T))
  OBVIOUS
<1> HIDE DEF image, Bad
<1> QED BY <1>6, <1>7, <1>8, <1>9, <1>10, <1>11

\* Equal summands have equal sums.
LEMMA TotalSame ==
  ASSUME NEW S, IsFiniteSet(S), NEW f, NEW g,
         \A x \in S : f[x] = g[x] /\ f[x] \in Int
  PROVE  Total(f, S) = Total(g, S)
<1> DEFINE p == [x \in S |-> x]
<1>1. p \in [S -> S] /\ \A x \in S : p[x] = x
  OBVIOUS
<1> HIDE DEF p
<1>2. \A x, y \in S : p[x] = p[y] => x = y
  BY <1>1
<1>3. \A y \in S : \E x \in S : p[x] = y
  BY <1>1
<1>4. \A x \in S : f[x] = g[p[x]] /\ f[x] \in Int
  BY <1>1
<1> QED BY <1>1, <1>2, <1>3, <1>4, TotalMoved

\* Summands of the other sign add up to the sum of the other sign.
LEMMA TotalNegated ==
  ASSUME NEW S, IsFiniteSet(S), NEW f, NEW g,
         \A x \in S : f[x] \in Int /\ g[x] = -f[x]
  PROVE  Total(g, S) = -Total(f, S)
<1> DEFINE Bad == {T \in SUBSET S : Total(g, T) # -Total(f, T)}
<1>1. SUFFICES ASSUME Bad # {} PROVE FALSE
  OBVIOUS
<1>2. PICK T \in Bad : \A U \in Bad : U \subseteq T => U = T
  <2>1. Bad \subseteq SUBSET S
    OBVIOUS
  <2> HIDE DEF Bad
  <2> QED BY <1>1, <2>1, Smallest
<1>3. T # {}
  BY TotalEmpty
<1>4. PICK e \in T : TRUE
  BY <1>3
<1>5. IsFiniteSet(T) /\ IsFiniteSet(T \ {e})
  BY FS_Subset
<1>6. Total(g, T \ {e}) = -Total(f, T \ {e})
  BY <1>2
<1>7. /\ \A x \in T : f[x] \in Int /\ g[x] \in Int
      /\ \A x \in T \ {e} : f[x] \in Int
      /\ g[e] = -f[e]
  OBVIOUS
<1>8. Total(f, T) = f[e] + Total(f, T \ {e}) /\ Total(g, T) = g[e] + Total(g, T \ {e})
  BY <1>5, <1>7, TotalTake
<1>9. Total(f, T \ {e}) \in Int
  BY <1>5, <1>7, TotalInt
<1>10. Total(g, T) # -Total(f, T)
  OBVIOUS
<1> HIDE DEF Bad
<1> QED BY <1>6, <1>7, <1>8, <1>9, <1>10

\* A sum of differences is the difference of the sums.
LEMMA TotalLess ==
  ASSUME NEW S, IsFiniteSet(S), NEW f, NEW g, NEW h,
         \A x \in S : f[x] \in Int /\ g[x] \in Int /\ h[x] = f[x] - g[x]
  PROVE  Total(h, S) = Total(f, S) - Total(g, S)
<1> DEFINE Bad == {T \in SUBSET S : Total(h, T) # Total(f, T) - Total(g, T)}
<1>1. SUFFICES ASSUME Bad # {} PROVE FALSE
  OBVIOUS
<1>2. PICK T \in Bad : \A U \in Bad : U \subseteq T => U = T
  <2>1. Bad \subseteq SUBSET S
    OBVIOUS
  <2> HIDE DEF Bad
  <2> QED BY <1>1, <2>1, Smallest
<1>3. T # {}
  <2>1. Total(f, {}) = 0 /\ Total(g, {}) = 0 /\ Total(h, {}) = 0
    BY TotalEmpty
  <2>2. {} \notin Bad
    BY <2>1
  <2> QED BY <2>2
<1>4. PICK e \in T : TRUE
  BY <1>3
<1>5. IsFiniteSet(T) /\ IsFiniteSet(T \ {e})
  BY FS_Subset
<1>6. Total(h, T \ {e}) = Total(f, T \ {e}) - Total(g, T \ {e})
  BY <1>2
<1>7. /\ \A x \in T : f[x] \in Int /\ g[x] \in Int /\ h[x] \in Int
      /\ \A x \in T \ {e} : f[x] \in Int /\ g[x] \in Int
      /\ h[e] = f[e] - g[e]
  OBVIOUS
<1>8. /\ Total(f, T) = f[e] + Total(f, T \ {e})
      /\ Total(g, T) = g[e] + Total(g, T \ {e})
      /\ Total(h, T) = h[e] + Total(h, T \ {e})
  BY <1>5, <1>7, TotalTake
<1>9. Total(f, T \ {e}) \in Int /\ Total(g, T \ {e}) \in Int
  BY <1>5, <1>7, TotalInt
<1>10. Total(h, T) # Total(f, T) - Total(g, T)
  OBVIOUS
<1> HIDE DEF Bad
<1> QED BY <1>6, <1>7, <1>8, <1>9, <1>10

\* Elements that add 0 may be left out.
LEMMA TotalDropped ==
  ASSUME NEW S, IsFiniteSet(S), NEW A, A \subseteq S, NEW f,
         \A x \in S : f[x] \in Int, \A x \in S \ A : f[x] = 0
  PROVE  Total(f, A) = Total(f, S)
<1> DEFINE Bad == {T \in SUBSET S : Total(f, T \cap A) # Total(f, T)}
<1>1. SUFFICES ASSUME Bad # {} PROVE FALSE
  <2>1. S \notin Bad /\ S \cap A = A
    BY <1>1
  <2> QED BY <2>1
<1>2. PICK T \in Bad : \A U \in Bad : U \subseteq T => U = T
  <2>1. Bad \subseteq SUBSET S
    OBVIOUS
  <2> HIDE DEF Bad
  <2> QED BY <1>1, <2>1, Smallest
<1>3. PICK e \in T : e \notin A
  <2>1. T \cap A # T
    BY <1>2
  <2> QED BY <2>1
<1>4. IsFiniteSet(T) /\ IsFiniteSet(T \ {e})
  BY FS_Subset
<1>5. Total(f, (T \ {e}) \cap A) = Total(f, T \ {e})
  BY <1>2
<1>6. (T \ {e}) \cap A = T \cap A
  BY <1>3
<1>7. /\ \A x \in T : f[x] \in Int
      /\ \A x \in T \ {e} : f[x] \in Int
      /\ f[e] = 0
  BY <1>3
<1>8. Total(f, T) = f[e] + Total(f, T \ {e})
  BY <1>4, <1>7, TotalTake
<1>9. Total(f, T \ {e}) \in Int
  BY <1>4, <1>7, TotalInt
<1>10. Total(f, T \cap A) # Total(f, T)
  OBVIOUS
<1> HIDE DEF Bad
<1>11. Total(f, T \cap A) = Total(f, T \ {e})
  BY <1>5, <1>6
<1> DEFINE rest == Total(f, T \ {e})
<1>12. rest \in Int /\ Total(f, T) = f[e] + rest /\ f[e] = 0
  BY <1>7, <1>8, <1>9
<1> HIDE DEF rest
<1>13. Total(f, T) = rest
  BY <1>12
<1> QED BY <1>10, <1>11, <1>13 DEF rest
=============================================================================
