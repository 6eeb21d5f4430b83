--------------------------- MODULE ServiceTables ---------------------------
(***************************************************************************)
(* What the RPCs of v2 have in common: the tables that other services      *)
(* write and these RPCs read, and the calls in progress. A call reads with *)
(* one statement after the other and without a transaction, so the tables  *)
(* may change between any two of its statements.                           *)
(***************************************************************************)
EXTENDS Integers, Sequences, FiniteSetsExt, TLC

CONSTANTS
  Workers,      \* goroutines that serve a call
  Loads,        \* bound: the sets of calls a run may be made of
  History,      \* the contents of the read tables, one after the other
  Like,         \* Like[q]: the texts that match the pattern of q
  RootDomain,   \* authorization.RootDomain
  Permitted     \* the domains in which the caller may read

ASSUME ServiceAssumption ==
  /\ Len(History) \in Nat \ {0} /\ DOMAIN History = 1 .. Len(History)
  /\ RootDomain \in Int

VARIABLES
  now,    \* which content of History the tables have
  load,   \* calls that clients have yet to make
  call    \* call[w]: what worker w serves

tableVars == <<now, load, call>>

Db == History[now]

NoRows == [name \in {} |-> {}]

Idle == [kind |-> "none", pc |-> "idle"]

NoAnswer == [tag |-> "none"]

TablesInit ==
  /\ now = 1
  /\ load \in Loads
  /\ call = [w \in Workers |-> Idle]

\* A handler is entered with a request r: its kind, the source in the headers
\* and the message.
Accept(w) ==
  /\ call[w] = Idle
  /\ \E r \in load :
       /\ load' = load \ {r}
       /\ call' = [call EXCEPT ![w] =
                     [kind |-> r.kind, source |-> r.source, pay |-> r.pay,
                      pc |-> "start", got |-> NoRows, answer |-> NoAnswer]]
  /\ UNCHANGED now

\* The handler has returned and its worker is free again.
Return(w) ==
  /\ call[w].pc = "done"
  /\ call' = [call EXCEPT ![w] = Idle]
  /\ UNCHANGED <<now, load>>

\* Another service commits.
Change ==
  /\ now < Len(History)
  /\ now' = now + 1
  /\ UNCHANGED <<load, call>>

-----------------------------------------------------------------------------
\* The steps of a handler.

At(w, kind, pc) == call[w].kind = kind /\ call[w].pc = pc

Pay(w) == call[w].pay

Got(w) == call[w].got

From(w) == call[w].source.from

TeamOf(w) == call[w].source.team

Put(got, name, rows) ==
  [n \in DOMAIN got \cup {name} |-> IF n = name THEN rows ELSE got[n]]

\* The rows of a statement are kept under a name for the statements to come.
Keep(w, name, rows, next) ==
  /\ call' = [call EXCEPT ![w].got = Put(@, name, rows), ![w].pc = next]
  /\ UNCHANGED <<now, load>>

Ends(w, answer) ==
  /\ call' = [call EXCEPT ![w].answer = answer, ![w].pc = "done"]
  /\ UNCHANGED <<now, load>>

Answer(w, data) == Ends(w, [tag |-> "ok", data |-> data])

Refuse(w) == Ends(w, [tag |-> "error"])

\* A nil pointer is followed or an empty slice indexed; net/http recovers.
Panic(w) == Ends(w, [tag |-> "panic"])

-----------------------------------------------------------------------------
\* HasPermission on the domain of the source.
Domain(source) == IF source.from = "ADMIN" THEN RootDomain ELSE source.team

MayRead(w) == Domain(call[w].source) \in Permitted

\* IDs of a set of rows, rows with ids of a set, and the row of an id.
Ids(rows) == {r.id : r \in rows}

WithIds(rows, ids) == {r \in rows : r.id \in ids}

ItemsOf(d, txs) == {i \in d.items : i.tx \in txs}

\* What a Go map holds after a loop put each row under its key: for every key
\* one of the rows that have it, the last one the query returned.
LastWins(rows, Key(_)) ==
  {m \in [{Key(r) : r \in rows} -> rows] : \A k \in DOMAIN m : Key(m[k]) = k}

\* A page: as many rows as fit behind those of the pages before, in the order
\* of the keys, largest first; rows of one key come in any order.
Pages(rows, page) ==
  {p \in SUBSET rows :
     \E before \in SUBSET (rows \ p) :
       LET after == rows \ (p \cup before)
       IN  /\ \A b \in before, r \in rows \ before : b.key >= r.key
           /\ \A a \in after, r \in p : r.key >= a.key
           /\ Cardinality(before) = Min({Cardinality(rows), (page.page - 1) * page.limit})
           /\ after = {} \/ Cardinality(p) = page.limit
           /\ Cardinality(p) <= page.limit}
=============================================================================
