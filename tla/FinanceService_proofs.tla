------------------------ MODULE FinanceService_proofs -----------------------
(***************************************************************************)
(* What FinanceService keeps true, for any number of workers, any requests *)
(* however they overlap, and any rows the tables start with: its types;    *)
(* accounts and links pair, numbers are unique, an edit is committed       *)
(* whole; every expense is wholly one request; and, with requests served   *)
(* one at a time, an administrator's fields stay his and the balances      *)
(* implement one balance per account and day.                              *)
(***************************************************************************)
EXTENDS FinanceService, FiniteSetTheorems, WellFoundedInduction, TLAPS

-----------------------------------------------------------------------------
(* Tables: what a COMMIT makes of them, and the last id they hold. *)

\* A COMMIT adds the written ids and keeps the others.
LEMMA OverDomain ==
  ASSUME NEW w, NEW t
  PROVE  DOMAIN Over(w, t) = DOMAIN w \cup DOMAIN t
BY DEF Over

\* A row that a COMMIT has not written is the row there was.
LEMMA OverValue ==
  ASSUME NEW w, NEW t, NEW i \in DOMAIN w \cup DOMAIN t
  PROVE  Over(w, t)[i] = IF i \in DOMAIN w THEN w[i] ELSE t[i]
BY DEF Over

\* A COMMIT of typed rows leaves a typed table.
LEMMA OverTyped ==
  ASSUME NEW T, NEW w, IsTable(w, T), NEW t, IsTable(t, T)
  PROVE  IsTable(Over(w, t), T)
<1> SUFFICES ASSUME NEW i \in DOMAIN Over(w, t)
             PROVE  i \in Nat \ {0} /\ Over(w, t)[i] \in T
  BY DEF IsTable
<1>1. i \in DOMAIN w \cup DOMAIN t
  BY OverDomain
<1>2. Over(w, t)[i] = IF i \in DOMAIN w THEN w[i] ELSE t[i]
  BY <1>1, OverValue
<1> QED BY <1>1, <1>2 DEF IsTable

\* The one row is the row of its id.
LEMMA OneRowIs ==
  ASSUME NEW i, NEW row
  PROVE  DOMAIN OneRow(i, row) = {i} /\ OneRow(i, row)[i] = row
BY DEF OneRow

\* Tables of typed rows.
Tables(type) == UNION {[D -> type] : D \in SUBSET (Nat \ {0})}

\* Such a table is typed.
LEMMA TablesTyped ==
  ASSUME NEW T, NEW t \in Tables(T)
  PROVE  IsTable(t, T)
BY DEF Tables, IsTable

\* No rows, one row and the rows of a set of ids are such tables.
LEMMA TablesHas ==
  ASSUME NEW T
  PROVE  /\ NoRows \in Tables(T)
         /\ \A i \in Nat \ {0}, row \in T : OneRow(i, row) \in Tables(T)
         /\ \A D \in SUBSET (Nat \ {0}) : \A f \in [D -> T] : f \in Tables(T)
<1>1. NoRows \in [{} -> T]
  BY DEF NoRows
<1>2. \A i \in Nat \ {0}, row \in T : OneRow(i, row) \in [{i} -> T]
  BY DEF OneRow
<1>3. \A D \in SUBSET (Nat \ {0}) : \A f \in [D -> T] : f \in Tables(T)
  BY DEF Tables
<1>4. {} \in SUBSET (Nat \ {0}) /\ \A i \in Nat \ {0} : {i} \in SUBSET (Nat \ {0})
  OBVIOUS
<1> QED BY <1>1, <1>2, <1>3, <1>4

\* A finite set of numbers that is not empty has a greatest element: else it
\* has a smallest subset without one, and that subset less one element has
\* none either.
LEMMA Greatest ==
  ASSUME NEW S, S \subseteq Nat, IsFiniteSet(S), S # {}
  PROVE  \E i \in S : \A j \in S : j <= i
<1> DEFINE Bad == {T \in SUBSET S : T # {} /\ \A i \in T : \E j \in T : ~(j <= i)}
<1>1. SUFFICES ASSUME Bad # {} PROVE FALSE
  <2>1. S \notin Bad
    BY <1>1
  <2> QED BY <2>1
<1>2. IsWellFoundedOn(StrictSubsetOrdering(S), SUBSET S)
  BY FS_StrictSubsetOrderingWellFounded, FS_FiniteSubsetsOfFinite
<1>3. Bad \subseteq SUBSET S
  OBVIOUS
<1>4. PICK T \in Bad : \A U \in Bad : <<U, T>> \notin StrictSubsetOrdering(S)
  <2> HIDE DEF Bad
  <2> QED BY <1>1, <1>2, <1>3, WFMin
<1>5. \A U \in Bad : ~(U \subseteq T /\ U # T)
  BY <1>3, <1>4 DEF StrictSubsetOrdering
<1>6. PICK i \in T : TRUE
  OBVIOUS
<1>7. PICK j \in T : ~(j <= i)
  OBVIOUS
<1> DEFINE U == T \ {i}
<1>8. \A k \in U : \E m \in U : ~(m <= k)
  <2> SUFFICES ASSUME NEW k \in U PROVE \E m \in U : ~(m <= k)
    OBVIOUS
  <2>1. PICK m \in T : ~(m <= k)
    OBVIOUS
  <2>2. CASE m # i
    BY <2>1, <2>2
  <2>3. CASE m = i
    BY <1>7, <2>1, <2>3
  <2> QED BY <2>2, <2>3
<1>9. j \in U /\ U \in SUBSET S
  BY <1>7
<1>10. U \in Bad
  BY <1>8, <1>9
<1> QED BY <1>5, <1>6, <1>10

\* The sequence of a table starts after the ids in it.
LEMMA LastIdIs ==
  ASSUME NEW table, IsFiniteSet(DOMAIN table), DOMAIN table \subseteq Nat \ {0}
  PROVE  LastId(table) \in Nat /\ DOMAIN table \subseteq 1 .. LastId(table)
<1>1. CASE DOMAIN table = {}
  BY <1>1 DEF LastId
<1>2. CASE DOMAIN table # {}
  <2>1. \E i \in DOMAIN table : \A j \in DOMAIN table : j <= i
    BY <1>2, Greatest
  <2>2. /\ LastId(table) \in DOMAIN table
        /\ \A j \in DOMAIN table : j <= LastId(table)
    BY <1>2, <2>1 DEF LastId
  <2> QED BY <2>2
<1> QED BY <1>1, <1>2
\* A table of one typed row is typed.
LEMMA OneRowTyped ==
  ASSUME NEW T, NEW i \in Nat \ {0}, NEW row \in T
  PROVE  IsTable(OneRow(i, row), T)
<1>1. DOMAIN OneRow(i, row) = {i} /\ OneRow(i, row)[i] = row
  BY OneRowIs
<1> QED BY <1>1 DEF IsTable

\* The two ends of a link are ids, or 0 where the request gave none.
LEMMA LinkEnds ==
  ASSUME NEW r \in Link
  PROVE  r.account \in Nat /\ r.warehouse \in Nat
<1>1. \A w \in Warehouses \cup {0} : w \in Nat
  BY FinanceAssumption
<1>2. r.account \in Nat /\ r.warehouse \in Warehouses \cup {0}
  BY DEF Link
<1> QED BY <1>1, <1>2, Zenon

-----------------------------------------------------------------------------
(* Accounts. *)

Rows == {"account", "link"} \X Nat

\* The rows that a statement locks are rows.
LEMMA RowTyped ==
  ASSUME NEW i \in Nat
  PROVE  Row("account", i) \in Rows /\ Row("link", i) \in Rows
BY DEF Row, Rows

AccountState ==
  [pc : {"idle", "number", "ops", "insert", "link", "load", "own", "account",
         "saveLink", "disable", "commit"},
   req : AccountRequest \cup {<<>>}, link : Nat,
   held : SUBSET Rows,
   accounts : Tables(Account), links : Tables(Link)]

\* A request that is being served was asked; what it has loaded is there; and
\* the links it has written, which is the last thing it does, have accounts.
GoodAccount(s) ==
  /\ s \in AccountState
  /\ s.pc # "idle" => s.req \in AccountRequests
  /\ s.link \in DOMAIN links \cup {0}
  /\ s.pc \in {"own", "account", "saveLink", "disable"} => s.link \in DOMAIN links
  /\ s.pc # "commit" => DOMAIN s.links = {}
  /\ \A l \in DOMAIN s.links : s.links[l].account \in DOMAIN s.accounts \cup DOMAIN accounts

AccountRows ==
  /\ IsTable(accounts, Account) /\ IsTable(links, Link)
  /\ \A l \in DOMAIN links : links[l].account \in DOMAIN accounts
  /\ lastAccount \in Nat /\ lastLink \in Nat

AccountsInv ==
  /\ AccountRows
  /\ acct \in [Workers -> AccountState]
  /\ \A p \in Workers : GoodAccount(acct[p])

\* What is proved of the accounts implies the type invariant that is checked.
LEMMA AccountsInvTypes == AccountsInv => AccountsTypeOK
<1> SUFFICES ASSUME AccountsInv PROVE AccountsTypeOK
  OBVIOUS
<1>1. ASSUME NEW p \in Workers
      PROVE  /\ acct[p].pc \in {"idle", "number", "ops", "insert", "link", "load",
                                "own", "account", "saveLink", "disable", "commit"}
             /\ ~AtA(p, "idle") => AReq(p) \in AccountRequest
             /\ acct[p].link \in DOMAIN links \cup {0}
             /\ IsTable(acct[p].accounts, Account) /\ IsTable(acct[p].links, Link)
  <2>1. GoodAccount(acct[p]) /\ acct[p] \in AccountState
    BY DEF AccountsInv, GoodAccount
  <2>2. acct[p].accounts \in Tables(Account) /\ acct[p].links \in Tables(Link)
    BY <2>1 DEF AccountState
  <2>3. IsTable(acct[p].accounts, Account) /\ IsTable(acct[p].links, Link)
    BY <2>2, TablesTyped
  <2>4. AccountRequests \subseteq AccountRequest
    BY AccountsAssumption
  <2> QED BY <2>1, <2>3, <2>4 DEF GoodAccount, AccountState, AtA, AReq
<1> QED BY <1>1 DEF AccountsInv, AccountRows, AccountsTypeOK

\* A worker without work is good.
LEMMA NoWorkGood == GoodAccount(NoAccountWork)
<1>1. NoRows \in Tables(Account) /\ NoRows \in Tables(Link)
  BY TablesHas
<1>2. NoAccountWork \in AccountState
  BY <1>1 DEF NoAccountWork, AccountState
<1>3. DOMAIN NoRows = {}
  BY DEF NoRows
<1> QED BY <1>2, <1>3 DEF GoodAccount, NoAccountWork

\* The statement of one worker leaves the others as they were.
LEMMA GoodStep ==
  ASSUME AccountsInv, NEW p \in Workers, NEW s, GoodAccount(s),
         acct' = [acct EXCEPT ![p] = s], UNCHANGED tables,
         lastAccount' \in Nat, lastLink' \in Nat
  PROVE  AccountsInv'
<1>1. s \in AccountState
  BY DEF GoodAccount
<1>2. acct' \in [Workers -> AccountState]
  BY <1>1 DEF AccountsInv
<1>3. accounts' = accounts /\ links' = links
  BY DEF tables
<1>4. ASSUME NEW q \in Workers
      PROVE  GoodAccount(acct[q])'
  <2>1. GoodAccount(acct'[q])
    <3>1. acct'[q] = IF q = p THEN s ELSE acct[q]
      BY DEF AccountsInv
    <3> QED BY <3>1 DEF AccountsInv
  <2> QED BY <2>1, <1>3 DEF GoodAccount
<1>5. AccountRows'
  BY <1>3 DEF AccountsInv, AccountRows, IsTable
<1> QED BY <1>2, <1>4, <1>5 DEF AccountsInv

\* The tables keep what is in them, and get typed rows and links with accounts.
LEMMA CommitGood ==
  ASSUME AccountsInv, NEW p \in Workers, CommitAccount(p)
  PROVE  AccountsInv'
<1> USE DEF CommitAccount
<1>1. GoodAccount(acct[p])
  BY DEF AccountsInv
<1>2. DOMAIN accounts' = DOMAIN acct[p].accounts \cup DOMAIN accounts
  BY OverDomain
<1>3. DOMAIN links' = DOMAIN acct[p].links \cup DOMAIN links
  BY OverDomain
<1>4. \A l \in DOMAIN links' :
        links'[l] = IF l \in DOMAIN acct[p].links THEN acct[p].links[l] ELSE links[l]
  BY <1>3, OverValue
<1>5. AccountRows'
  <2>1. IsTable(accounts, Account) /\ IsTable(links, Link)
    BY DEF AccountsInv, AccountRows
  <2>2. IsTable(acct[p].accounts, Account) /\ IsTable(acct[p].links, Link)
    BY <1>1, TablesTyped DEF GoodAccount, AccountState
  <2>3. IsTable(accounts', Account) /\ IsTable(links', Link)
    BY <2>1, <2>2, OverTyped
  <2>4. \A l \in DOMAIN links' : links'[l].account \in DOMAIN accounts'
    BY <1>1, <1>2, <1>3, <1>4 DEF AccountsInv, AccountRows, GoodAccount
  <2>5. lastAccount' \in Nat /\ lastLink' \in Nat
    BY DEF AccountsInv, AccountRows, sequences
  <2> QED BY <2>3, <2>4, <2>5 DEF AccountRows, IsTable
<1>6. NoAccountWork \in AccountState
  BY NoWorkGood DEF GoodAccount
<1>7. acct' \in [Workers -> AccountState]
  BY <1>6 DEF AccountsInv
<1>8. ASSUME NEW q \in Workers
      PROVE  GoodAccount(acct[q])'
  <2>1. GoodAccount(acct'[q])
    <3>1. acct'[q] = IF q = p THEN NoAccountWork ELSE acct[q]
      BY DEF AccountsInv
    <3> QED BY <3>1, NoWorkGood DEF AccountsInv
  <2> QED BY <2>1, <1>2, <1>3 DEF GoodAccount
<1> QED BY <1>5, <1>7, <1>8 DEF AccountsInv
\* A transaction that is rolled back leaves nothing behind but a used id.
LEMMA RefuseGood ==
  ASSUME AccountsInv, NEW p \in Workers, RefuseAccount(p), UNCHANGED tables,
         lastAccount' \in Nat, lastLink' \in Nat
  PROVE  AccountsInv'
BY NoWorkGood, GoodStep DEF RefuseAccount

\* A statement that only looks goes on to the next one.
LEMMA GotoGood ==
  ASSUME AccountsInv, NEW p \in Workers, NEW pc \in {"ops", "insert", "account"},
         GotoA(p, pc), acct[p].pc # "idle", acct[p].pc # "commit",
         pc = "account" => acct[p].link \in DOMAIN links,
         UNCHANGED <<tables, sequences>>
  PROVE  AccountsInv'
<1> DEFINE s == [acct[p] EXCEPT !.pc = pc]
<1>1. GoodAccount(acct[p])
  BY DEF AccountsInv
<1>2. GoodAccount(s)
  BY <1>1 DEF GoodAccount, AccountState
<1>3. acct' = [acct EXCEPT ![p] = s]
  BY DEF GotoA
<1>4. lastAccount' \in Nat /\ lastLink' \in Nat
  BY DEF sequences, AccountsInv, AccountRows
<1> HIDE DEF s
<1> QED BY <1>2, <1>3, <1>4, GoodStep

\* Every statement of a request for an account leaves the accounts typed.
LEMMA AccountStepGood ==
  ASSUME AccountsInv, NEW p \in Workers, AccountStep(p)
  PROVE  AccountsInv'
<1>1. /\ GoodAccount(acct[p]) /\ acct[p] \in AccountState
      /\ acct[p].pc # "idle" => AReq(p) \in AccountRequest
  BY AccountsAssumption DEF AccountsInv, GoodAccount, AReq
<1>2. lastAccount \in Nat /\ lastLink \in Nat
  BY DEF AccountsInv, AccountRows
<1>3. CASE CheckNumber(p)
  BY <1>1, <1>2, <1>3, RefuseGood, GotoGood DEF CheckNumber, AtA, sequences
<1>4. CASE CheckOps(p)
  BY <1>1, <1>2, <1>4, RefuseGood, GotoGood DEF CheckOps, AtA, sequences
<1>5. CASE CheckOwnOps(p)
  BY <1>1, <1>2, <1>5, RefuseGood, GotoGood DEF CheckOwnOps, AtA, sequences, GoodAccount
<1>6. CASE InsertAccount(p)
  <2> DEFINE id == lastAccount + 1
             row == [number |-> AReq(p).number, label |-> AReq(p).label,
                     disabled |-> FALSE]
             s == [acct[p] EXCEPT !.pc = "link",
                                  !.held = {Row("account", id)},
                                  !.accounts = OneRow(id, row)]
  <2>1. lastAccount' = id /\ lastLink' = lastLink /\ UNCHANGED tables /\ AtA(p, "insert")
    BY <1>6 DEF InsertAccount
  <2>2. CASE RefuseAccount(p)
    BY <1>2, <2>1, <2>2, RefuseGood
  <2>3. CASE acct' = [acct EXCEPT ![p] = s]
    <3>1. row \in Account /\ id \in Nat \ {0}
      BY <1>1, <1>2, <2>1 DEF AtA, Account, AccountRequest
    <3>2. OneRow(id, row) \in Tables(Account)
      BY <3>1, TablesHas
    <3>3. {Row("account", id)} \in SUBSET Rows
      BY <3>1, RowTyped
    <3>4. s \in AccountState
      BY <1>1, <3>2, <3>3 DEF AccountState
    <3>5. GoodAccount(s)
      BY <1>1, <2>1, <3>4 DEF GoodAccount, AccountState, AtA
    <3> HIDE DEF s
    <3> QED BY <1>2, <2>1, <2>3, <3>1, <3>5, GoodStep
  <2> QED BY <1>6, <2>2, <2>3 DEF InsertAccount
<1>7. CASE InsertLink(p)
  <2>1. PICK a \in DOMAIN acct[p].accounts :
          acct' = [acct EXCEPT
             ![p].pc = "commit",
             ![p].held = @ \cup {Row("link", lastLink + 1)},
             ![p].links = OneRow(lastLink + 1,
               [account |-> a, warehouse |-> AReq(p).warehouse, ops |-> AReq(p).ops])]
    BY <1>7 DEF InsertLink
  <2> DEFINE id == lastLink + 1
             row == [account |-> a, warehouse |-> AReq(p).warehouse, ops |-> AReq(p).ops]
             s == [acct[p] EXCEPT !.pc = "commit",
                                  !.held = @ \cup {Row("link", id)},
                                  !.links = OneRow(id, row)]
  <2>2. lastAccount' = lastAccount /\ lastLink' = id /\ UNCHANGED tables /\ AtA(p, "link")
    BY <1>7 DEF InsertLink
  <2>3. a \in Nat
    <3>1. IsTable(acct[p].accounts, Account)
      BY <1>1, TablesTyped DEF AccountState
    <3> QED BY <3>1 DEF IsTable
  <2>4. row \in Link /\ id \in Nat \ {0}
    BY <1>1, <1>2, <2>2, <2>3 DEF AtA, Link, AccountRequest
  <2>5. OneRow(id, row) \in Tables(Link)
    BY <2>4, TablesHas
  <2>6. DOMAIN OneRow(id, row) = {id} /\ OneRow(id, row)[id] = row
    BY OneRowIs
  <2>7. s \in AccountState
    <3>1. {Row("link", id)} \in SUBSET Rows
      BY <2>4, RowTyped
    <3> QED BY <1>1, <2>5, <3>1 DEF AccountState
  <2>8. GoodAccount(s)
    BY <1>1, <2>2, <2>6, <2>7 DEF GoodAccount, AccountState, AtA
  <2>9. acct' = [acct EXCEPT ![p] = s]
    BY <2>1
  <2> HIDE DEF s
  <2> QED BY <1>2, <2>2, <2>4, <2>8, <2>9, GoodStep
<1>8. CASE LoadAccount(p)
  <2>1. AtA(p, "load") /\ UNCHANGED tables /\ lastAccount' \in Nat /\ lastLink' \in Nat
    BY <1>2, <1>8 DEF LoadAccount, sequences
  <2>2. CASE RefuseAccount(p)
    BY <2>1, <2>2, RefuseGood
  <2>3. CASE \E l \in DOMAIN links : LockRows(p, l)
    <3>1. PICK l \in DOMAIN links : LockRows(p, l)
      BY <2>3
    <3> DEFINE s == [acct[p] EXCEPT !.link = l, !.held = RowsOf(l), !.pc = NextOf(AReq(p))]
    <3>2. IsTable(links, Link)
      BY DEF AccountsInv, AccountRows
    <3>3. l \in Nat /\ links[l].account \in Nat
      BY <3>2 DEF IsTable, Link
    <3>4. NextOf(AReq(p)) \in {"disable", "own", "account"}
      BY DEF NextOf
    <3>5. s \in AccountState
      <4>1. RowsOf(l) \in SUBSET Rows
        BY <3>3, RowTyped DEF RowsOf
      <4> QED BY <1>1, <3>3, <3>4, <4>1 DEF AccountState
    <3>6. GoodAccount(s)
      BY <1>1, <2>1, <3>4, <3>5 DEF GoodAccount, AccountState, AtA
    <3>7. acct' = [acct EXCEPT ![p] = s]
      BY <3>1 DEF LockRows
    <3> HIDE DEF s
    <3> QED BY <2>1, <3>6, <3>7, GoodStep
  <2> QED BY <1>8, <2>2, <2>3 DEF LoadAccount, OfWarehouse
<1>9. CASE SaveAccount(p)
  <2> DEFINE a == links[acct[p].link].account
             row == [accounts[a] EXCEPT !.number = AReq(p).number, !.label = AReq(p).label]
             s == [acct[p] EXCEPT !.pc = "saveLink", !.accounts = OneRow(a, row)]
  <2>1. AtA(p, "account") /\ UNCHANGED tables /\ lastAccount' \in Nat /\ lastLink' \in Nat
    BY <1>2, <1>9 DEF SaveAccount, sequences
  <2>2. CASE RefuseAccount(p)
    BY <2>1, <2>2, RefuseGood
  <2>3. CASE acct' = [acct EXCEPT ![p] = s]
    <3>1. acct[p].link \in DOMAIN links /\ a \in DOMAIN accounts
      BY <1>1, <2>1 DEF AtA, GoodAccount, AccountsInv, AccountRows
    <3>2. a \in Nat \ {0} /\ accounts[a] \in Account
      BY <3>1 DEF AccountsInv, AccountRows, IsTable
    <3>3. row \in Account
      BY <1>1, <2>1, <3>2 DEF AtA, Account, AccountRequest
    <3>4. OneRow(a, row) \in Tables(Account)
      BY <3>2, <3>3, TablesHas
    <3>5. GoodAccount(s)
      BY <1>1, <2>1, <3>1, <3>4 DEF AtA, GoodAccount, AccountState
    <3> HIDE DEF s
    <3> QED BY <2>1, <2>3, <3>5, GoodStep
  <2> QED BY <1>9, <2>2, <2>3 DEF SaveAccount
<1>10. CASE SaveLink(p)
  <2> DEFINE rows == [l \in LinksToSave(p) |-> [links[l] EXCEPT !.ops = AReq(p).ops]]
             s == [acct[p] EXCEPT !.pc = "commit", !.links = rows]
  <2>1. AtA(p, "saveLink") /\ UNCHANGED tables /\ lastAccount' \in Nat /\ lastLink' \in Nat
    BY <1>2, <1>10 DEF SaveLink, sequences
  <2>2. ASSUME NEW l \in LinksToSave(p)
        PROVE  /\ l \in Nat \ {0} /\ rows[l] \in Link
               /\ rows[l].account \in DOMAIN accounts
    <3>1. l \in DOMAIN links
      BY DEF LinksToSave
    <3>2. l \in Nat \ {0} /\ links[l] \in Link /\ links[l].account \in DOMAIN accounts
      BY <3>1 DEF AccountsInv, AccountRows, IsTable
    <3> QED BY <1>1, <2>1, <3>2 DEF AtA, Link, AccountRequest
  <2>3. rows \in Tables(Link)
    <3>1. LinksToSave(p) \in SUBSET (Nat \ {0}) /\ rows \in [LinksToSave(p) -> Link]
      BY <2>2
    <3> QED BY <3>1, TablesHas
  <2>4. DOMAIN rows = LinksToSave(p)
    OBVIOUS
  <2>5. acct' = [acct EXCEPT ![p] = s]
    BY <1>10 DEF SaveLink
  <2> HIDE DEF rows
  <2>6. GoodAccount(s)
    BY <1>1, <2>1, <2>2, <2>3, <2>4 DEF AtA, GoodAccount, AccountState
  <2> HIDE DEF s
  <2> QED BY <2>1, <2>5, <2>6, GoodStep
<1>11. CASE SaveDisabled(p)
  <2> DEFINE target == {acct[p].link} \cap DOMAIN accounts
             rows == [a \in target |-> [accounts[a] EXCEPT !.disabled = TRUE]]
             locks == {Row("account", a) : a \in target}
             s == [acct[p] EXCEPT !.pc = "commit", !.held = @ \cup locks, !.accounts = rows]
  <2>1. AtA(p, "disable") /\ UNCHANGED tables /\ lastAccount' \in Nat /\ lastLink' \in Nat
    BY <1>2, <1>11 DEF SaveDisabled, sequences
  <2>2. ASSUME NEW a \in target
        PROVE  a \in Nat \ {0} /\ rows[a] \in Account
    <3>1. a \in Nat \ {0} /\ accounts[a] \in Account
      BY DEF AccountsInv, AccountRows, IsTable
    <3> QED BY <3>1 DEF Account
  <2>3. rows \in Tables(Account)
    <3>1. target \in SUBSET (Nat \ {0}) /\ rows \in [target -> Account]
      BY <2>2
    <3> QED BY <3>1, TablesHas
  <2>4. locks \in SUBSET Rows
    BY <2>2, RowTyped
  <2>5. acct' = [acct EXCEPT ![p] = s]
    BY <1>11 DEF SaveDisabled
  <2> HIDE DEF rows, locks
  <2>6. s \in AccountState
    BY <1>1, <2>3, <2>4 DEF AccountState
  <2>7. GoodAccount(s)
    BY <1>1, <2>1, <2>6 DEF AtA, GoodAccount, AccountState
  <2> HIDE DEF s
  <2> QED BY <2>1, <2>5, <2>7, GoodStep
<1>12. CASE CommitAccount(p)
  BY <1>12, CommitGood
<1> QED BY <1>3, <1>4, <1>5, <1>6, <1>7, <1>8, <1>9, <1>10, <1>11, <1>12 DEF AccountStep
\* The first rows are the rows of the first accounts and links.
LEMMA AccountsInitGood == FinanceInit /\ AccountsInit => AccountsInv
<1> SUFFICES ASSUME FinanceInit, AccountsInit PROVE AccountsInv
  OBVIOUS
<1> USE DEF FinanceInit, AccountsInit
<1>1. lastAccount \in Nat /\ lastLink \in Nat
  <2>1. DOMAIN FirstAccounts \subseteq Nat \ {0} /\ DOMAIN FirstLinks \subseteq Nat \ {0}
    BY FinanceAssumption
  <2> QED BY <2>1, FinanceAssumption, LastIdIs
<1>2. AccountRows
  BY <1>1, FinanceAssumption DEF AccountRows, IsTable
<1>3. \A p \in Workers : acct[p] = NoAccountWork
  OBVIOUS
<1>4. \A p \in Workers : GoodAccount(acct[p])
  BY <1>3, NoWorkGood
<1>5. acct \in [Workers -> AccountState]
  BY NoWorkGood DEF GoodAccount
<1> QED BY <1>2, <1>4, <1>5 DEF AccountsInv

\* Whatever a request for an account does leaves the accounts typed.
LEMMA AccountsNextGood == AccountsInv /\ AccountsNext => AccountsInv'
<1> SUFFICES ASSUME AccountsInv, AccountsNext PROVE AccountsInv'
  OBVIOUS
<1>1. PICK p \in Workers : \/ \E r \in AccountRequests : BeginAccount(p, r)
                           \/ AccountStep(p)
                           \/ FailAccount(p)
  BY DEF AccountsNext
<1>2. lastAccount \in Nat /\ lastLink \in Nat
  BY DEF AccountsInv, AccountRows
<1>3. CASE \E r \in AccountRequests : BeginAccount(p, r)
  <2>1. PICK r \in AccountRequests : BeginAccount(p, r)
    BY <1>3
  <2> DEFINE s == [NoAccountWork EXCEPT
                     !.pc = IF r.kind = "create" THEN "number" ELSE "load", !.req = r]
  <2>2. r \in AccountRequest
    BY AccountsAssumption
  <2>3. s \in AccountState
    BY <2>2, NoWorkGood DEF GoodAccount, AccountState
  <2>4. /\ s.pc \in {"number", "load"} /\ s.req = r
        /\ s.link = NoAccountWork.link /\ s.links = NoAccountWork.links
    BY DEF NoAccountWork
  <2>5. NoAccountWork.link = 0 /\ DOMAIN NoAccountWork.links = {}
    BY DEF NoAccountWork, NoRows
  <2>6. acct' = [acct EXCEPT ![p] = s] /\ UNCHANGED <<tables, sequences>>
    BY <2>1 DEF BeginAccount
  <2> HIDE DEF s
  <2>7. GoodAccount(s)
    BY <2>3, <2>4, <2>5 DEF GoodAccount
  <2> QED BY <1>2, <2>6, <2>7, GoodStep DEF sequences
<1>4. CASE AccountStep(p)
  BY <1>4, AccountStepGood
<1>5. CASE FailAccount(p)
  BY <1>2, <1>5, RefuseGood DEF FailAccount, sequences
<1> QED BY <1>1, <1>3, <1>4, <1>5

\* The other requests leave the accounts alone.
LEMMA AccountsInvStable ==
  ASSUME AccountsInv, UNCHANGED <<tables, accountVars>>
  PROVE  AccountsInv'
<1>1. /\ accounts' = accounts /\ links' = links /\ acct' = acct
      /\ lastAccount' = lastAccount /\ lastLink' = lastLink
  BY DEF tables, accountVars, sequences
<1> QED BY <1>1 DEF AccountsInv, AccountRows, GoodAccount, IsTable

-----------------------------------------------------------------------------
(* Expense histories. *)

ExpenseState ==
  [pc : {"idle", "account", "create", "load", "save", "commit"},
   req : ExpenseRequest \cup {<<>>}, read : Link \cup Expense \cup {<<>>},
   wrote : Tables(Expense)]

\* A request that is being served was asked, goes the way of its kind, and has
\* read what it needs; it has written a new row if it adds, and one that is
\* there if it edits.
GoodExpense(s, ids, last) ==
  /\ s \in ExpenseState
  /\ s.pc # "idle" => s.req \in ExpenseRequests
  /\ s.pc \in {"account", "create"} => s.req.kind = "add"
  /\ s.pc \in {"load", "save"} => s.req.kind = "edit"
  /\ s.pc = "create" => s.read \in Link
  /\ s.pc = "save" => s.read \in Expense /\ s.req.id \in ids
  /\ s.pc # "commit" => DOMAIN s.wrote = {}
  /\ \A i \in DOMAIN s.wrote :
       /\ i \in 1 .. last
       /\ i \in ids <=> s.req.kind = "edit"

HistoryRows ==
  /\ lastHistory \in Nat
  /\ DOMAIN histories \subseteq 1 .. lastHistory
  /\ IsTable(histories, Expense)

\* No two transactions have written one row.
WritesApart ==
  \A p, q \in Workers :
    p # q => DOMAIN hist[p].wrote \cap DOMAIN hist[q].wrote = {}

HistoriesInv ==
  /\ HistoryRows
  /\ hist \in [Workers -> ExpenseState]
  /\ \A p \in Workers : GoodExpense(hist[p], DOMAIN histories, lastHistory)
  /\ WritesApart

\* What is proved of the histories implies the type invariant that is checked.
LEMMA HistoriesInvTypes == HistoriesInv => HistoryTypeOK
<1> SUFFICES ASSUME HistoriesInv PROVE HistoryTypeOK
  OBVIOUS
<1>1. ASSUME NEW p \in Workers
      PROVE  /\ hist[p].pc \in {"idle", "account", "create", "load", "save", "commit"}
             /\ ~AtH(p, "idle") => HReq(p) \in ExpenseRequest
             /\ AtH(p, "create") => hist[p].read \in Link
             /\ AtH(p, "save") => /\ hist[p].read \in Expense
                                  /\ HReq(p).id \in DOMAIN histories
             /\ \A i \in DOMAIN hist[p].wrote :
                  /\ hist[p].wrote[i] \in Expense
                  /\ i \in 1 .. lastHistory
                  /\ i \in DOMAIN histories <=> HReq(p).kind = "edit"
  <2>1. GoodExpense(hist[p], DOMAIN histories, lastHistory) /\ hist[p] \in ExpenseState
    BY DEF HistoriesInv, GoodExpense
  <2>2. IsTable(hist[p].wrote, Expense)
    BY <2>1, TablesTyped DEF ExpenseState
  <2>3. ExpenseRequests \subseteq ExpenseRequest
    BY HistoryAssumption
  <2> QED BY <2>1, <2>2, <2>3 DEF GoodExpense, ExpenseState, IsTable, AtH, HReq
<1>2. \A i \in DOMAIN histories : i \in 1 .. lastHistory /\ histories[i] \in Expense
  BY DEF HistoriesInv, HistoryRows, IsTable
<1>3. lastHistory \in Nat
  BY DEF HistoriesInv, HistoryRows
<1> QED BY <1>1, <1>2, <1>3 DEF HistoryTypeOK

\* A worker without work is good.
LEMMA NoExpenseGood ==
  ASSUME NEW ids, NEW last
  PROVE  GoodExpense(NoExpenseWork, ids, last) /\ DOMAIN NoExpenseWork.wrote = {}
<1>1. NoRows \in Tables(Expense)
  BY TablesHas
<1>2. NoExpenseWork \in ExpenseState
  BY <1>1 DEF NoExpenseWork, ExpenseState
<1>3. DOMAIN NoRows = {}
  BY DEF NoRows
<1> QED BY <1>2, <1>3 DEF GoodExpense, NoExpenseWork

\* The statement of one worker leaves the others as they were.
LEMMA GoodExpenseStep ==
  ASSUME HistoriesInv, NEW p \in Workers, NEW s,
         hist' = [hist EXCEPT ![p] = s], histories' = histories,
         lastHistory' \in {lastHistory, lastHistory + 1}, 
         GoodExpense(s, DOMAIN histories, lastHistory'),
         DOMAIN s.wrote \cap WrittenElsewhere(p) = {}
  PROVE  HistoriesInv'
<1>1. s \in ExpenseState
  BY DEF GoodExpense
<1>2. hist' \in [Workers -> ExpenseState]
  BY <1>1 DEF HistoriesInv
<1>3. lastHistory \in Nat /\ lastHistory' \in Nat /\ lastHistory <= lastHistory'
  BY DEF HistoriesInv, HistoryRows
<1>4. \A q \in Workers : hist'[q] = IF q = p THEN s ELSE hist[q]
  BY DEF HistoriesInv
<1>5. ASSUME NEW q \in Workers, q # p
      PROVE  GoodExpense(hist'[q], DOMAIN histories', lastHistory')
  <2>1. GoodExpense(hist[q], DOMAIN histories, lastHistory) /\ hist'[q] = hist[q]
    BY <1>4, <1>5 DEF HistoriesInv
  <2> QED BY <1>3, <2>1 DEF GoodExpense
<1>6. GoodExpense(hist'[p], DOMAIN histories', lastHistory')
  BY <1>4 DEF GoodExpense
<1>7. WritesApart'
  <2>1. \A q \in Workers \ {p} : DOMAIN s.wrote \cap DOMAIN hist[q].wrote = {}
    BY DEF WrittenElsewhere
  <2> QED BY <1>4, <2>1 DEF WritesApart, HistoriesInv
<1>8. HistoryRows'
  BY <1>3 DEF HistoriesInv, HistoryRows, IsTable
<1> QED BY <1>2, <1>5, <1>6, <1>7, <1>8 DEF HistoriesInv
\* A request that is rolled back leaves nothing behind but a used id.
LEMMA ExpenseEnds ==
  ASSUME HistoriesInv, NEW p \in Workers, RollBackExpense(p)
  PROVE  HistoriesInv'
BY NoExpenseGood, GoodExpenseStep DEF RollBackExpense

\* Every statement of a request for an expense leaves the histories typed.
LEMMA HistoryStepGood ==
  ASSUME AccountsInv, HistoriesInv, NEW p \in Workers, HistoryStep(p)
  PROVE  HistoriesInv'
<1> DEFINE Ids == DOMAIN histories
<1>1. /\ GoodExpense(hist[p], Ids, lastHistory) /\ hist[p] \in ExpenseState
      /\ hist[p].pc # "idle" => HReq(p) \in ExpenseRequest
  BY HistoryAssumption DEF HistoriesInv, GoodExpense, HReq
<1>2. lastHistory \in Nat /\ Ids \subseteq 1 .. lastHistory
  BY DEF HistoriesInv, HistoryRows
<1>3. CASE RollBackExpense(p)
  BY <1>3, ExpenseEnds
<1>4. CASE GetAccount(p) /\ ~RollBackExpense(p)
  <2>1. PICK l \in DOMAIN links :
          hist' = [hist EXCEPT ![p].pc = "create", ![p].read = links[l]]
    BY <1>4 DEF GetAccount, OfAccount
  <2> DEFINE s == [hist[p] EXCEPT !.pc = "create", !.read = links[l]]
  <2>2. AtH(p, "account") /\ histories' = histories /\ lastHistory' = lastHistory
    BY <1>4 DEF GetAccount
  <2>3. links[l] \in Link
    BY DEF AccountsInv, AccountRows, IsTable
  <2>4. s \in ExpenseState /\ DOMAIN s.wrote = {}
    BY <1>1, <2>2, <2>3 DEF ExpenseState, GoodExpense, AtH
  <2>5. GoodExpense(s, Ids, lastHistory)
    BY <1>1, <2>2, <2>3, <2>4 DEF ExpenseState, GoodExpense, AtH
  <2>6. hist' = [hist EXCEPT ![p] = s]
    BY <2>1
  <2> HIDE DEF s
  <2> QED BY <2>2, <2>4, <2>5, <2>6, GoodExpenseStep
<1>5. CASE GetExpense(p) /\ ~RollBackExpense(p)
  <2> DEFINE id == HReq(p).id
             s == [hist[p] EXCEPT !.pc = "save", !.read = histories[id]]
  <2>1. /\ AtH(p, "load") /\ histories' = histories /\ lastHistory' = lastHistory
        /\ id \in Ids /\ hist' = [hist EXCEPT ![p] = s]
    BY <1>5 DEF GetExpense
  <2>2. histories[id] \in Expense
    BY <2>1 DEF HistoriesInv, HistoryRows, IsTable
  <2>3. s \in ExpenseState /\ DOMAIN s.wrote = {}
    BY <1>1, <2>1, <2>2 DEF ExpenseState, GoodExpense, AtH
  <2>4. GoodExpense(s, Ids, lastHistory)
    BY <1>1, <2>1, <2>2, <2>3 DEF ExpenseState, GoodExpense, AtH, HReq
  <2> HIDE DEF s
  <2> QED BY <2>1, <2>3, <2>4, GoodExpenseStep
<1>6. CASE CreateExpense(p) /\ ~RollBackExpense(p)
  <2> DEFINE id == lastHistory + 1
             row == Added(HReq(p), hist[p].read)
             s == [hist[p] EXCEPT !.pc = "commit", !.wrote = OneRow(id, row)]
  <2>1. /\ AtH(p, "create") /\ histories' = histories /\ lastHistory' = id
        /\ hist' = [hist EXCEPT ![p] = s]
    BY <1>6 DEF CreateExpense, NewId
  <2>2. id \in Nat \ {0} /\ id \notin Ids
    BY <1>2
  <2>3. row \in Expense
    <3>1. hist[p].read \in Link /\ HReq(p) \in ExpenseRequest
      BY <1>1, <2>1 DEF GoodExpense, AtH
    <3>3. hist[p].read.account \in Nat /\ hist[p].read.warehouse \in Nat
      BY <3>1, LinkEnds
    <3>4. /\ HReq(p).user \in Nat /\ HReq(p).type \in Types
          /\ HReq(p).content \in Contents
      BY <3>1 DEF ExpenseRequest
    <3> QED BY <3>3, <3>4 DEF Added, Expense
  <2>4. OneRow(id, row) \in Tables(Expense) /\ DOMAIN OneRow(id, row) = {id}
    BY <2>2, <2>3, TablesHas, OneRowIs
  <2>5. s \in ExpenseState /\ DOMAIN s.wrote = {id}
    BY <1>1, <2>4 DEF ExpenseState
  <2>6. HReq(p).kind = "add"
    BY <1>1, <2>1 DEF GoodExpense, AtH, HReq
  <2>7. GoodExpense(s, Ids, lastHistory')
    BY <1>1, <1>2, <2>1, <2>2, <2>5, <2>6 DEF ExpenseState, GoodExpense, AtH, HReq
  <2>8. id \notin WrittenElsewhere(p)
    <3>1. ASSUME NEW q \in Workers PROVE id \notin DOMAIN hist[q].wrote
      BY <1>2 DEF HistoriesInv, GoodExpense
    <3> QED BY <3>1 DEF WrittenElsewhere
  <2> HIDE DEF s
  <2> QED BY <2>1, <2>5, <2>7, <2>8, GoodExpenseStep
<1>7. CASE UpdateExpense(p) /\ ~RollBackExpense(p)
  <2> DEFINE id == HReq(p).id
             row == Edited(HReq(p), hist[p].read)
             s == [hist[p] EXCEPT !.pc = "commit", !.wrote = OneRow(id, row)]
  <2>1. /\ AtH(p, "save") /\ histories' = histories /\ lastHistory' = lastHistory
        /\ hist' = [hist EXCEPT ![p] = s] /\ id \notin WrittenElsewhere(p)
    BY <1>7 DEF UpdateExpense
  <2>2. id \in Ids /\ id \in Nat \ {0}
    BY <1>1, <1>2, <2>1 DEF GoodExpense, AtH, HReq
  <2>3. row \in Expense
    <3>1. hist[p].read \in Expense /\ HReq(p) \in ExpenseRequest
      BY <1>1, <2>1 DEF GoodExpense, AtH
    <3> QED BY <3>1 DEF Edited, ExpenseRequest, Expense
  <2>4. OneRow(id, row) \in Tables(Expense) /\ DOMAIN OneRow(id, row) = {id}
    BY <2>2, <2>3, TablesHas, OneRowIs
  <2>5. s \in ExpenseState /\ DOMAIN s.wrote = {id}
    BY <1>1, <2>4 DEF ExpenseState
  <2>6. HReq(p).kind = "edit"
    BY <1>1, <2>1 DEF GoodExpense, AtH, HReq
  <2>7. GoodExpense(s, Ids, lastHistory)
    BY <1>1, <1>2, <2>1, <2>2, <2>5, <2>6 DEF ExpenseState, GoodExpense, AtH, HReq
  <2> HIDE DEF s
  <2> QED BY <2>1, <2>5, <2>7, GoodExpenseStep
<1>8. CASE CommitExpense(p)
  <2>1. /\ hist' = [hist EXCEPT ![p] = NoExpenseWork] /\ lastHistory' = lastHistory
        /\ histories' = Over(hist[p].wrote, histories)
    BY <1>8 DEF CommitExpense
  <2>2. DOMAIN histories' = DOMAIN hist[p].wrote \cup Ids
    BY <2>1, OverDomain
  <2>3. HistoryRows'
    <3>1. IsTable(hist[p].wrote, Expense)
      BY <1>1, TablesTyped DEF ExpenseState
    <3>2. IsTable(histories', Expense)
      BY <2>1, <3>1, OverTyped DEF HistoriesInv, HistoryRows
    <3>3. DOMAIN histories' \subseteq 1 .. lastHistory
      BY <1>1, <1>2, <2>2 DEF GoodExpense
    <3> QED BY <1>2, <2>1, <3>2, <3>3 DEF HistoryRows, IsTable
  <2>4. \A q \in Workers : hist'[q] = IF q = p THEN NoExpenseWork ELSE hist[q]
    BY <2>1 DEF HistoriesInv
  <2>5. hist' \in [Workers -> ExpenseState]
    BY <2>1, NoExpenseGood DEF HistoriesInv, GoodExpense
  <2>6. ASSUME NEW q \in Workers
        PROVE  GoodExpense(hist'[q], DOMAIN histories', lastHistory')
    <3>1. CASE q = p
      BY <2>4, <3>1, NoExpenseGood
    <3>2. CASE q # p
      <4>1. GoodExpense(hist[q], Ids, lastHistory) /\ hist'[q] = hist[q]
        BY <2>4, <3>2 DEF HistoriesInv
      <4>2. DOMAIN hist[q].wrote \cap DOMAIN hist[p].wrote = {}
        BY <3>2 DEF HistoriesInv, WritesApart
      <4> QED BY <2>1, <2>2, <4>1, <4>2 DEF GoodExpense
    <3> QED BY <3>1, <3>2
  <2>7. WritesApart'
    BY <2>4, NoExpenseGood DEF HistoriesInv, WritesApart
  <2> QED BY <2>3, <2>5, <2>6, <2>7 DEF HistoriesInv
<1> QED BY <1>3, <1>4, <1>5, <1>6, <1>7, <1>8 DEF HistoryStep
\* Whatever a request for an expense does leaves the histories typed.
LEMMA HistoryNextGood == AccountsInv /\ HistoriesInv /\ HistoryNext => HistoriesInv'
<1> SUFFICES ASSUME AccountsInv, HistoriesInv, HistoryNext PROVE HistoriesInv'
  OBVIOUS
<1>1. PICK p \in Workers : \/ \E r \in ExpenseRequests : BeginExpense(p, r)
                           \/ HistoryStep(p)
                           \/ RollBackExpense(p)
  BY DEF HistoryNext
<1>2. CASE \E r \in ExpenseRequests : BeginExpense(p, r)
  <2>1. PICK r \in ExpenseRequests : BeginExpense(p, r)
    BY <1>2
  <2> DEFINE s == [NoExpenseWork EXCEPT
                     !.pc = IF r.kind = "add" THEN "account" ELSE "load", !.req = r]
  <2>2. r \in ExpenseRequest
    BY HistoryAssumption
  <2>3. NoExpenseWork \in ExpenseState /\ DOMAIN NoExpenseWork.wrote = {}
    BY NoExpenseGood DEF GoodExpense
  <2>4. s \in ExpenseState /\ DOMAIN s.wrote = {}
    BY <2>2, <2>3 DEF ExpenseState
  <2>5. /\ s.pc = IF r.kind = "add" THEN "account" ELSE "load"
        /\ s.req = r
    BY DEF NoExpenseWork
  <2>6. r.kind \in {"add", "edit"}
    BY <2>2 DEF ExpenseRequest
  <2>7. /\ hist' = [hist EXCEPT ![p] = s]
        /\ histories' = histories /\ lastHistory' = lastHistory
    BY <2>1 DEF BeginExpense
  <2> HIDE DEF s
  <2>8. GoodExpense(s, DOMAIN histories, lastHistory)
    BY <2>4, <2>5, <2>6 DEF GoodExpense
  <2> QED BY <2>4, <2>7, <2>8, GoodExpenseStep
<1>3. CASE HistoryStep(p)
  BY <1>3, HistoryStepGood
<1>4. CASE RollBackExpense(p)
  BY <1>4, ExpenseEnds
<1> QED BY <1>1, <1>2, <1>3, <1>4

\* There are no rows at first.
LEMMA HistoryInitGood == HistoryInit => HistoriesInv
<1> SUFFICES ASSUME HistoryInit PROVE HistoriesInv
  OBVIOUS
<1> USE DEF HistoryInit
<1>1. HistoryRows
  BY DEF HistoryRows, NoRows, IsTable
<1>2. \A p \in Workers : hist[p] = NoExpenseWork
  OBVIOUS
<1>3. \A p \in Workers : GoodExpense(hist[p], DOMAIN histories, lastHistory)
  BY <1>2, NoExpenseGood
<1>4. hist \in [Workers -> ExpenseState]
  BY NoExpenseGood DEF GoodExpense
<1>5. WritesApart
  BY <1>2, NoExpenseGood DEF WritesApart
<1> QED BY <1>1, <1>3, <1>4, <1>5 DEF HistoriesInv

\* The other requests leave the histories alone.
LEMMA HistoriesInvStable ==
  ASSUME HistoriesInv, UNCHANGED historyVars
  PROVE  HistoriesInv'
<1>1. histories' = histories /\ lastHistory' = lastHistory /\ hist' = hist
  BY DEF historyVars
<1> QED BY <1>1 DEF HistoriesInv, HistoryRows, WritesApart, IsTable

-----------------------------------------------------------------------------
(* Balances. *)

BalanceState ==
  [pc : {"idle", "account", "balance", "create", "update"},
   req : BalanceRequest \cup {<<>>}, link : Link, found : Nat \cup {None}]

\* A call that is being served was made, and what it updates is there.
GoodBalance(s, ids) ==
  /\ s \in BalanceState
  /\ s.pc # "idle" => s.req \in BalanceRequests
  /\ s.pc = "update" => s.found \in ids

\* Rows are only added, and get the ids 1, 2, 3 and so on.
BalanceRows ==
  /\ \E n \in Nat : DOMAIN balances = 1 .. n
  /\ IsTable(balances, Balance)

BalancesInv ==
  /\ BalanceRows
  /\ bal \in [Workers -> BalanceState]
  /\ \A p \in Workers : GoodBalance(bal[p], DOMAIN balances)

\* What is proved of the balances implies the type invariant that is checked.
LEMMA BalancesInvTypes == BalancesInv => BalanceTypeOK
BY BalanceAssumption
DEF BalancesInv, BalanceRows, GoodBalance, BalanceState, BalanceTypeOK, IsTable, AtB, BReq

\* A worker without work is good.
LEMMA NoBalanceGood ==
  ASSUME NEW ids
  PROVE  GoodBalance(NoBalanceWork, ids)
<1>1. NoLink \in Link
  BY DEF NoLink, Link
<1> QED BY <1>1 DEF GoodBalance, NoBalanceWork, BalanceState

\* The statement of one worker leaves the others as they were.
LEMMA GoodBalanceStep ==
  ASSUME BalancesInv, NEW p \in Workers, NEW s,
         bal' = [bal EXCEPT ![p] = s], BalanceRows',
         DOMAIN balances \subseteq DOMAIN balances',
         GoodBalance(s, DOMAIN balances)
  PROVE  BalancesInv'
<1>1. bal' \in [Workers -> BalanceState]
  BY DEF BalancesInv, GoodBalance
<1>2. \A q \in Workers : bal'[q] = IF q = p THEN s ELSE bal[q]
  BY DEF BalancesInv
<1>3. ASSUME NEW q \in Workers PROVE GoodBalance(bal'[q], DOMAIN balances')
  <2>1. GoodBalance(bal'[q], DOMAIN balances)
    BY <1>2 DEF BalancesInv
  <2> QED BY <2>1 DEF GoodBalance
<1> QED BY <1>1, <1>3 DEF BalancesInv

\* The row that Create inserts gets the next id.
LEMMA CreateBalanceRows ==
  ASSUME BalancesInv, NEW p \in Workers, CreateBalance(p)
  PROVE  /\ Cardinality(DOMAIN balances) \in Nat
         /\ DOMAIN balances = 1 .. Cardinality(DOMAIN balances)
         /\ DOMAIN balances' = 1 .. Cardinality(DOMAIN balances) + 1
<1>1. PICK n \in Nat : DOMAIN balances = 1 .. n
  BY DEF BalancesInv, BalanceRows
<1>2. Cardinality(DOMAIN balances) = n
  BY <1>1, FS_Interval
<1>3. \E row : balances' = Over(OneRow(n + 1, row), balances)
  BY <1>2 DEF CreateBalance
<1>4. DOMAIN balances' = {n + 1} \cup 1 .. n
  <2>1. PICK row : balances' = Over(OneRow(n + 1, row), balances)
    BY <1>3
  <2>2. DOMAIN balances' = DOMAIN OneRow(n + 1, row) \cup DOMAIN balances
    BY <2>1, OverDomain
  <2>3. DOMAIN OneRow(n + 1, row) = {n + 1}
    BY OneRowIs
  <2> QED BY <1>1, <2>2, <2>3
<1> QED BY <1>1, <1>2, <1>4

\* Every statement of a call leaves the balances typed.
LEMMA BalanceStepGood ==
  ASSUME AccountsInv, BalancesInv, NEW p \in Workers, BalanceStep(p)
  PROVE  BalancesInv'
<1>1. /\ GoodBalance(bal[p], DOMAIN balances) /\ bal[p] \in BalanceState
      /\ bal[p].pc # "idle" => BReq(p) \in BalanceRequest
  BY BalanceAssumption DEF BalancesInv, GoodBalance, BReq
<1>2. IsTable(links, Link) /\ IsTable(balances, Balance)
  BY DEF AccountsInv, AccountRows, BalancesInv, BalanceRows
<1>3. balances' = balances => BalanceRows'
  BY DEF BalancesInv, BalanceRows, IsTable
<1>4. CASE FindAccount(p)
  <2>1. PICK l \in {links[l] : l \in OfAccount(BReq(p).account)} \cup {NoLink} :
          bal' = [bal EXCEPT ![p].pc = "balance", ![p].link = l]
    BY <1>4 DEF FindAccount
  <2> DEFINE s == [bal[p] EXCEPT !.pc = "balance", !.link = l]
  <2>2. l \in Link
    <3>1. NoLink \in Link
      BY DEF NoLink, Link
    <3>2. \A m \in OfAccount(BReq(p).account) : links[m] \in Link
      BY <1>2 DEF IsTable, OfAccount
    <3> QED BY <3>1, <3>2
  <2>3. AtB(p, "account") /\ balances' = balances
    BY <1>4 DEF FindAccount
  <2>4. GoodBalance(s, DOMAIN balances)
    BY <1>1, <2>2, <2>3 DEF GoodBalance, BalanceState, AtB
  <2>5. bal' = [bal EXCEPT ![p] = s]
    BY <2>1
  <2> HIDE DEF s
  <2> QED BY <1>3, <2>3, <2>4, <2>5, GoodBalanceStep
<1>5. CASE FindBalance(p)
  <2>1. PICK i \in BalancesOf(bal[p].link, AskedDay(BReq(p).at)) \cup {None} :
          /\ bal' = [bal EXCEPT ![p].pc = FoundThen(i), ![p].found = i]
          /\ i # None => i \in DOMAIN balances
    BY <1>5 DEF FindBalance, BalancesOf
  <2> DEFINE s == [bal[p] EXCEPT !.pc = FoundThen(i), !.found = i]
  <2>2. AtB(p, "balance") /\ balances' = balances
    BY <1>5 DEF FindBalance
  <2>3. /\ FoundThen(i) \in {"create", "update"} /\ i \in Nat \cup {None}
        /\ FoundThen(i) = "update" => i \in DOMAIN balances
    BY <1>2, <2>1 DEF FoundThen, IsTable
  <2>4. GoodBalance(s, DOMAIN balances)
    BY <1>1, <2>2, <2>3 DEF GoodBalance, BalanceState, AtB
  <2>5. bal' = [bal EXCEPT ![p] = s]
    BY <2>1
  <2> HIDE DEF s
  <2> QED BY <1>3, <2>2, <2>4, <2>5, GoodBalanceStep
<1>6. CASE CreateBalance(p)
  <2> DEFINE n == Cardinality(DOMAIN balances)
             link == bal[p].link
             row == [account |-> link.account, warehouse |-> link.warehouse,
                     amount |-> BReq(p).amount, at |-> BReq(p).at]
  <2>1. /\ n \in Nat /\ DOMAIN balances = 1 .. n /\ DOMAIN balances' = 1 .. n + 1
    BY <1>6, CreateBalanceRows
  <2>2. /\ AtB(p, "create") /\ balances' = Over(OneRow(n + 1, row), balances)
        /\ bal' = [bal EXCEPT ![p] = NoBalanceWork]
    BY <1>6 DEF CreateBalance
  <2>3. row \in Balance
    <3>1. link \in Link /\ BReq(p) \in BalanceRequest
      BY <1>1, <2>2 DEF BalanceState, AtB
    <3>2. link.account \in Nat /\ link.warehouse \in Nat
      BY <3>1, LinkEnds
    <3>3. BReq(p).amount \in Amounts /\ BReq(p).at \in Times
      BY <3>1 DEF BalanceRequest
    <3> QED BY <3>2, <3>3 DEF Balance
  <2>4. IsTable(OneRow(n + 1, row), Balance)
    <3>1. n + 1 \in Nat \ {0}
      BY <2>1
    <3> HIDE DEF n, row
    <3> QED BY <2>3, <3>1, OneRowTyped
  <2>5. IsTable(balances', Balance)
    BY <1>2, <2>2, <2>4, OverTyped
  <2>6. BalanceRows'
    BY <2>1, <2>5 DEF BalanceRows, IsTable
  <2>7. DOMAIN balances \subseteq DOMAIN balances'
    BY <2>1
  <2> QED BY <2>2, <2>6, <2>7, NoBalanceGood, GoodBalanceStep
<1>7. CASE UpdateBalance(p)
  <2> DEFINE rows == [i \in RowsToUpdate(p) |->
                        [balances[i] EXCEPT !.amount = BReq(p).amount, !.at = BReq(p).at]]
  <2>1. /\ AtB(p, "update") /\ balances' = Over(rows, balances)
        /\ bal' = [bal EXCEPT ![p] = NoBalanceWork]
    BY <1>7 DEF UpdateBalance
  <2>2. RowsToUpdate(p) \subseteq DOMAIN balances
    BY <1>1, <2>1 DEF GoodBalance, AtB, RowsToUpdate
  <2>3. ASSUME NEW i \in RowsToUpdate(p)
        PROVE  i \in Nat \ {0} /\ rows[i] \in Balance
    <3>1. i \in Nat \ {0} /\ balances[i] \in Balance
      BY <1>2, <2>2 DEF IsTable
    <3>2. BReq(p).amount \in Amounts /\ BReq(p).at \in Times
      BY <1>1, <2>1 DEF BalanceRequest, AtB
    <3> QED BY <3>1, <3>2 DEF Balance
  <2>4. DOMAIN rows = RowsToUpdate(p)
    OBVIOUS
  <2> HIDE DEF rows
  <2>5. IsTable(balances', Balance)
    BY <1>2, <2>1, <2>3, <2>4, OverTyped DEF IsTable
  <2>6. DOMAIN balances' = DOMAIN balances
    BY <2>1, <2>2, <2>4, OverDomain
  <2>7. BalanceRows'
    BY <2>5, <2>6 DEF BalancesInv, BalanceRows, IsTable
  <2> QED BY <2>1, <2>6, <2>7, NoBalanceGood, GoodBalanceStep
<1> QED BY <1>4, <1>5, <1>6, <1>7 DEF BalanceStep
\* Whatever a call for a balance does leaves the balances typed.
LEMMA BalanceNextGood == AccountsInv /\ BalancesInv /\ BalanceNext => BalancesInv'
<1> SUFFICES ASSUME AccountsInv, BalancesInv, BalanceNext PROVE BalancesInv'
  OBVIOUS
<1>1. PICK p \in Workers : \/ \E r \in BalanceRequests : BeginBalance(p, r)
                           \/ BalanceStep(p)
                           \/ EndBalance(p)
  BY DEF BalanceNext
<1>2. balances' = balances => BalanceRows'
  BY DEF BalancesInv, BalanceRows, IsTable
<1>3. CASE \E r \in BalanceRequests : BeginBalance(p, r)
  <2>1. PICK r \in BalanceRequests : BeginBalance(p, r)
    BY <1>3
  <2> DEFINE s == [NoBalanceWork EXCEPT !.pc = "account", !.req = r]
  <2>2. r \in BalanceRequest
    BY BalanceAssumption
  <2>3. NoBalanceWork \in BalanceState
    BY NoBalanceGood DEF GoodBalance
  <2>4. GoodBalance(s, DOMAIN balances)
    BY <2>2, <2>3 DEF BalanceState, GoodBalance
  <2>5. bal' = [bal EXCEPT ![p] = s] /\ balances' = balances
    BY <2>1 DEF BeginBalance
  <2> HIDE DEF s
  <2> QED BY <1>2, <2>4, <2>5, GoodBalanceStep
<1>4. CASE BalanceStep(p)
  BY <1>4, BalanceStepGood
<1>5. CASE EndBalance(p)
  BY <1>2, <1>5, NoBalanceGood, GoodBalanceStep DEF EndBalance
<1> QED BY <1>1, <1>3, <1>4, <1>5

\* There are no rows at first.
LEMMA BalanceInitGood == BalanceInit => BalancesInv
<1> SUFFICES ASSUME BalanceInit PROVE BalancesInv
  OBVIOUS
<1>1. balances = NoRows /\ bal = [p \in Workers |-> NoBalanceWork]
  BY DEF BalanceInit
<1>2. DOMAIN balances = 1 .. 0
  BY <1>1 DEF NoRows
<1>3. BalanceRows
  BY <1>2 DEF BalanceRows, IsTable
<1>4. \A p \in Workers : bal[p] = NoBalanceWork
  BY <1>1
<1>5. \A p \in Workers : GoodBalance(bal[p], DOMAIN balances)
  BY <1>4, NoBalanceGood
<1>6. bal \in [Workers -> BalanceState]
  BY <1>1, NoBalanceGood DEF GoodBalance
<1> QED BY <1>3, <1>5, <1>6 DEF BalancesInv

\* The other requests leave the balances alone.
LEMMA BalancesInvStable ==
  ASSUME BalancesInv, UNCHANGED balanceVars
  PROVE  BalancesInv'
<1>1. balances' = balances /\ bal' = bal
  BY DEF balanceVars
<1> QED BY <1>1 DEF BalancesInv, BalanceRows, IsTable

-----------------------------------------------------------------------------
(* The workers. *)

\* A worker serves no request, or one of one of the three kinds.
ServesOne(p) ==
  /\ p \notin busy => /\ acct[p].pc = "idle" /\ hist[p].pc = "idle"
                      /\ bal[p].pc = "idle"
  /\ p \in busy => \/ acct[p].pc # "idle" /\ hist[p].pc = "idle" /\ bal[p].pc = "idle"
                   \/ acct[p].pc = "idle" /\ hist[p].pc # "idle" /\ bal[p].pc = "idle"
                   \/ acct[p].pc = "idle" /\ hist[p].pc = "idle" /\ bal[p].pc # "idle"

ServerInv ==
  /\ calls \in 0 .. MaxCalls
  /\ \A p \in Workers : ServesOne(p)

\* The steps of a worker: it takes a request on, works on it, or is done with it.
Turn(p, old, new) ==
  \/ Accept(p) /\ new # "idle"
  \/ UNCHANGED server /\ old # "idle" /\ new # "idle"
  \/ Release(p) /\ old # "idle" /\ new = "idle"

\* Requests for accounts take their turns.
LEMMA AccountTurns ==
  ASSUME AccountsInv, AccountsNext
  PROVE  \E p \in Workers :
           /\ Turn(p, acct[p].pc, acct'[p].pc)
           /\ \A q \in Workers \ {p} : acct'[q] = acct[q]
<1>1. acct \in [Workers -> AccountState]
  BY DEF AccountsInv
<1>2. ASSUME NEW p \in Workers, RefuseAccount(p), acct[p].pc # "idle"
      PROVE  Turn(p, acct[p].pc, acct'[p].pc) /\ \A q \in Workers \ {p} : acct'[q] = acct[q]
  BY <1>1, <1>2 DEF RefuseAccount, NoAccountWork, Turn
<1>3. ASSUME NEW p \in Workers, NEW s, acct' = [acct EXCEPT ![p] = s], s.pc # "idle",
             acct[p].pc # "idle", UNCHANGED server
      PROVE  Turn(p, acct[p].pc, acct'[p].pc) /\ \A q \in Workers \ {p} : acct'[q] = acct[q]
  BY <1>1, <1>3 DEF Turn
<1>4. PICK p \in Workers : \/ \E r \in AccountRequests : BeginAccount(p, r)
                           \/ AccountStep(p)
                           \/ FailAccount(p)
  BY DEF AccountsNext
<1>5. \A pc : acct[p].pc # "idle" /\ pc # "idle" /\ GotoA(p, pc) =>
        Turn(p, acct[p].pc, acct'[p].pc) /\ \A q \in Workers \ {p} : acct'[q] = acct[q]
  BY <1>1 DEF GotoA, Turn, AccountState
<1>6. CASE \E r \in AccountRequests : BeginAccount(p, r)
  BY <1>1, <1>6 DEF BeginAccount, NoAccountWork, Turn
<1>7. CASE FailAccount(p)
  BY <1>2, <1>7 DEF FailAccount, AtA
<1>8. CASE CheckNumber(p) \/ CheckOps(p) \/ CheckOwnOps(p)
  BY <1>2, <1>5, <1>8 DEF CheckNumber, CheckOps, CheckOwnOps, AtA
<1>9. CASE InsertAccount(p) \/ SaveAccount(p)
  <2>1. acct[p].pc # "idle"
    BY <1>9 DEF InsertAccount, SaveAccount, AtA
  <2>2. CASE RefuseAccount(p)
    BY <1>2, <2>1, <2>2
  <2>3. CASE ~RefuseAccount(p)
    <3>1. UNCHANGED server
      BY <1>9, <2>3 DEF InsertAccount, SaveAccount
    <3>2. CASE InsertAccount(p)
      <4>1. acct'[p].pc = "link" /\ \A q \in Workers \ {p} : acct'[q] = acct[q]
        BY <1>1, <2>3, <3>2 DEF InsertAccount, AccountState
      <4> QED BY <2>1, <3>1, <4>1 DEF Turn
    <3>3. CASE SaveAccount(p)
      <4>1. acct'[p].pc = "saveLink" /\ \A q \in Workers \ {p} : acct'[q] = acct[q]
        BY <1>1, <2>3, <3>3 DEF SaveAccount, AccountState
      <4> QED BY <2>1, <3>1, <4>1 DEF Turn
    <3> QED BY <1>9, <3>2, <3>3
  <2> QED BY <2>2, <2>3
<1>10. CASE InsertLink(p) \/ SaveLink(p) \/ SaveDisabled(p)
  <2>1. acct[p].pc # "idle" /\ UNCHANGED server
    BY <1>10 DEF InsertLink, SaveLink, SaveDisabled, AtA
  <2>2. acct'[p].pc = "commit" /\ \A q \in Workers \ {p} : acct'[q] = acct[q]
    <3>1. CASE InsertLink(p)
      BY <1>1, <3>1 DEF InsertLink, AccountState
    <3>2. CASE SaveLink(p)
      BY <1>1, <3>2 DEF SaveLink, AccountState
    <3>3. CASE SaveDisabled(p)
      BY <1>1, <3>3 DEF SaveDisabled, AccountState
    <3> QED BY <1>10, <3>1, <3>2, <3>3
  <2> QED BY <2>1, <2>2 DEF Turn
<1>11. CASE LoadAccount(p)
  <2>1. CASE RefuseAccount(p)
    BY <1>2, <1>11, <2>1 DEF LoadAccount, AtA
  <2>2. CASE \E l \in DOMAIN links : LockRows(p, l) /\ UNCHANGED server
    <3>1. NextOf(AReq(p)) # "idle"
      BY DEF NextOf
    <3>2. PICK l \in DOMAIN links : acct' = [acct EXCEPT ![p].link = l, ![p].held = RowsOf(l),
                                                      ![p].pc = NextOf(AReq(p))]
      BY <2>2 DEF LockRows
    <3>3. acct'[p].pc = NextOf(AReq(p)) /\ \A q \in Workers \ {p} : acct'[q] = acct[q]
      BY <1>1, <3>2 DEF AccountState
    <3>4. acct[p].pc # "idle" /\ UNCHANGED server
      BY <1>11, <2>2 DEF LoadAccount, AtA
    <3> QED BY <3>1, <3>3, <3>4 DEF Turn
  <2> QED BY <1>11, <2>1, <2>2 DEF LoadAccount, OfWarehouse
<1>12. CASE CommitAccount(p)
  BY <1>1, <1>12 DEF CommitAccount, NoAccountWork, AtA, Turn
<1> QED BY <1>4, <1>6, <1>7, <1>8, <1>9, <1>10, <1>11, <1>12 DEF AccountStep

\* Requests for expenses take their turns.
LEMMA HistoryTurns ==
  ASSUME HistoriesInv, HistoryNext
  PROVE  \E p \in Workers :
           /\ Turn(p, hist[p].pc, hist'[p].pc)
           /\ \A q \in Workers \ {p} : hist'[q] = hist[q]
<1>1. hist \in [Workers -> ExpenseState]
  BY DEF HistoriesInv
<1>2. PICK p \in Workers : \/ \E r \in ExpenseRequests : BeginExpense(p, r)
                           \/ HistoryStep(p)
                           \/ RollBackExpense(p)
  BY DEF HistoryNext
<1>3. CASE \E r \in ExpenseRequests : BeginExpense(p, r)
  BY <1>1, <1>3 DEF BeginExpense, NoExpenseWork, Turn
<1>4. CASE RollBackExpense(p)
  BY <1>1, <1>4 DEF RollBackExpense, NoExpenseWork, AtH, Turn
<1>5. CASE CommitExpense(p)
  BY <1>1, <1>5 DEF CommitExpense, NoExpenseWork, AtH, Turn
<1>6. CASE ~RollBackExpense(p) /\ (GetAccount(p) \/ GetExpense(p))
  BY <1>1, <1>6 DEF GetAccount, GetExpense, AtH, Turn, ExpenseState
<1>7. CASE ~RollBackExpense(p) /\ (CreateExpense(p) \/ UpdateExpense(p))
  BY <1>1, <1>7 DEF CreateExpense, UpdateExpense, AtH, Turn, ExpenseState
<1> QED BY <1>2, <1>3, <1>4, <1>5, <1>6, <1>7 DEF HistoryStep

\* Calls for balances take their turns.
LEMMA BalanceTurns ==
  ASSUME BalancesInv, BalanceNext
  PROVE  \E p \in Workers :
           /\ Turn(p, bal[p].pc, bal'[p].pc)
           /\ \A q \in Workers \ {p} : bal'[q] = bal[q]
<1>1. bal \in [Workers -> BalanceState]
  BY DEF BalancesInv
<1>2. PICK p \in Workers : \/ \E r \in BalanceRequests : BeginBalance(p, r)
                           \/ BalanceStep(p)
                           \/ EndBalance(p)
  BY DEF BalanceNext
<1>3. CASE \E r \in BalanceRequests : BeginBalance(p, r)
  BY <1>1, <1>3 DEF BeginBalance, NoBalanceWork, Turn
<1>4. CASE EndBalance(p)
  BY <1>1, <1>4 DEF EndBalance, NoBalanceWork, AtB, Turn
<1>5. CASE FindAccount(p) \/ FindBalance(p)
  <2>1. bal[p].pc # "idle" /\ UNCHANGED server
    BY <1>5 DEF FindAccount, FindBalance, AtB
  <2>2. \/ \E l : bal' = [bal EXCEPT ![p].pc = "balance", ![p].link = l]
        \/ \E i : bal' = [bal EXCEPT ![p].pc = FoundThen(i), ![p].found = i]
    BY <1>5 DEF FindAccount, FindBalance
  <2>3. \A i : FoundThen(i) # "idle"
    BY DEF FoundThen
  <2>4. bal'[p].pc # "idle" /\ \A q \in Workers \ {p} : bal'[q] = bal[q]
    <3>1. CASE \E l : bal' = [bal EXCEPT ![p].pc = "balance", ![p].link = l]
      BY <1>1, <3>1 DEF BalanceState
    <3>2. CASE \E i : bal' = [bal EXCEPT ![p].pc = FoundThen(i), ![p].found = i]
      <4>1. PICK i : bal' = [bal EXCEPT ![p].pc = FoundThen(i), ![p].found = i]
        BY <3>2
      <4>2. bal'[p].pc = FoundThen(i) /\ \A q \in Workers \ {p} : bal'[q] = bal[q]
        BY <1>1, <4>1 DEF BalanceState
      <4> QED BY <2>3, <4>2
    <3> QED BY <2>2, <3>1, <3>2
  <2> QED BY <2>1, <2>4 DEF Turn
<1>6. CASE CreateBalance(p) \/ UpdateBalance(p)
  <2>1. /\ bal[p].pc # "idle" /\ Release(p)
        /\ bal' = [bal EXCEPT ![p] = NoBalanceWork]
    BY <1>6 DEF CreateBalance, UpdateBalance, AtB
  <2> QED BY <1>1, <2>1 DEF NoBalanceWork, Turn
<1> QED BY <1>2, <1>3, <1>4, <1>5, <1>6 DEF BalanceStep
\* The turns of one kind of request leave a worker with one request at most.
LEMMA TurnServes ==
  ASSUME ServerInv, NEW p \in Workers,
         \/ /\ Turn(p, acct[p].pc, acct'[p].pc)
            /\ \A q \in Workers \ {p} : acct'[q] = acct[q]
            /\ hist' = hist /\ bal' = bal
         \/ /\ Turn(p, hist[p].pc, hist'[p].pc)
            /\ \A q \in Workers \ {p} : hist'[q] = hist[q]
            /\ acct' = acct /\ bal' = bal
         \/ /\ Turn(p, bal[p].pc, bal'[p].pc)
            /\ \A q \in Workers \ {p} : bal'[q] = bal[q]
            /\ acct' = acct /\ hist' = hist
  PROVE  ServerInv'
<1>1. calls \in 0 .. MaxCalls /\ MaxCalls \in Nat
  BY FinanceAssumption DEF ServerInv
<1>2. calls' \in 0 .. MaxCalls
  BY <1>1 DEF Turn, Accept, Release, server
<1>3. ASSUME NEW q \in Workers, q # p
      PROVE  ServesOne(q)'
  <2>1. q \in busy' <=> q \in busy
    BY <1>3 DEF Turn, Accept, Release, server
  <2>2. /\ acct'[q].pc = acct[q].pc /\ hist'[q].pc = hist[q].pc
        /\ bal'[q].pc = bal[q].pc
    BY <1>3
  <2>3. ServesOne(q)
    BY DEF ServerInv
  <2> QED BY <2>1, <2>2, <2>3 DEF ServesOne
<1>4. ServesOne(p)'
  <2>1. ServesOne(p)
    BY DEF ServerInv
  <2> QED BY <2>1 DEF ServesOne, Turn, Accept, Release, server
<1> QED BY <1>2, <1>3, <1>4 DEF ServerInv

\* With one request, one of its three places is not "idle".
LEMMA OneRequest ==
  ASSUME NEW p \in Workers, ServesOne(p)
  PROVE  Cardinality({c \in {acct[p].pc} \X {1} \cup {hist[p].pc} \X {2}
                              \cup {bal[p].pc} \X {3} : c[1] # "idle"})
           = IF p \in busy THEN 1 ELSE 0
<1> DEFINE All == {acct[p].pc} \X {1} \cup {hist[p].pc} \X {2} \cup {bal[p].pc} \X {3}
           Some == {c \in All : c[1] # "idle"}
<1>1. All = {<<acct[p].pc, 1>>, <<hist[p].pc, 2>>, <<bal[p].pc, 3>>}
  OBVIOUS
<1>2. CASE p \notin busy
  <2>1. Some = {}
    BY <1>1, <1>2 DEF ServesOne
  <2> QED BY <1>2, <2>1, FS_EmptySet
<1>3. CASE p \in busy
  <2>1. \E c : Some = {c}
    <3> DEFINE c1 == <<acct[p].pc, 1>>
               c2 == <<hist[p].pc, 2>>
               c3 == <<bal[p].pc, 3>>
    <3>1. All = {c1, c2, c3}
      BY <1>1
    <3>2. c1[1] = acct[p].pc /\ c2[1] = hist[p].pc /\ c3[1] = bal[p].pc
      OBVIOUS
    <3> HIDE DEF All, c1, c2, c3
    <3>3. CASE acct[p].pc # "idle" /\ hist[p].pc = "idle" /\ bal[p].pc = "idle"
      <4>1. Some = {c1}
        BY <3>1, <3>2, <3>3
      <4> QED BY <4>1
    <3>4. CASE acct[p].pc = "idle" /\ hist[p].pc # "idle" /\ bal[p].pc = "idle"
      <4>1. Some = {c2}
        BY <3>1, <3>2, <3>4
      <4> QED BY <4>1
    <3>5. CASE acct[p].pc = "idle" /\ hist[p].pc = "idle" /\ bal[p].pc # "idle"
      <4>1. Some = {c3}
        BY <3>1, <3>2, <3>5
      <4> QED BY <4>1
    <3> QED BY <1>3, <3>3, <3>4, <3>5 DEF ServesOne
  <2> HIDE DEF Some
  <2>2. Cardinality(Some) = 1
    BY <2>1, FS_Singleton
  <2> QED BY <1>3, <2>2 DEF Some
<1> QED BY <1>2, <1>3

-----------------------------------------------------------------------------
(* The service. *)

FinanceInv == AccountsInv /\ HistoriesInv /\ BalancesInv /\ ServerInv

\* The service starts typed.
LEMMA FinanceInitGood == Init => FinanceInv
<1> SUFFICES ASSUME Init PROVE FinanceInv
  OBVIOUS
<1>1. AccountsInv /\ HistoriesInv /\ BalancesInv
  BY AccountsInitGood, HistoryInitGood, BalanceInitGood DEF Init
<1>2. ServerInv
  <2>1. busy = {} /\ calls = 0
    BY DEF Init, FinanceInit
  <2>2. \A p \in Workers : acct[p] = NoAccountWork /\ hist[p] = NoExpenseWork
                           /\ bal[p] = NoBalanceWork
    BY DEF Init, AccountsInit, HistoryInit, BalanceInit
  <2>3. NoAccountWork.pc = "idle" /\ NoExpenseWork.pc = "idle" /\ NoBalanceWork.pc = "idle"
    BY DEF NoAccountWork, NoExpenseWork, NoBalanceWork
  <2>4. 0 \in 0 .. MaxCalls
    BY FinanceAssumption
  <2> QED BY <2>1, <2>2, <2>3, <2>4 DEF ServerInv, ServesOne
<1> QED BY <1>1, <1>2 DEF FinanceInv

\* Every step of the service leaves it typed.
LEMMA FinanceNextGood == FinanceInv /\ [Next]_vars => FinanceInv'
<1> SUFFICES ASSUME FinanceInv, [Next]_vars PROVE FinanceInv'
  OBVIOUS
<1> USE DEF FinanceInv
<1>1. CASE AccountsNext /\ UNCHANGED <<historyVars, balanceVars>>
  <2>1. AccountsInv' /\ HistoriesInv' /\ BalancesInv'
    BY <1>1, AccountsNextGood, HistoriesInvStable, BalancesInvStable
  <2>2. ServerInv'
    BY <1>1, AccountTurns, TurnServes DEF historyVars, balanceVars
  <2> QED BY <2>1, <2>2
<1>2. CASE HistoryNext /\ UNCHANGED <<accountVars, balanceVars>>
  <2>1. UNCHANGED tables
    BY <1>2 DEF HistoryNext, HistoryStep, BeginExpense, RollBackExpense, GetAccount,
                CreateExpense, GetExpense, UpdateExpense, CommitExpense
  <2>2. AccountsInv' /\ HistoriesInv' /\ BalancesInv'
    BY <1>2, <2>1, AccountsInvStable, HistoryNextGood, BalancesInvStable
  <2>3. ServerInv'
    BY <1>2, HistoryTurns, TurnServes DEF accountVars, balanceVars
  <2> QED BY <2>2, <2>3
<1>3. CASE BalanceNext /\ UNCHANGED <<accountVars, historyVars>>
  <2>1. UNCHANGED tables
    BY <1>3 DEF BalanceNext, BalanceStep, BeginBalance, EndBalance, FindAccount,
                FindBalance, CreateBalance, UpdateBalance
  <2>2. AccountsInv' /\ HistoriesInv' /\ BalancesInv'
    BY <1>3, <2>1, AccountsInvStable, HistoriesInvStable, BalanceNextGood
  <2>3. ServerInv'
    BY <1>3, BalanceTurns, TurnServes DEF accountVars, historyVars
  <2> QED BY <2>2, <2>3
<1>4. CASE UNCHANGED vars
  <2>1. UNCHANGED <<tables, accountVars>> /\ UNCHANGED historyVars /\ UNCHANGED balanceVars
    BY <1>4 DEF vars
  <2>2. AccountsInv' /\ HistoriesInv' /\ BalancesInv'
    BY <2>1, AccountsInvStable, HistoriesInvStable, BalancesInvStable
  <2>3. UNCHANGED server /\ acct' = acct /\ hist' = hist /\ bal' = bal
    BY <1>4 DEF vars, accountVars, historyVars, balanceVars
  <2>4. ServerInv'
    BY <2>3 DEF ServerInv, ServesOne, server
  <2> QED BY <2>2, <2>4
<1> QED BY <1>1, <1>2, <1>3, <1>4 DEF Next

\* The inductive invariant holds of every behaviour.
LEMMA FinanceHolds == Spec => []FinanceInv
BY FinanceInitGood, FinanceNextGood, PTL DEF Spec

\* FinanceService is typed: a worker serves one request at a time, and what a
\* request has loaded stays there until it ends.
THEOREM FinanceTyped == Spec => []TypeOK
<1>1. FinanceInv => TypeOK
  <2> SUFFICES ASSUME FinanceInv PROVE TypeOK
    OBVIOUS
  <2>1. AccountsTypeOK /\ HistoryTypeOK /\ BalanceTypeOK
    BY AccountsInvTypes, HistoriesInvTypes, BalancesInvTypes DEF FinanceInv
  <2>2. calls \in 0 .. MaxCalls /\ \A p \in Workers : ServesOne(p)
    BY DEF FinanceInv, ServerInv
  <2> QED BY <2>1, <2>2, OneRequest DEF TypeOK
<1> QED BY <1>1, FinanceHolds, PTL

-----------------------------------------------------------------------------
(* Expense accounts and their links. *)

AccountLock(a) == Row("account", a)
LinkLock(l) == Row("link", l)

(* Their inductive invariant. *)

\* Ids are given away before they are used.
IdsGiven ==
  /\ DOMAIN accounts \subseteq 1 .. lastAccount
  /\ DOMAIN links \subseteq 1 .. lastLink
  /\ \A p \in Workers, i \in Nat :
       /\ AccountLock(i) \in acct[p].held => i <= lastAccount
       /\ LinkLock(i) \in acct[p].held => i <= lastLink

\* Two transactions hold no row in common.
LocksApart ==
  \A p, q \in Workers : p # q => acct[p].held \cap acct[q].held = {}

\* Every account has one link.
LinksPair ==
  /\ \A a \in DOMAIN accounts : \E l \in DOMAIN links : links[l].account = a
  /\ \A l, m \in DOMAIN links : links[l].account = links[m].account => l = m

\* A create has inserted one account that was not there and then its link.
CreateShape(s, A, K) ==
  /\ s.pc \in {"number", "ops", "insert", "link", "commit"}
  /\ s.pc \in {"number", "ops", "insert"} => DOMAIN s.accounts = {}
  /\ s.pc \in {"link", "commit"} =>
       /\ \E i \in DOMAIN s.accounts : DOMAIN s.accounts = {i}
       /\ \A i \in DOMAIN s.accounts : i \notin DOMAIN A /\ AccountLock(i) \in s.held
  /\ s.pc = "commit" =>
       \E j \in DOMAIN s.links :
              /\ DOMAIN s.links = {j}
              /\ j \notin DOMAIN K
              /\ LinkLock(j) \in s.held
              /\ s.links[j].account \in DOMAIN s.accounts

\* An edit and a disable have locked the link they loaded and its account.
LoadedShape(s, A, K) ==
  /\ s.link \in DOMAIN K
  /\ LinkLock(s.link) \in s.held /\ AccountLock(K[s.link].account) \in s.held

\* An edit writes that account, with the number and label that were asked, and
\* that link, if it was told its warehouse, with the flag that was asked.
EditShape(s, A, K) ==
  /\ s.pc \in {"load", "own", "account", "saveLink", "commit"}
  /\ s.pc # "load" =>
       /\ LoadedShape(s, A, K)
       /\ s.req.warehouse # 0 => K[s.link].warehouse = s.req.warehouse
  /\ s.pc \in {"load", "own", "account"} => DOMAIN s.accounts = {}
  /\ s.pc \in {"saveLink", "commit"} =>
       /\ DOMAIN s.accounts = {K[s.link].account}
       /\ s.accounts[K[s.link].account].number = s.req.number
       /\ s.accounts[K[s.link].account].label = s.req.label
  /\ s.pc = "commit" =>
       /\ DOMAIN s.links \subseteq {s.link}
       /\ K[s.link].warehouse = s.req.warehouse => s.link \in DOMAIN s.links
       /\ \A l \in DOMAIN s.links : s.links[l] = [K[l] EXCEPT !.ops = s.req.ops]

\* A disable keeps the number of the account it writes.
DisableShape(s, A, K) ==
  /\ s.pc \in {"load", "disable", "commit"}
  /\ s.pc = "disable" => LoadedShape(s, A, K)
  /\ s.pc \in {"load", "disable"} => DOMAIN s.accounts = {}
  /\ DOMAIN s.links = {}
  /\ \A a, b \in DOMAIN s.accounts : a = b
  /\ \A a \in DOMAIN s.accounts :
       /\ a \in DOMAIN A
       /\ AccountLock(a) \in s.held
       /\ s.accounts[a].number = A[a].number

\* Where a transaction is, over the committed accounts A and links K.
Shape(s, A, K) ==
  IF s.pc = "idle" THEN DOMAIN s.accounts = {}
  ELSE /\ s.req.kind = "create" => CreateShape(s, A, K)
       /\ s.req.kind = "edit" => EditShape(s, A, K)
       /\ s.req.kind = "disable" => DisableShape(s, A, K)

\* No number is used twice: among the committed rows, between those and the
\* rows a transaction has written, and between what two transactions wrote.
NumbersApart ==
  /\ \A a, b \in DOMAIN accounts : accounts[a].number = accounts[b].number => a = b
  /\ \A p \in Workers : \A a \in DOMAIN acct[p].accounts, b \in DOMAIN accounts :
       acct[p].accounts[a].number = accounts[b].number => a = b
  /\ \A p, q \in Workers : p # q =>
       \A a \in DOMAIN acct[p].accounts, b \in DOMAIN acct[q].accounts :
         acct[p].accounts[a].number # acct[q].accounts[b].number

LedgerInv ==
  /\ IdsGiven
  /\ LocksApart
  /\ LinksPair
  /\ \A p \in Workers : Shape(acct[p], accounts, links)
  /\ NumbersApart

-----------------------------------------------------------------------------
(* Steps that commit nothing. *)

\* What the statement of one worker must see to for the invariant to stay.
LEMMA LedgerStep ==
  ASSUME AccountsInv, LedgerInv, NEW p \in Workers, NEW s,
         acct' = [acct EXCEPT ![p] = s], UNCHANGED tables,
         lastAccount' \in {lastAccount, lastAccount + 1},
         lastLink' \in {lastLink, lastLink + 1},
         Shape(s, accounts, links),
         s.held \cap HeldElsewhere(p) = {},
         \A i \in Nat : /\ AccountLock(i) \in s.held => i <= lastAccount'
                        /\ LinkLock(i) \in s.held => i <= lastLink',
         \A a \in DOMAIN s.accounts, b \in DOMAIN accounts :
           s.accounts[a].number = accounts[b].number => a = b,
         \A q \in Workers \ {p} : \A a \in DOMAIN s.accounts, b \in DOMAIN acct[q].accounts :
           s.accounts[a].number # acct[q].accounts[b].number
  PROVE  LedgerInv'
<1>1. \A q \in Workers : acct'[q] = IF q = p THEN s ELSE acct[q]
  BY DEF AccountsInv
<1>2. accounts' = accounts /\ links' = links
  BY DEF tables
<1>3. /\ lastAccount \in Nat /\ lastLink \in Nat
      /\ lastAccount' \in Nat /\ lastLink' \in Nat
      /\ lastAccount <= lastAccount' /\ lastLink <= lastLink'
  BY DEF AccountsInv, AccountRows
<1>4. IdsGiven'
  <2>1. DOMAIN accounts' \subseteq 1 .. lastAccount' /\ DOMAIN links' \subseteq 1 .. lastLink'
    BY <1>2, <1>3 DEF LedgerInv, IdsGiven
  <2>2. ASSUME NEW q \in Workers, NEW i \in Nat
        PROVE  /\ AccountLock(i) \in acct'[q].held => i <= lastAccount'
               /\ LinkLock(i) \in acct'[q].held => i <= lastLink'
    <3>1. CASE q = p
      BY <1>1, <3>1
    <3>2. CASE q # p
      BY <1>1, <1>3, <3>2 DEF LedgerInv, IdsGiven
    <3> QED BY <3>1, <3>2
  <2> QED BY <2>1, <2>2 DEF IdsGiven, AccountLock, LinkLock, Row
<1>5. LocksApart'
  <2>1. \A q \in Workers \ {p} : s.held \cap acct[q].held = {}
    BY DEF HeldElsewhere
  <2> QED BY <1>1, <2>1 DEF LedgerInv, LocksApart
<1>6. LinksPair'
  BY <1>2 DEF LedgerInv, LinksPair
<1>7. ASSUME NEW q \in Workers
      PROVE  Shape(acct'[q], accounts', links')
  <2>1. Shape(acct'[q], accounts, links)
    BY <1>1 DEF LedgerInv
  <2> QED BY <1>2, <2>1
<1>8. NumbersApart'
  <2>1. \A a, b \in DOMAIN accounts : accounts[a].number = accounts[b].number => a = b
    BY DEF LedgerInv, NumbersApart
  <2>2. ASSUME NEW q \in Workers, NEW a \in DOMAIN acct'[q].accounts, NEW b \in DOMAIN accounts,
               acct'[q].accounts[a].number = accounts[b].number
        PROVE  a = b
    BY <1>1, <2>2 DEF LedgerInv, NumbersApart
  <2>3. ASSUME NEW q \in Workers, NEW r \in Workers, q # r,
               NEW a \in DOMAIN acct'[q].accounts, NEW b \in DOMAIN acct'[r].accounts
        PROVE  acct'[q].accounts[a].number # acct'[r].accounts[b].number
    BY <1>1, <2>3 DEF LedgerInv, NumbersApart
  <2> QED BY <1>2, <2>1, <2>2, <2>3 DEF NumbersApart
<1> QED BY <1>4, <1>5, <1>6, <1>7, <1>8 DEF LedgerInv

\* A statement that locks and writes no account has only its shape to see to.
LEMMA LedgerQuiet ==
  ASSUME AccountsInv, LedgerInv, NEW p \in Workers, NEW s,
         acct' = [acct EXCEPT ![p] = s], UNCHANGED <<tables, sequences>>,
         Shape(s, accounts, links), s.held = acct[p].held,
         s.accounts = acct[p].accounts
  PROVE  LedgerInv'
<1>1. lastAccount' = lastAccount /\ lastLink' = lastLink
  BY DEF sequences
<1>2. s.held \cap HeldElsewhere(p) = {}
  BY DEF LedgerInv, LocksApart, HeldElsewhere
<1>3. \A i \in Nat : /\ AccountLock(i) \in s.held => i <= lastAccount'
                     /\ LinkLock(i) \in s.held => i <= lastLink'
  BY <1>1 DEF LedgerInv, IdsGiven
<1>4. \A a \in DOMAIN s.accounts, b \in DOMAIN accounts :
        s.accounts[a].number = accounts[b].number => a = b
  BY DEF LedgerInv, NumbersApart
<1>5. \A q \in Workers \ {p} : \A a \in DOMAIN s.accounts, b \in DOMAIN acct[q].accounts :
        s.accounts[a].number # acct[q].accounts[b].number
  BY DEF LedgerInv, NumbersApart
<1> QED BY <1>1, <1>2, <1>3, <1>4, <1>5, LedgerStep

\* A worker that ends, commits nothing and frees its rows.
LEMMA LedgerEnds ==
  ASSUME AccountsInv, LedgerInv, NEW p \in Workers,
         acct' = [acct EXCEPT ![p] = NoAccountWork], UNCHANGED tables,
         lastAccount' \in {lastAccount, lastAccount + 1}, lastLink' = lastLink
  PROVE  LedgerInv'
<1>1. /\ NoAccountWork.pc = "idle" /\ NoAccountWork.held = {}
      /\ DOMAIN NoAccountWork.accounts = {}
  BY DEF NoAccountWork, NoRows
<1>2. Shape(NoAccountWork, accounts, links)
  BY <1>1 DEF Shape
<1> QED BY <1>1, <1>2, LedgerStep
\* A request has the kind whose statements it executes.
LEMMA KindIs ==
  ASSUME AccountsInv, LedgerInv, NEW p \in Workers, acct[p].pc # "idle"
  PROVE  /\ acct[p].req \in AccountRequest
         /\ acct[p].req.kind \in {"create", "edit", "disable"}
         /\ acct[p].req.kind = "create" => CreateShape(acct[p], accounts, links)
         /\ acct[p].req.kind = "edit" => EditShape(acct[p], accounts, links)
         /\ acct[p].req.kind = "disable" => DisableShape(acct[p], accounts, links)
<1>1. acct[p].req \in AccountRequest
  BY AccountsAssumption DEF AccountsInv, GoodAccount
<1>2. Shape(acct[p], accounts, links)
  BY DEF LedgerInv
<1> QED BY <1>1, <1>2 DEF AccountRequest, Shape

\* The statements that only look keep their transaction in shape.
LEMMA LedgerGoto ==
  ASSUME AccountsInv, LedgerInv, NEW p \in Workers, NEW pc,
         \/ acct[p].pc \in {"number", "ops"} /\ pc \in {"ops", "insert"}
         \/ acct[p].pc = "own" /\ pc = "account",
         GotoA(p, pc), UNCHANGED <<tables, sequences>>
  PROVE  LedgerInv'
<1> DEFINE s == [acct[p] EXCEPT !.pc = pc]
<1>1. acct' = [acct EXCEPT ![p] = s]
  BY DEF GotoA
<1>2. /\ s.pc = pc /\ s.req = acct[p].req /\ s.link = acct[p].link
      /\ s.held = acct[p].held /\ s.accounts = acct[p].accounts
      /\ s.links = acct[p].links
  BY DEF AccountsInv, AccountState
<1> HIDE DEF s
<1>3. Shape(s, accounts, links)
  <2>1. CASE acct[p].pc \in {"number", "ops"} /\ pc \in {"ops", "insert"}
    <3>1. acct[p].req.kind = "create" /\ CreateShape(acct[p], accounts, links)
      BY <2>1, KindIs DEF EditShape, DisableShape
    <3>2. CreateShape(s, accounts, links)
      BY <1>2, <2>1, <3>1 DEF CreateShape
    <3> QED BY <1>2, <2>1, <3>1, <3>2 DEF Shape
  <2>2. CASE acct[p].pc = "own" /\ pc = "account"
    <3>1. acct[p].req.kind = "edit" /\ EditShape(acct[p], accounts, links)
      BY <2>2, KindIs DEF CreateShape, DisableShape
    <3>2. EditShape(s, accounts, links)
      BY <1>2, <2>2, <3>1 DEF EditShape, LoadedShape
    <3> QED BY <1>2, <2>2, <3>1, <3>2 DEF Shape
  <2> QED BY <2>1, <2>2
<1> QED BY <1>1, <1>2, <1>3, LedgerQuiet

\* The new account has an id nobody has, and a number nobody has or holds.
LEMMA LedgerInsert ==
  ASSUME AccountsInv, LedgerInv, NEW p \in Workers, InsertAccount(p)
  PROVE  LedgerInv'
<1> DEFINE id == lastAccount + 1
           r == AReq(p)
           row == [number |-> r.number, label |-> r.label, disabled |-> FALSE]
           s == [acct[p] EXCEPT !.pc = "link", !.held = {Row("account", id)},
                                !.accounts = OneRow(id, row)]
<1>1. /\ acct[p].pc = "insert" /\ lastAccount' = id /\ lastLink' = lastLink
      /\ UNCHANGED tables /\ NumberHolders(p, r.number) = {}
  BY DEF InsertAccount, AtA
<1>2. lastAccount \in Nat /\ lastLink \in Nat
  BY DEF AccountsInv, AccountRows
<1>3. CASE RefuseAccount(p)
  BY <1>1, <1>3, LedgerEnds DEF RefuseAccount
<1>4. CASE ~NumberTaken(r.number, 0) /\ acct' = [acct EXCEPT ![p] = s]
  <2>1. /\ s.pc = "link" /\ s.req = acct[p].req /\ s.held = {AccountLock(id)}
        /\ s.accounts = OneRow(id, row)
    BY DEF AccountsInv, AccountState, AccountLock
  <2>2. row.number = r.number
    OBVIOUS
  <2> HIDE DEF s, row
  <2>12. DOMAIN s.accounts = {id} /\ s.accounts[id] = row
    BY <2>1, OneRowIs
  <2>3. id \notin DOMAIN accounts
    BY <1>2 DEF LedgerInv, IdsGiven
  <2>4. CreateShape(s, accounts, links)
    BY <2>1, <2>12, <2>3 DEF CreateShape
  <2>5. acct[p].req.kind = "create"
    BY <1>1, KindIs DEF EditShape, DisableShape
  <2>6. Shape(s, accounts, links)
    BY <2>1, <2>4, <2>5 DEF Shape
  <2>7. s.held \cap HeldElsewhere(p) = {}
    <3>1. id \in Nat /\ ~(id <= lastAccount)
      BY <1>2
    <3>2. \A q \in Workers : AccountLock(id) \notin acct[q].held
      BY <3>1 DEF LedgerInv, IdsGiven
    <3> QED BY <2>1, <3>2 DEF HeldElsewhere
  <2>8. \A i \in Nat : /\ AccountLock(i) \in s.held => i <= lastAccount'
                       /\ LinkLock(i) \in s.held => i <= lastLink'
    <3>1. \A i \in Nat : AccountLock(i) \in s.held => i = id
      BY <2>1 DEF AccountLock, Row
    <3>2. \A i \in Nat : LinkLock(i) \notin s.held
      BY <2>1 DEF AccountLock, LinkLock, Row
    <3>3. id <= lastAccount'
      BY <1>1, <1>2
    <3> QED BY <3>1, <3>2, <3>3
  <2>9. \A a \in DOMAIN s.accounts, b \in DOMAIN accounts :
          s.accounts[a].number = accounts[b].number => a = b
    <3>1. 0 \notin DOMAIN accounts
      BY DEF AccountsInv, AccountRows, IsTable
    <3> QED BY <1>4, <2>2, <2>12, <3>1 DEF NumberTaken
  <2>10. \A q \in Workers \ {p} : \A a \in DOMAIN s.accounts, b \in DOMAIN acct[q].accounts :
           s.accounts[a].number # acct[q].accounts[b].number
    BY <1>1, <2>2, <2>12 DEF NumberHolders
  <2>11. lastAccount' \in {lastAccount, lastAccount + 1} /\ lastLink' \in {lastLink, lastLink + 1}
    BY <1>1
  <2> HIDE DEF id, r
  <2> QED BY <1>1, <1>4, <2>6, <2>7, <2>8, <2>9, <2>10, <2>11, LedgerStep
<1> QED BY <1>3, <1>4 DEF InsertAccount

\* The new link has an id nobody has, and is that of the new account.
LEMMA LedgerInsertLink ==
  ASSUME AccountsInv, LedgerInv, NEW p \in Workers, InsertLink(p)
  PROVE  LedgerInv'
<1> DEFINE id == lastLink + 1
           r == AReq(p)
<1>1. PICK a \in DOMAIN acct[p].accounts :
        acct' = [acct EXCEPT
           ![p].pc = "commit",
           ![p].held = @ \cup {Row("link", id)},
           ![p].links = OneRow(id,
             [account |-> a, warehouse |-> r.warehouse, ops |-> r.ops])]
  BY DEF InsertLink
<1> DEFINE row == [account |-> a, warehouse |-> r.warehouse, ops |-> r.ops]
           s == [acct[p] EXCEPT !.pc = "commit", !.held = @ \cup {Row("link", id)},
                                !.links = OneRow(id, row)]
<1>2. /\ acct[p].pc = "link" /\ lastLink' = id /\ lastAccount' = lastAccount
      /\ UNCHANGED tables
  BY DEF InsertLink, AtA
<1>3. lastAccount \in Nat /\ lastLink \in Nat
  BY DEF AccountsInv, AccountRows
<1>4. acct' = [acct EXCEPT ![p] = s]
  BY <1>1
<1>5. /\ s.pc = "commit" /\ s.req = acct[p].req
      /\ s.held = acct[p].held \cup {LinkLock(id)}
      /\ s.accounts = acct[p].accounts /\ s.links = OneRow(id, row)
  BY DEF AccountsInv, AccountState, LinkLock
<1>16. row.account = a
  OBVIOUS
<1> HIDE DEF s, row
<1>6. DOMAIN s.links = {id} /\ s.links[id] = row /\ row.account = a
  <2>1. DOMAIN OneRow(id, row) = {id} /\ OneRow(id, row)[id] = row
    BY OneRowIs
  <2> HIDE DEF id
  <2> QED BY <1>5, <1>16, <2>1
<1>7. acct[p].req.kind = "create" /\ CreateShape(acct[p], accounts, links)
  BY <1>2, KindIs DEF EditShape, DisableShape
<1>8. id \notin DOMAIN links
  BY <1>3 DEF LedgerInv, IdsGiven
<1>9. CreateShape(s, accounts, links)
  BY <1>1, <1>2, <1>5, <1>6, <1>7, <1>8 DEF CreateShape
<1>10. Shape(s, accounts, links)
  BY <1>5, <1>7, <1>9 DEF Shape
<1>11. s.held \cap HeldElsewhere(p) = {}
  <2>1. id \in Nat /\ ~(id <= lastLink)
    BY <1>3
  <2>2. \A q \in Workers : LinkLock(id) \notin acct[q].held
    BY <2>1 DEF LedgerInv, IdsGiven
  <2> QED BY <1>5, <2>2 DEF HeldElsewhere, LedgerInv, LocksApart
<1>12. \A i \in Nat : /\ AccountLock(i) \in s.held => i <= lastAccount'
                      /\ LinkLock(i) \in s.held => i <= lastLink'
  <2>1. ASSUME NEW i \in Nat, AccountLock(i) \in s.held PROVE i <= lastAccount'
    <3>1. AccountLock(i) # LinkLock(id)
      BY DEF AccountLock, LinkLock, Row
    <3> QED BY <1>2, <1>5, <2>1, <3>1 DEF LedgerInv, IdsGiven
  <2>2. ASSUME NEW i \in Nat, LinkLock(i) \in s.held PROVE i <= lastLink'
    <3>1. LinkLock(i) = LinkLock(id) => i = id
      BY DEF LinkLock, Row
    <3>2. i = id \/ i <= lastLink
      BY <1>5, <2>2, <3>1 DEF LedgerInv, IdsGiven
    <3> QED BY <1>2, <1>3, <3>2
  <2> QED BY <2>1, <2>2
<1>13. lastAccount' \in {lastAccount, lastAccount + 1} /\ lastLink' \in {lastLink, lastLink + 1}
  BY <1>2
<1>14. \A b \in DOMAIN s.accounts, c \in DOMAIN accounts :
         s.accounts[b].number = accounts[c].number => b = c
  BY <1>5 DEF LedgerInv, NumbersApart
<1>15. \A q \in Workers \ {p} : \A b \in DOMAIN s.accounts, c \in DOMAIN acct[q].accounts :
         s.accounts[b].number # acct[q].accounts[c].number
  BY <1>5 DEF LedgerInv, NumbersApart
<1> QED BY <1>2, <1>4, <1>10, <1>11, <1>12, <1>13, <1>14, <1>15, LedgerStep
\* The locked rows are nobody else's, and there since they were committed.
LEMMA LedgerLock ==
  ASSUME AccountsInv, LedgerInv, NEW p \in Workers, NEW l \in DOMAIN links,
         acct[p].pc = "load", LockRows(p, l), RowsOf(l) \cap HeldElsewhere(p) = {},
         l \in OfWarehouse(AReq(p).warehouse),
         UNCHANGED <<tables, sequences>>
  PROVE  LedgerInv'
<1> DEFINE s == [acct[p] EXCEPT !.link = l, !.held = RowsOf(l), !.pc = NextOf(AReq(p))]
<1>1. acct' = [acct EXCEPT ![p] = s]
  BY DEF LockRows
<1>2. /\ s.pc = NextOf(acct[p].req) /\ s.req = acct[p].req /\ s.link = l
      /\ s.held = RowsOf(l) /\ s.accounts = acct[p].accounts
      /\ s.links = acct[p].links
  BY DEF AccountsInv, AccountState, AReq
<1> HIDE DEF s
<1>3. LinkLock(l) \in s.held /\ AccountLock(links[l].account) \in s.held
  BY <1>2 DEF RowsOf, LinkLock, AccountLock
<1>4. LoadedShape(s, accounts, links)
  BY <1>2, <1>3 DEF LoadedShape
<1>5. s.req.warehouse # 0 => links[s.link].warehouse = s.req.warehouse
  BY <1>2 DEF OfWarehouse, AReq
<1>6. /\ s.req.kind \in {"edit", "disable"} /\ DOMAIN s.accounts = {} /\ DOMAIN s.links = {}
      /\ s.req.kind = "disable" => DisableShape(acct[p], accounts, links)
  BY <1>2, KindIs DEF CreateShape, EditShape, DisableShape, AccountsInv, GoodAccount
<1>7. Shape(s, accounts, links)
  <2>1. CASE s.req.kind = "edit"
    <3>1. s.pc \in {"own", "account"}
      BY <1>2, <2>1 DEF NextOf
    <3>2. EditShape(s, accounts, links)
      BY <1>4, <1>5, <1>6, <3>1 DEF EditShape
    <3> QED BY <2>1, <3>1, <3>2 DEF Shape
  <2>2. CASE s.req.kind = "disable"
    <3>1. s.pc = "disable"
      BY <1>2, <2>2 DEF NextOf
    <3>2. DisableShape(s, accounts, links)
      BY <1>4, <1>6, <3>1 DEF DisableShape
    <3> QED BY <2>2, <3>1, <3>2 DEF Shape
  <2> QED BY <1>6, <2>1, <2>2
<1>8. lastAccount' = lastAccount /\ lastLink' = lastLink
  BY DEF sequences
<1>9. l <= lastLink /\ links[l].account <= lastAccount
  <2>1. l \in 1 .. lastLink /\ links[l].account \in DOMAIN accounts
    BY DEF LedgerInv, IdsGiven, AccountsInv, AccountRows
  <2>2. links[l].account \in 1 .. lastAccount
    BY <2>1 DEF LedgerInv, IdsGiven
  <2> QED BY <2>1, <2>2
<1>10. \A i \in Nat : /\ AccountLock(i) \in s.held => i <= lastAccount'
                      /\ LinkLock(i) \in s.held => i <= lastLink'
  <2>1. \A i \in Nat : AccountLock(i) \in s.held => i = links[l].account
    BY <1>2 DEF RowsOf, AccountLock, Row
  <2>2. \A i \in Nat : LinkLock(i) \in s.held => i = l
    BY <1>2 DEF RowsOf, LinkLock, Row
  <2> QED BY <1>8, <1>9, <2>1, <2>2
<1>11. s.held \cap HeldElsewhere(p) = {}
  BY <1>2
<1> QED BY <1>1, <1>6, <1>7, <1>8, <1>10, <1>11, LedgerStep DEF tables

\* Loading locks rows or gives up.
LEMMA LedgerLoad ==
  ASSUME AccountsInv, LedgerInv, NEW p \in Workers, LoadAccount(p)
  PROVE  LedgerInv'
<1>1. acct[p].pc = "load" /\ UNCHANGED <<tables, sequences>>
  BY DEF LoadAccount, AtA
<1>2. CASE RefuseAccount(p)
  BY <1>1, <1>2, LedgerEnds DEF RefuseAccount, sequences
<1>3. CASE \E l \in OfWarehouse(AReq(p).warehouse) :
             LockRows(p, l) /\ RowsOf(l) \cap HeldElsewhere(p) = {}
  <2>1. PICK l \in OfWarehouse(AReq(p).warehouse) :
          LockRows(p, l) /\ RowsOf(l) \cap HeldElsewhere(p) = {}
    BY <1>3
  <2>2. l \in DOMAIN links
    BY DEF OfWarehouse
  <2> QED BY <1>1, <2>1, <2>2, LedgerLock
<1> QED BY <1>2, <1>3 DEF LoadAccount

\* The saved account gets a number that nobody else has or holds.
LEMMA LedgerSave ==
  ASSUME AccountsInv, LedgerInv, NEW p \in Workers, SaveAccount(p)
  PROVE  LedgerInv'
<1> DEFINE a == links[acct[p].link].account
           r == AReq(p)
           row == [accounts[a] EXCEPT !.number = r.number, !.label = r.label]
           s == [acct[p] EXCEPT !.pc = "saveLink", !.accounts = OneRow(a, row)]
<1>1. /\ acct[p].pc = "account" /\ UNCHANGED <<tables, sequences>>
      /\ NumberHolders(p, r.number) = {}
  BY DEF SaveAccount, AtA
<1>2. CASE RefuseAccount(p)
  BY <1>1, <1>2, LedgerEnds DEF RefuseAccount, sequences
<1>3. CASE ~NumberTaken(r.number, a) /\ acct' = [acct EXCEPT ![p] = s]
  <2>1. acct[p].req.kind = "edit" /\ EditShape(acct[p], accounts, links)
    BY <1>1, KindIs DEF CreateShape, DisableShape
  <2>2. acct[p].link \in DOMAIN links /\ a \in DOMAIN accounts
    BY <1>1, <2>1 DEF EditShape, LoadedShape, AccountsInv, AccountRows
  <2>3. row.number = r.number /\ row.label = r.label
    <3>1. accounts[a] \in Account
      BY <2>2 DEF AccountsInv, AccountRows, IsTable
    <3> QED BY <3>1 DEF Account
  <2>4. /\ s.pc = "saveLink" /\ s.req = acct[p].req /\ s.link = acct[p].link
        /\ s.held = acct[p].held /\ s.accounts = OneRow(a, row)
    BY DEF AccountsInv, AccountState
  <2> HIDE DEF s, row
  <2>5. DOMAIN OneRow(a, row) = {a} /\ OneRow(a, row)[a] = row
    BY OneRowIs
  <2>6. DOMAIN s.accounts = {a} /\ s.accounts[a].number = r.number /\ s.accounts[a].label = r.label
    BY <2>3, <2>4, <2>5
  <2>7. EditShape(s, accounts, links)
    BY <1>1, <2>1, <2>4, <2>6 DEF EditShape, LoadedShape, AReq
  <2>8. Shape(s, accounts, links)
    BY <2>1, <2>4, <2>7 DEF Shape
  <2>9. s.held \cap HeldElsewhere(p) = {}
    BY <2>4 DEF LedgerInv, LocksApart, HeldElsewhere
  <2>10. lastAccount' = lastAccount /\ lastLink' = lastLink
    BY <1>1 DEF sequences
  <2>11. \A i \in Nat : /\ AccountLock(i) \in s.held => i <= lastAccount'
                        /\ LinkLock(i) \in s.held => i <= lastLink'
    BY <2>4, <2>10 DEF LedgerInv, IdsGiven
  <2>12. \A c \in DOMAIN s.accounts, b \in DOMAIN accounts :
           s.accounts[c].number = accounts[b].number => c = b
    BY <1>3, <2>6 DEF NumberTaken
  <2>13. \A q \in Workers \ {p} : \A c \in DOMAIN s.accounts, b \in DOMAIN acct[q].accounts :
           s.accounts[c].number # acct[q].accounts[b].number
    BY <1>1, <2>6 DEF NumberHolders
  <2> HIDE DEF a, r
  <2> QED BY <1>1, <1>3, <2>8, <2>9, <2>10, <2>11, <2>12, <2>13, LedgerStep
<1> QED BY <1>2, <1>3 DEF SaveAccount

\* The link that is saved is the one that was loaded: the account has no other.
LEMMA LedgerSaveLink ==
  ASSUME AccountsInv, LedgerInv, NEW p \in Workers, SaveLink(p)
  PROVE  LedgerInv'
<1> DEFINE rows == [l \in LinksToSave(p) |-> [links[l] EXCEPT !.ops = AReq(p).ops]]
           s == [acct[p] EXCEPT !.pc = "commit", !.links = rows]
<1>1. acct[p].pc = "saveLink" /\ UNCHANGED <<tables, sequences>>
  BY DEF SaveLink, AtA
<1>2. acct' = [acct EXCEPT ![p] = s]
  BY DEF SaveLink
<1>3. /\ s.pc = "commit" /\ s.req = acct[p].req /\ s.link = acct[p].link
      /\ s.held = acct[p].held /\ s.accounts = acct[p].accounts /\ s.links = rows
  BY DEF AccountsInv, AccountState
<1> HIDE DEF s
<1>4. acct[p].req.kind = "edit" /\ EditShape(acct[p], accounts, links)
  BY <1>1, KindIs DEF CreateShape, DisableShape
<1>5. acct[p].link \in DOMAIN links
  BY <1>1, <1>4 DEF EditShape, LoadedShape
<1>6. LinksToSave(p) \subseteq {acct[p].link}
  BY <1>5 DEF LinksToSave, LedgerInv, LinksPair
<1>7. links[acct[p].link].warehouse = AReq(p).warehouse => acct[p].link \in LinksToSave(p)
  BY <1>5 DEF LinksToSave
<1>8. /\ DOMAIN rows = LinksToSave(p)
      /\ \A l \in DOMAIN rows : rows[l] = [links[l] EXCEPT !.ops = AReq(p).ops]
  OBVIOUS
<1> HIDE DEF rows
<1>9. EditShape(s, accounts, links)
  BY <1>1, <1>3, <1>4, <1>6, <1>7, <1>8 DEF EditShape, LoadedShape, AReq
<1>10. Shape(s, accounts, links)
  BY <1>3, <1>4, <1>9 DEF Shape
<1> QED BY <1>1, <1>2, <1>3, <1>10, LedgerQuiet

\* A transaction has locked the rows that it has written.
LEMMA WrittenHeld ==
  ASSUME AccountsInv, LedgerInv, NEW p \in Workers
  PROVE  /\ \A a \in DOMAIN acct[p].accounts : AccountLock(a) \in acct[p].held
         /\ \A l \in DOMAIN acct[p].links : LinkLock(l) \in acct[p].held
<1>1. CASE acct[p].pc = "idle"
  BY <1>1 DEF LedgerInv, Shape, AccountsInv, GoodAccount
<1>2. CASE acct[p].pc # "idle"
  <2>1. acct[p].pc # "commit" => DOMAIN acct[p].links = {}
    BY DEF AccountsInv, GoodAccount
  <2>2. CASE acct[p].req.kind = "create"
    BY <1>2, <2>1, <2>2, KindIs DEF CreateShape
  <2>3. CASE acct[p].req.kind = "edit"
    BY <1>2, <2>1, <2>3, KindIs DEF EditShape, LoadedShape
  <2>4. CASE acct[p].req.kind = "disable"
    BY <1>2, <2>1, <2>4, KindIs DEF DisableShape
  <2> QED BY <1>2, <2>2, <2>3, <2>4, KindIs
<1> QED BY <1>1, <1>2

\* The disabled account keeps its number, and its row is nobody else's.
LEMMA LedgerDisable ==
  ASSUME AccountsInv, LedgerInv, NEW p \in Workers, SaveDisabled(p)
  PROVE  LedgerInv'
<1> DEFINE target == {acct[p].link} \cap DOMAIN accounts
           locks == {Row("account", a) : a \in target}
           rows == [a \in target |-> [accounts[a] EXCEPT !.disabled = TRUE]]
           s == [acct[p] EXCEPT !.pc = "commit", !.held = @ \cup locks, !.accounts = rows]
<1>1. /\ acct[p].pc = "disable" /\ UNCHANGED <<tables, sequences>>
      /\ locks \cap HeldElsewhere(p) = {}
  BY DEF SaveDisabled, AtA
<1>2. acct' = [acct EXCEPT ![p] = s]
  BY DEF SaveDisabled
<1>3. /\ s.pc = "commit" /\ s.req = acct[p].req
      /\ s.held = acct[p].held \cup locks /\ s.accounts = rows
      /\ s.links = acct[p].links
  BY DEF AccountsInv, AccountState
<1> HIDE DEF s
<1>4. acct[p].req.kind = "disable" /\ DisableShape(acct[p], accounts, links)
  BY <1>1, KindIs DEF CreateShape, EditShape
<1>5. \A a \in target : rows[a].number = accounts[a].number
  <2>1. \A a \in target : accounts[a] \in Account
    BY DEF AccountsInv, AccountRows, IsTable
  <2> QED BY <2>1 DEF Account
<1>6. DOMAIN rows = target
  OBVIOUS
<1>7. \A a \in target : AccountLock(a) \in locks
  BY DEF AccountLock
<1>8. \A i \in Nat : LinkLock(i) \notin locks
  BY DEF LinkLock, Row
<1>9. \A i \in Nat : AccountLock(i) \in locks => i \in DOMAIN accounts
  BY DEF AccountLock, Row
<1>10. \A a, b \in target : a = b
  OBVIOUS
<1>11. \A a \in target : a \in DOMAIN accounts
  OBVIOUS
<1> HIDE DEF rows, locks, target
<1>12. DisableShape(s, accounts, links)
  BY <1>3, <1>4, <1>5, <1>6, <1>7, <1>10, <1>11 DEF DisableShape
<1>13. Shape(s, accounts, links)
  BY <1>3, <1>4, <1>12 DEF Shape
<1>14. s.held \cap HeldElsewhere(p) = {}
  BY <1>1, <1>3 DEF LedgerInv, LocksApart, HeldElsewhere
<1>15. lastAccount' = lastAccount /\ lastLink' = lastLink
  BY <1>1 DEF sequences
<1>16. \A i \in Nat : /\ AccountLock(i) \in s.held => i <= lastAccount'
                      /\ LinkLock(i) \in s.held => i <= lastLink'
  <2>1. lastAccount \in Nat /\ DOMAIN accounts \subseteq 1 .. lastAccount
    BY DEF AccountsInv, AccountRows, LedgerInv, IdsGiven
  <2> QED BY <1>3, <1>8, <1>9, <1>15, <2>1 DEF LedgerInv, IdsGiven
<1>17. \A a \in DOMAIN s.accounts, b \in DOMAIN accounts :
         s.accounts[a].number = accounts[b].number => a = b
  BY <1>3, <1>5, <1>6, <1>11 DEF LedgerInv, NumbersApart
<1>18. ASSUME NEW q \in Workers \ {p}, NEW a \in DOMAIN s.accounts,
              NEW b \in DOMAIN acct[q].accounts
       PROVE  s.accounts[a].number # acct[q].accounts[b].number
  <2>1. a \in target /\ a \in DOMAIN accounts /\ s.accounts[a].number = accounts[a].number
    BY <1>3, <1>5, <1>6, <1>11
  <2>2. a # b => acct[q].accounts[b].number # accounts[a].number
    BY <2>1 DEF LedgerInv, NumbersApart
  <2>3. AccountLock(a) \notin acct[q].held
    BY <1>1, <1>7, <2>1 DEF HeldElsewhere
  <2>4. AccountLock(b) \in acct[q].held
    BY WrittenHeld
  <2> QED BY <2>1, <2>2, <2>3, <2>4
<1> QED BY <1>1, <1>2, <1>13, <1>14, <1>15, <1>16, <1>17, <1>18, LedgerStep

-----------------------------------------------------------------------------
(* The COMMIT. *)

\* A transaction stays in shape while others add rows that it does not hold and
\* change none that it does.
LEMMA ShapeStable ==
  ASSUME NEW s, NEW A, NEW K, NEW B, NEW M, Shape(s, A, K),
         DOMAIN A \subseteq DOMAIN B, DOMAIN K \subseteq DOMAIN M,
         \A i \in DOMAIN B \ DOMAIN A : AccountLock(i) \notin s.held,
         \A i \in DOMAIN M \ DOMAIN K : LinkLock(i) \notin s.held,
         \A l \in DOMAIN K : M[l].account = K[l].account /\ M[l].warehouse = K[l].warehouse,
         \A l \in DOMAIN K : LinkLock(l) \in s.held => M[l] = K[l],
         \A a \in DOMAIN A : AccountLock(a) \in s.held => B[a] = A[a]
  PROVE  Shape(s, B, M)
<1>1. CreateShape(s, A, K) => CreateShape(s, B, M)
  BY DEF CreateShape
<1>2. LoadedShape(s, A, K) => LoadedShape(s, B, M)
  BY DEF LoadedShape
<1>3. EditShape(s, A, K) => EditShape(s, B, M)
  <2> SUFFICES ASSUME EditShape(s, A, K) PROVE EditShape(s, B, M)
    OBVIOUS
  <2>1. s.pc # "load" =>
          /\ LoadedShape(s, A, K) /\ LoadedShape(s, B, M) /\ s.link \in DOMAIN K
          /\ M[s.link] = K[s.link]
    BY <1>2 DEF EditShape, LoadedShape
  <2>2. s.pc = "commit" =>
          \A l \in DOMAIN s.links : s.links[l] = [M[l] EXCEPT !.ops = s.req.ops]
    <3> SUFFICES ASSUME s.pc = "commit", NEW l \in DOMAIN s.links
                 PROVE  s.links[l] = [M[l] EXCEPT !.ops = s.req.ops]
      OBVIOUS
    <3>1. l = s.link /\ s.links[l] = [K[l] EXCEPT !.ops = s.req.ops]
      BY DEF EditShape
    <3> QED BY <2>1, <3>1
  <2> QED BY <2>1, <2>2 DEF EditShape
<1>4. DisableShape(s, A, K) => DisableShape(s, B, M)
  BY <1>2 DEF DisableShape
<1> QED BY <1>1, <1>3, <1>4 DEF Shape

\* What a COMMIT writes over committed rows: links keep both their ends, and a
\* row that another transaction holds is left alone.
LEMMA CommitRows ==
  ASSUME AccountsInv, LedgerInv, NEW p \in Workers, CommitAccount(p)
  PROVE  /\ DOMAIN accounts' = DOMAIN acct[p].accounts \cup DOMAIN accounts
         /\ DOMAIN links' = DOMAIN acct[p].links \cup DOMAIN links
         /\ \A a \in DOMAIN accounts' :
              accounts'[a] = IF a \in DOMAIN acct[p].accounts THEN acct[p].accounts[a]
                             ELSE accounts[a]
         /\ \A l \in DOMAIN links' :
              links'[l] = IF l \in DOMAIN acct[p].links THEN acct[p].links[l]
                          ELSE links[l]
         /\ \A l \in DOMAIN links : /\ links'[l].account = links[l].account
                                    /\ links'[l].warehouse = links[l].warehouse
<1>1. accounts' = Over(acct[p].accounts, accounts) /\ links' = Over(acct[p].links, links)
  BY DEF CommitAccount
<1>2. /\ DOMAIN accounts' = DOMAIN acct[p].accounts \cup DOMAIN accounts
      /\ DOMAIN links' = DOMAIN acct[p].links \cup DOMAIN links
  BY <1>1, OverDomain
<1>3. \A a \in DOMAIN accounts' :
        accounts'[a] = IF a \in DOMAIN acct[p].accounts THEN acct[p].accounts[a]
                       ELSE accounts[a]
  BY <1>1, <1>2, OverValue
<1>4. \A l \in DOMAIN links' :
        links'[l] = IF l \in DOMAIN acct[p].links THEN acct[p].links[l] ELSE links[l]
  BY <1>1, <1>2, OverValue
<1>5. ASSUME NEW l \in DOMAIN links
      PROVE  /\ links'[l].account = links[l].account
             /\ links'[l].warehouse = links[l].warehouse
  <2>1. acct[p].pc = "commit"
    BY DEF CommitAccount, AtA
  <2>2. CASE l \notin DOMAIN acct[p].links
    BY <1>2, <1>4, <2>2
  <2>3. CASE l \in DOMAIN acct[p].links
    <3>1. acct[p].req.kind = "edit" /\ EditShape(acct[p], accounts, links)
      BY <2>1, <2>3, KindIs DEF CreateShape, DisableShape
    <3>2. acct[p].links[l] = [links[l] EXCEPT !.ops = acct[p].req.ops]
      BY <2>1, <2>3, <3>1 DEF EditShape
    <3>3. links'[l] = acct[p].links[l]
      BY <1>2, <1>4, <2>3
    <3>4. links[l] \in Link
      BY DEF AccountsInv, AccountRows, IsTable
    <3> QED BY <3>2, <3>3, <3>4 DEF Link
  <2> QED BY <2>2, <2>3
<1> QED BY <1>2, <1>3, <1>4, <1>5

\* After a COMMIT, too, every account has one link.
LEMMA CommitPairs ==
  ASSUME AccountsInv, LedgerInv, NEW p \in Workers, CommitAccount(p)
  PROVE  LinksPair'
<1>1. acct[p].pc = "commit"
  BY DEF CommitAccount, AtA
<1>2. LinksPair
  BY DEF LedgerInv
<1>3. CASE acct[p].req.kind = "create"
  <2>1. CreateShape(acct[p], accounts, links)
    BY <1>1, <1>3, KindIs
  <2>2. PICK i \in DOMAIN acct[p].accounts : DOMAIN acct[p].accounts = {i}
    BY <1>1, <2>1 DEF CreateShape
  <2>3. PICK j \in DOMAIN acct[p].links :
          DOMAIN acct[p].links = {j} /\ j \notin DOMAIN links /\ acct[p].links[j].account = i
    BY <1>1, <2>1, <2>2 DEF CreateShape
  <2>4. i \notin DOMAIN accounts
    BY <1>1, <2>1, <2>2 DEF CreateShape
  <2>5. DOMAIN accounts' = {i} \cup DOMAIN accounts /\ DOMAIN links' = {j} \cup DOMAIN links
    BY <2>2, <2>3, CommitRows
  <2>6. links'[j].account = i
    BY <2>3, <2>5, CommitRows
  <2>7. \A l \in DOMAIN links : links'[l].account = links[l].account
                                /\ links[l].account \in DOMAIN accounts
    BY CommitRows DEF AccountsInv, AccountRows
  <2>8. \A a \in DOMAIN accounts' : \E l \in DOMAIN links' : links'[l].account = a
    BY <1>2, <2>5, <2>6, <2>7 DEF LinksPair
  <2>9. \A l, m \in DOMAIN links' : links'[l].account = links'[m].account => l = m
    BY <1>2, <2>4, <2>5, <2>6, <2>7 DEF LinksPair
  <2> QED BY <2>8, <2>9 DEF LinksPair
<1>4. CASE acct[p].req.kind \in {"edit", "disable"}
  <2>1. /\ DOMAIN acct[p].accounts \subseteq DOMAIN accounts
        /\ DOMAIN acct[p].links \subseteq DOMAIN links
    BY <1>1, <1>4, KindIs DEF EditShape, LoadedShape, DisableShape, AccountsInv, AccountRows
  <2>2. DOMAIN accounts' = DOMAIN accounts /\ DOMAIN links' = DOMAIN links
    BY <2>1, CommitRows
  <2>3. \A l \in DOMAIN links : links'[l].account = links[l].account
    BY CommitRows
  <2> QED BY <1>2, <2>2, <2>3 DEF LinksPair
<1> QED BY <1>1, <1>3, <1>4, KindIs

\* What is committed had a number that nobody else had.
LEMMA CommitNumbers ==
  ASSUME AccountsInv, LedgerInv, NEW p \in Workers, CommitAccount(p)
  PROVE  NumbersApart'
<1>1. \A q \in Workers : acct'[q] = IF q = p THEN NoAccountWork ELSE acct[q]
  BY DEF CommitAccount, AccountsInv
<1>2. DOMAIN NoAccountWork.accounts = {}
  BY DEF NoAccountWork, NoRows
<1>3. \A a, b \in DOMAIN acct[p].accounts : a = b
  BY KindIs DEF CommitAccount, AtA, CreateShape, EditShape, DisableShape
<1>4. NumbersApart
  BY DEF LedgerInv
<1> DEFINE New == acct[p].accounts
<1>5. /\ DOMAIN accounts' = DOMAIN New \cup DOMAIN accounts
      /\ \A a \in DOMAIN accounts' :
           accounts'[a] = IF a \in DOMAIN New THEN New[a] ELSE accounts[a]
  BY CommitRows
<1>6. \A a, b \in DOMAIN accounts' : accounts'[a].number = accounts'[b].number => a = b
  <2> SUFFICES ASSUME NEW a \in DOMAIN accounts', NEW b \in DOMAIN accounts',
                      accounts'[a].number = accounts'[b].number
               PROVE  a = b
    OBVIOUS
  <2>1. CASE a \in DOMAIN New /\ b \in DOMAIN New
    BY <1>3, <2>1
  <2>2. CASE a \in DOMAIN New /\ b \notin DOMAIN New
    BY <1>4, <1>5, <2>2 DEF NumbersApart
  <2>3. CASE a \notin DOMAIN New /\ b \in DOMAIN New
    BY <1>4, <1>5, <2>3 DEF NumbersApart
  <2>4. CASE a \notin DOMAIN New /\ b \notin DOMAIN New
    BY <1>4, <1>5, <2>4 DEF NumbersApart
  <2> QED BY <2>1, <2>2, <2>3, <2>4
<1>7. ASSUME NEW q \in Workers, NEW a \in DOMAIN acct'[q].accounts, NEW b \in DOMAIN accounts',
             acct'[q].accounts[a].number = accounts'[b].number
      PROVE  a = b
  <2>1. q # p /\ acct'[q] = acct[q]
    BY <1>1, <1>2
  <2>2. CASE b \in DOMAIN New
    BY <1>4, <1>5, <1>7, <2>1, <2>2 DEF NumbersApart
  <2>3. CASE b \notin DOMAIN New
    BY <1>4, <1>5, <1>7, <2>1, <2>3 DEF NumbersApart
  <2> QED BY <2>2, <2>3
<1>8. ASSUME NEW q \in Workers, NEW r \in Workers, q # r,
             NEW a \in DOMAIN acct'[q].accounts, NEW b \in DOMAIN acct'[r].accounts
      PROVE  acct'[q].accounts[a].number # acct'[r].accounts[b].number
  BY <1>1, <1>2, <1>4, <1>8 DEF NumbersApart
<1> QED BY <1>6, <1>7, <1>8 DEF NumbersApart

\* A COMMIT leaves the invariant true.
LEMMA LedgerCommit ==
  ASSUME AccountsInv, LedgerInv, NEW p \in Workers, CommitAccount(p)
  PROVE  LedgerInv'
<1>1. \A q \in Workers : acct'[q] = IF q = p THEN NoAccountWork ELSE acct[q]
  BY DEF CommitAccount, AccountsInv
<1>2. /\ NoAccountWork.pc = "idle" /\ NoAccountWork.held = {}
      /\ DOMAIN NoAccountWork.accounts = {}
  BY DEF NoAccountWork, NoRows
<1>3. /\ lastAccount' = lastAccount /\ lastLink' = lastLink
      /\ lastAccount \in Nat /\ lastLink \in Nat
  BY DEF CommitAccount, sequences, AccountsInv, AccountRows
<1>4. IdsGiven'
  <2>1. DOMAIN acct[p].accounts \subseteq Nat \ {0} /\ DOMAIN acct[p].links \subseteq Nat \ {0}
    <3>1. acct[p].accounts \in Tables(Account) /\ acct[p].links \in Tables(Link)
      BY DEF AccountsInv, AccountState
    <3>2. IsTable(acct[p].accounts, Account) /\ IsTable(acct[p].links, Link)
      BY <3>1, TablesTyped
    <3> QED BY <3>2 DEF IsTable
  <2>2. /\ \A a \in DOMAIN acct[p].accounts : a <= lastAccount
        /\ \A l \in DOMAIN acct[p].links : l <= lastLink
    BY <2>1, WrittenHeld DEF LedgerInv, IdsGiven
  <2>3. DOMAIN accounts' \subseteq 1 .. lastAccount /\ DOMAIN links' \subseteq 1 .. lastLink
    <3>1. DOMAIN accounts \subseteq 1 .. lastAccount /\ DOMAIN links \subseteq 1 .. lastLink
      BY DEF LedgerInv, IdsGiven
    <3>2. /\ DOMAIN acct[p].accounts \subseteq 1 .. lastAccount
          /\ DOMAIN acct[p].links \subseteq 1 .. lastLink
      BY <1>3, <2>1, <2>2
    <3> QED BY <3>1, <3>2, CommitRows
  <2>4. ASSUME NEW q \in Workers, NEW i \in Nat
        PROVE  /\ AccountLock(i) \in acct'[q].held => i <= lastAccount
               /\ LinkLock(i) \in acct'[q].held => i <= lastLink
    BY <1>1, <1>2 DEF LedgerInv, IdsGiven
  <2> QED BY <1>3, <2>3, <2>4 DEF IdsGiven, AccountLock, LinkLock, Row
<1>5. LocksApart'
  BY <1>1, <1>2 DEF LedgerInv, LocksApart
<1>6. ASSUME NEW q \in Workers
      PROVE  Shape(acct'[q], accounts', links')
  <2>1. CASE q = p
    <3>1. Shape(NoAccountWork, accounts', links')
      BY <1>2 DEF Shape
    <3> QED BY <1>1, <2>1, <3>1
  <2>2. CASE q # p
    <3>1. acct'[q] = acct[q] /\ Shape(acct[q], accounts, links)
      BY <1>1, <2>2 DEF LedgerInv
    <3>2. acct[q].held \cap acct[p].held = {}
      BY <2>2 DEF LedgerInv, LocksApart
    <3>3. /\ \A a \in DOMAIN acct[p].accounts : AccountLock(a) \notin acct[q].held
          /\ \A l \in DOMAIN acct[p].links : LinkLock(l) \notin acct[q].held
      BY <3>2, WrittenHeld
    <3>4. DOMAIN accounts \subseteq DOMAIN accounts' /\ DOMAIN links \subseteq DOMAIN links'
      BY CommitRows
    <3>5. /\ \A i \in DOMAIN accounts' \ DOMAIN accounts : AccountLock(i) \notin acct[q].held
          /\ \A i \in DOMAIN links' \ DOMAIN links : LinkLock(i) \notin acct[q].held
      BY <3>3, CommitRows
    <3>6. \A l \in DOMAIN links : LinkLock(l) \in acct[q].held => links'[l] = links[l]
      BY <3>3, <3>4, CommitRows
    <3>7. \A a \in DOMAIN accounts : AccountLock(a) \in acct[q].held => accounts'[a] = accounts[a]
      BY <3>3, <3>4, CommitRows
    <3>8. \A l \in DOMAIN links : links'[l].account = links[l].account
                                  /\ links'[l].warehouse = links[l].warehouse
      BY CommitRows
    <3>9. Shape(acct[q], accounts', links')
      BY <3>1, <3>4, <3>5, <3>6, <3>7, <3>8, ShapeStable
    <3> QED BY <3>1, <3>9
  <2> QED BY <2>1, <2>2
<1> QED BY <1>4, <1>5, <1>6, CommitPairs, CommitNumbers DEF LedgerInv

-----------------------------------------------------------------------------
(* The service. *)

\* At the start nobody has written anything, and the first rows are as a
\* database with these accounts has them.
LEMMA LedgerInit == Init => LedgerInv
<1> SUFFICES ASSUME Init PROVE LedgerInv
  OBVIOUS
<1>1. /\ accounts = FirstAccounts /\ links = FirstLinks
      /\ lastAccount = LastId(FirstAccounts) /\ lastLink = LastId(FirstLinks)
      /\ acct = [p \in Workers |-> NoAccountWork]
  BY DEF Init, FinanceInit, AccountsInit
<1>2. \A p \in Workers : /\ acct[p].pc = "idle" /\ acct[p].held = {}
                         /\ DOMAIN acct[p].accounts = {}
  BY <1>1 DEF NoAccountWork, NoRows
<1>3. IdsGiven
  <2>1. DOMAIN FirstAccounts \subseteq Nat \ {0} /\ DOMAIN FirstLinks \subseteq Nat \ {0}
    BY FinanceAssumption
  <2>2. /\ DOMAIN FirstAccounts \subseteq 1 .. LastId(FirstAccounts)
        /\ DOMAIN FirstLinks \subseteq 1 .. LastId(FirstLinks)
    BY <2>1, FinanceAssumption, LastIdIs
  <2> QED BY <1>1, <1>2, <2>2 DEF IdsGiven
<1>4. LinksPair
  BY <1>1, FirstRowsAssumption DEF LinksPair
<1>5. NumbersApart
  BY <1>1, <1>2, FirstRowsAssumption DEF NumbersApart
<1> QED BY <1>2, <1>3, <1>4, <1>5 DEF LedgerInv, LocksApart, Shape

\* Whatever a request for an account does leaves the invariant true.
LEMMA LedgerNext == AccountsInv /\ LedgerInv /\ AccountsNext => LedgerInv'
<1> SUFFICES ASSUME AccountsInv, LedgerInv, AccountsNext PROVE LedgerInv'
  OBVIOUS
<1>1. PICK p \in Workers : \/ \E r \in AccountRequests : BeginAccount(p, r)
                           \/ AccountStep(p)
                           \/ FailAccount(p)
  BY DEF AccountsNext
<1>2. CASE \E r \in AccountRequests : BeginAccount(p, r)
  <2>1. PICK r \in AccountRequests : BeginAccount(p, r)
    BY <1>2
  <2> DEFINE s == [NoAccountWork EXCEPT
                     !.pc = IF r.kind = "create" THEN "number" ELSE "load", !.req = r]
  <2>2. /\ s.pc = (IF r.kind = "create" THEN "number" ELSE "load") /\ s.req = r
        /\ s.held = {} /\ DOMAIN s.accounts = {} /\ DOMAIN s.links = {}
    BY DEF NoAccountWork, NoRows
  <2>3. acct' = [acct EXCEPT ![p] = s] /\ UNCHANGED <<tables, sequences>>
    BY <2>1 DEF BeginAccount
  <2> HIDE DEF s
  <2>4. r.kind = "create" => CreateShape(s, accounts, links)
    BY <2>2 DEF CreateShape
  <2>5. r.kind = "edit" => EditShape(s, accounts, links)
    BY <2>2 DEF EditShape
  <2>6. r.kind = "disable" => DisableShape(s, accounts, links)
    BY <2>2 DEF DisableShape
  <2>7. Shape(s, accounts, links)
    BY <2>2, <2>4, <2>5, <2>6 DEF Shape
  <2> QED BY <2>2, <2>3, <2>7, LedgerStep DEF sequences
<1>3. CASE RefuseAccount(p) /\ UNCHANGED <<tables, sequences>>
  BY <1>3, LedgerEnds DEF RefuseAccount, sequences
<1>4. CASE CheckNumber(p) /\ ~RefuseAccount(p)
  BY <1>4, LedgerGoto DEF CheckNumber, AtA
<1>5. CASE CheckOps(p) /\ ~RefuseAccount(p)
  BY <1>5, LedgerGoto DEF CheckOps, AtA
<1>6. CASE CheckOwnOps(p) /\ ~RefuseAccount(p)
  BY <1>6, LedgerGoto DEF CheckOwnOps, AtA
<1>7. CASE InsertAccount(p) \/ InsertLink(p) \/ LoadAccount(p)
  BY <1>7, LedgerInsert, LedgerInsertLink, LedgerLoad
<1>8. CASE SaveAccount(p) \/ SaveLink(p) \/ SaveDisabled(p)
  BY <1>8, LedgerSave, LedgerSaveLink, LedgerDisable
<1>9. CASE CommitAccount(p)
  BY <1>9, LedgerCommit
<1>10. CASE AccountStep(p)
  <2>1. CheckNumber(p) \/ CheckOps(p) \/ CheckOwnOps(p) => UNCHANGED <<tables, sequences>>
    BY DEF CheckNumber, CheckOps, CheckOwnOps
  <2> QED BY <1>3, <1>4, <1>5, <1>6, <1>7, <1>8, <1>9, <1>10, <2>1 DEF AccountStep
<1>11. CASE FailAccount(p)
  BY <1>3, <1>11 DEF FailAccount
<1> QED BY <1>1, <1>2, <1>10, <1>11

\* Requests for expenses and balances leave the accounts alone.
LEMMA OthersKeepAccounts ==
  ASSUME \/ HistoryNext /\ UNCHANGED <<accountVars, balanceVars>>
         \/ BalanceNext /\ UNCHANGED <<accountVars, historyVars>>
         \/ UNCHANGED vars
  PROVE  UNCHANGED <<tables, accountVars>>
BY DEF HistoryNext, HistoryStep, BeginExpense, RollBackExpense, GetAccount, CreateExpense,
       GetExpense, UpdateExpense, CommitExpense, BalanceNext, BalanceStep, BeginBalance,
       EndBalance, FindAccount, FindBalance, CreateBalance, UpdateBalance, vars

\* Every step of the service leaves the invariant true.
LEMMA LedgerServiceNext == FinanceInv /\ LedgerInv /\ [Next]_vars => LedgerInv'
<1> SUFFICES ASSUME FinanceInv, LedgerInv, [Next]_vars PROVE LedgerInv'
  OBVIOUS
<1>1. CASE AccountsNext
  BY <1>1, LedgerNext DEF FinanceInv
<1>2. CASE UNCHANGED <<tables, accountVars>>
  <2>1. /\ accounts' = accounts /\ links' = links /\ acct' = acct
        /\ lastAccount' = lastAccount /\ lastLink' = lastLink
    BY <1>2 DEF tables, accountVars, sequences
  <2> QED BY <2>1 DEF LedgerInv, IdsGiven, LocksApart, LinksPair, NumbersApart
<1> QED BY <1>1, <1>2, OthersKeepAccounts DEF Next

\* The inductive invariant holds of every behaviour.
LEMMA LedgerHolds == Spec => [](FinanceInv /\ LedgerInv)
BY LedgerInit, LedgerServiceNext, FinanceInitGood, FinanceNextGood, PTL DEF Spec

\* Every account belongs to exactly one warehouse and every link has its
\* account, for any number of requests that fail wherever they like.
THEOREM AccountsAndLinksPairHolds == Spec => []AccountsAndLinksPair
<1>1. FinanceInv /\ LedgerInv => AccountsAndLinksPair
  <2> SUFFICES ASSUME FinanceInv, LedgerInv PROVE AccountsAndLinksPair
    OBVIOUS
  <2>1. \A l \in DOMAIN links : links[l].account \in DOMAIN accounts
    BY DEF FinanceInv, AccountsInv, AccountRows
  <2>2. ASSUME NEW a \in DOMAIN accounts
        PROVE  Cardinality({l \in DOMAIN links : links[l].account = a}) = 1
    <3>1. PICK l \in DOMAIN links : links[l].account = a
      BY DEF LedgerInv, LinksPair
    <3>2. {m \in DOMAIN links : links[m].account = a} = {l}
      BY <3>1 DEF LedgerInv, LinksPair
    <3> QED BY <3>2, FS_Singleton
  <2> QED BY <2>1, <2>2 DEF AccountsAndLinksPair
<1> QED BY <1>1, LedgerHolds, PTL

\* No two accounts get one number id, neither in the tables nor in what a
\* transaction sees of them with its own rows.
THEOREM NumbersUniqueHolds == Spec => []NumbersUnique
<1>1. FinanceInv /\ LedgerInv => NumbersUnique
  <2> SUFFICES ASSUME FinanceInv, LedgerInv, NEW p \in Workers,
                      NEW a \in DOMAIN Over(acct[p].accounts, accounts),
                      NEW b \in DOMAIN Over(acct[p].accounts, accounts),
                      Over(acct[p].accounts, accounts)[a].number
                        = Over(acct[p].accounts, accounts)[b].number
               PROVE  a = b
    BY DEF NumbersUnique
  <2> DEFINE New == acct[p].accounts
             Seen(i) == IF i \in DOMAIN New THEN New[i] ELSE accounts[i]
  <2>1. a \in DOMAIN New \cup DOMAIN accounts /\ b \in DOMAIN New \cup DOMAIN accounts
    BY OverDomain
  <2>2. Seen(a).number = Seen(b).number
    BY <2>1, OverValue
  <2>3. a \in DOMAIN New /\ b \in DOMAIN New => a = b
    <3>1. acct[p].pc = "idle" => DOMAIN New = {}
      BY DEF LedgerInv, Shape
    <3> QED BY <3>1, KindIs DEF FinanceInv, CreateShape, EditShape, DisableShape
  <2>4. NumbersApart
    BY DEF LedgerInv
  <2>5. CASE a \in DOMAIN New /\ b \notin DOMAIN New
    BY <2>1, <2>2, <2>4, <2>5 DEF NumbersApart
  <2>6. CASE a \notin DOMAIN New /\ b \in DOMAIN New
    BY <2>1, <2>2, <2>4, <2>6 DEF NumbersApart
  <2>7. CASE a \notin DOMAIN New /\ b \notin DOMAIN New
    BY <2>1, <2>2, <2>4, <2>7 DEF NumbersApart
  <2> QED BY <2>3, <2>5, <2>6, <2>7
<1> QED BY <1>1, LedgerHolds, PTL

\* What an edit that names its warehouse commits is what was asked, in the row
\* of the account and in that of the link.
THEOREM EditIsWholeHolds == Spec => EditIsWhole
<1> DEFINE Whole ==
      \A p \in Workers :
        (CommitAccount(p) /\ AReq(p).kind = "edit" /\ AReq(p).warehouse # 0) =>
          LET l == acct[p].link
              a == links[l].account
          IN  /\ accounts'[a].number = AReq(p).number
              /\ accounts'[a].label = AReq(p).label
              /\ links'[l] = [links[l] EXCEPT !.ops = AReq(p).ops]
<1>1. FinanceInv /\ LedgerInv => Whole
  <2> SUFFICES ASSUME FinanceInv, LedgerInv, NEW p \in Workers, CommitAccount(p),
                      AReq(p).kind = "edit", AReq(p).warehouse # 0
               PROVE  LET l == acct[p].link
                          a == links[l].account
                      IN  /\ accounts'[a].number = AReq(p).number
                          /\ accounts'[a].label = AReq(p).label
                          /\ links'[l] = [links[l] EXCEPT !.ops = AReq(p).ops]
    OBVIOUS
  <2> DEFINE l == acct[p].link
             a == links[l].account
  <2>1. acct[p].pc = "commit" /\ EditShape(acct[p], accounts, links)
    BY KindIs DEF CommitAccount, AtA, AReq, FinanceInv
  <2>2. /\ l \in DOMAIN acct[p].links /\ a \in DOMAIN acct[p].accounts
        /\ acct[p].links[l] = [links[l] EXCEPT !.ops = AReq(p).ops]
        /\ acct[p].accounts[a].number = AReq(p).number
        /\ acct[p].accounts[a].label = AReq(p).label
    BY <2>1 DEF EditShape, AReq
  <2>3. accounts'[a] = acct[p].accounts[a] /\ links'[l] = acct[p].links[l]
    BY <2>2, CommitRows DEF FinanceInv
  <2> QED BY <2>2, <2>3
<1>2. FinanceInv /\ LedgerInv => [Whole]_vars
  BY <1>1
<1> HIDE DEF Whole
<1>3. Spec => [][Whole]_vars
  BY <1>2, LedgerHolds, PTL DEF Spec
<1> QED BY <1>3 DEF Whole, EditIsWhole

-----------------------------------------------------------------------------
(* One request at a time. *)

Alone == \A p, q \in Workers : p = q

\* What a create that wants the ops account has found out stays true while no
\* other request is served, and what it inserts is what it asked.
OpsShape(s, K) ==
  s.pc # "idle" /\ s.req.kind = "create" =>
    /\ s.pc \in {"insert", "link", "commit"} /\ s.req.ops =>
         \A l \in DOMAIN K : K[l].ops => /\ s.req.warehouse # 0
                                         /\ K[l].warehouse # s.req.warehouse
    /\ s.pc = "commit" =>
         \A l \in DOMAIN s.links : /\ s.links[l].warehouse = s.req.warehouse
                                   /\ s.links[l].ops = s.req.ops

OpsInv == OneOpsAccount /\ \A p \in Workers : OpsShape(acct[p], links)

\* A create goes on to its inserts only when there is no ops account.
LEMMA OpsAccountStep ==
  ASSUME AccountsInv, LedgerInv, NEW p \in Workers, OpsShape(acct[p], links),
         AccountStep(p), ~CommitAccount(p)
  PROVE  OpsShape(acct'[p], links)
<1>1. acct \in [Workers -> AccountState] /\ acct[p] \in AccountState
  BY DEF AccountsInv
<1>2. CASE RefuseAccount(p)
  <2>1. acct'[p] = NoAccountWork
    BY <1>1, <1>2 DEF RefuseAccount
  <2> QED BY <2>1 DEF OpsShape, NoAccountWork
<1>3. CASE CheckNumber(p) /\ ~RefuseAccount(p)
  <2>1. GotoA(p, IF AReq(p).ops THEN "ops" ELSE "insert")
    BY <1>3 DEF CheckNumber
  <2>2. acct'[p].pc = (IF AReq(p).ops THEN "ops" ELSE "insert") /\ acct'[p].req = AReq(p)
    BY <1>1, <2>1 DEF GotoA, AccountState, AReq
  <2> QED BY <2>2 DEF OpsShape
<1>4. CASE CheckOps(p) /\ ~RefuseAccount(p)
  <2>1. OpsLinks(AReq(p).warehouse) = {} /\ GotoA(p, "insert")
    BY <1>4 DEF CheckOps
  <2>2. acct'[p].pc = "insert" /\ acct'[p].req = AReq(p)
    BY <1>1, <2>1 DEF GotoA, AccountState, AReq
  <2> QED BY <2>1, <2>2 DEF OpsShape, OpsLinks, OfWarehouse
<1>5. CASE InsertAccount(p) /\ ~RefuseAccount(p)
  <2>1. acct[p].pc = "insert" /\ acct'[p].pc = "link" /\ acct'[p].req = acct[p].req
    BY <1>1, <1>5 DEF InsertAccount, AtA, AccountState
  <2> QED BY <2>1 DEF OpsShape
<1>6. CASE InsertLink(p)
  <2>1. PICK a \in DOMAIN acct[p].accounts :
          acct' = [acct EXCEPT
             ![p].pc = "commit",
             ![p].held = @ \cup {Row("link", lastLink + 1)},
             ![p].links = OneRow(lastLink + 1,
               [account |-> a, warehouse |-> AReq(p).warehouse, ops |-> AReq(p).ops])]
    BY <1>6 DEF InsertLink
  <2> DEFINE row == [account |-> a, warehouse |-> AReq(p).warehouse, ops |-> AReq(p).ops]
  <2>2. /\ acct[p].pc = "link" /\ acct'[p].pc = "commit" /\ acct'[p].req = acct[p].req
        /\ acct'[p].links = OneRow(lastLink + 1, row)
    BY <1>1, <1>6, <2>1 DEF InsertLink, AtA, AccountState
  <2>3. row.warehouse = acct[p].req.warehouse /\ row.ops = acct[p].req.ops
    BY DEF AReq
  <2> HIDE DEF row
  <2>4. \A l \in DOMAIN acct'[p].links : acct'[p].links[l] = row
    <3> DEFINE id == lastLink + 1
    <3>1. DOMAIN OneRow(id, row) = {id} /\ OneRow(id, row)[id] = row
      BY OneRowIs
    <3>2. acct'[p].links = OneRow(id, row)
      BY <2>2
    <3> HIDE DEF id
    <3> QED BY <3>1, <3>2
  <2> QED BY <2>2, <2>3, <2>4 DEF OpsShape
<1>7. CASE LoadAccount(p) /\ ~RefuseAccount(p)
  <2>1. PICK l : LockRows(p, l)
    BY <1>7 DEF LoadAccount
  <2>2. acct'[p].req = acct[p].req
    BY <1>1, <2>1 DEF LockRows, AccountState
  <2>3. acct[p].req.kind # "create"
    BY <1>7, KindIs DEF LoadAccount, AtA, CreateShape
  <2> QED BY <2>2, <2>3 DEF OpsShape
<1>8. CASE \/ CheckOwnOps(p) /\ ~RefuseAccount(p)
           \/ SaveAccount(p) /\ ~RefuseAccount(p)
           \/ SaveLink(p) \/ SaveDisabled(p)
  <2>1. acct'[p].req = acct[p].req
    <3>1. CheckOwnOps(p) /\ ~RefuseAccount(p) => acct'[p].req = acct[p].req
      BY <1>1 DEF CheckOwnOps, GotoA, AccountState
    <3>2. SaveAccount(p) /\ ~RefuseAccount(p) => acct'[p].req = acct[p].req
      BY <1>1 DEF SaveAccount, AccountState
    <3>3. SaveLink(p) => acct'[p].req = acct[p].req
      BY <1>1 DEF SaveLink, AccountState
    <3>4. SaveDisabled(p) => acct'[p].req = acct[p].req
      <4>1. SaveDisabled(p) =>
              \E h, t : acct' = [acct EXCEPT ![p].pc = "commit", ![p].held = h,
                                             ![p].accounts = t]
        BY DEF SaveDisabled
      <4> QED BY <1>1, <4>1 DEF AccountState
    <3> QED BY <1>8, <3>1, <3>2, <3>3, <3>4
  <2>2. acct[p].req.kind # "create"
    BY <1>8, KindIs DEF CheckOwnOps, SaveAccount, SaveLink, SaveDisabled, AtA, CreateShape
  <2> QED BY <2>1, <2>2 DEF OpsShape
<1> QED BY <1>2, <1>3, <1>4, <1>5, <1>6, <1>7, <1>8 DEF AccountStep

\* The link that a create commits is the only ops link of its warehouse, and an
\* edit that wants none commits none.
LEMMA OpsCommit ==
  ASSUME \A r \in AccountRequests : r.kind = "edit" => ~r.ops,
         AccountsInv, LedgerInv, OpsInv, NEW p \in Workers, CommitAccount(p)
  PROVE  OneOpsAccount'
<1> DEFINE New == acct[p].links
<1>1. acct[p].pc = "commit"
  BY DEF CommitAccount, AtA
<1>2. /\ DOMAIN links' = DOMAIN New \cup DOMAIN links
      /\ \A l \in DOMAIN links' :
           links'[l] = IF l \in DOMAIN New THEN New[l] ELSE links[l]
  BY CommitRows
<1>3. OneOpsAccount
  BY DEF OpsInv
<1>4. CASE acct[p].req.kind = "create"
  <2>1. CreateShape(acct[p], accounts, links) /\ OpsShape(acct[p], links)
    BY <1>1, <1>4, KindIs DEF OpsInv
  <2>2. PICK j \in DOMAIN New : DOMAIN New = {j}
    BY <1>1, <2>1 DEF CreateShape
  <2>3. New[j].warehouse = acct[p].req.warehouse /\ New[j].ops = acct[p].req.ops
    BY <1>1, <1>4, <2>1 DEF OpsShape
  <2>4. CASE acct[p].req.ops
    <3>1. \A l \in DOMAIN links : links[l].ops => links[l].warehouse # New[j].warehouse
      BY <1>1, <1>4, <2>1, <2>3, <2>4 DEF OpsShape
    <3> QED BY <1>2, <1>3, <2>2, <3>1 DEF OneOpsAccount
  <2>5. CASE ~acct[p].req.ops
    <3>1. ~New[j].ops
      BY <2>3, <2>5
    <3> QED BY <1>2, <1>3, <2>2, <3>1 DEF OneOpsAccount
  <2> QED BY <2>4, <2>5
<1>5. CASE acct[p].req.kind = "edit"
  <2>1. EditShape(acct[p], accounts, links) /\ ~acct[p].req.ops
    BY <1>1, <1>5, KindIs DEF AccountsInv, GoodAccount
  <2>2. \A l \in DOMAIN New : ~New[l].ops
    <3>1. \A l \in DOMAIN New : /\ l \in DOMAIN links /\ links[l] \in Link
                                /\ New[l] = [links[l] EXCEPT !.ops = acct[p].req.ops]
      BY <1>1, <2>1 DEF EditShape, LoadedShape, AccountsInv, AccountRows, IsTable
    <3> QED BY <2>1, <3>1 DEF Link
  <2> QED BY <1>2, <1>3, <2>2 DEF OneOpsAccount
<1>6. CASE acct[p].req.kind = "disable"
  <2>1. DOMAIN New = {}
    BY <1>1, <1>6, KindIs DEF DisableShape
  <2> QED BY <1>2, <1>3, <2>1 DEF OneOpsAccount
<1> QED BY <1>1, <1>4, <1>5, <1>6, KindIs

\* Every step of a service with one worker keeps to one ops account.
LEMMA OpsServiceNext ==
  ASSUME Alone, \A r \in AccountRequests : r.kind = "edit" => ~r.ops,
         FinanceInv, LedgerInv, OpsInv, [Next]_vars
  PROVE  OpsInv'
<1>1. CASE AccountsNext
  <2>1. PICK p \in Workers : \/ \E r \in AccountRequests : BeginAccount(p, r)
                             \/ AccountStep(p)
                             \/ FailAccount(p)
    BY <1>1 DEF AccountsNext
  <2>2. AccountsInv /\ acct \in [Workers -> AccountState]
    BY DEF FinanceInv, AccountsInv
  <2>3. \A q \in Workers : q = p
    BY DEF Alone
  <2>4. CASE CommitAccount(p)
    <3>1. OneOpsAccount'
      BY <2>2, <2>4, OpsCommit
    <3>2. acct'[p] = NoAccountWork
      BY <2>2, <2>4 DEF CommitAccount
    <3>3. OpsShape(acct'[p], links')
      BY <3>2 DEF OpsShape, NoAccountWork
    <3> QED BY <2>3, <3>1, <3>3 DEF OpsInv
  <2>5. CASE AccountStep(p) /\ ~CommitAccount(p)
    <3>1. links' = links
      BY <2>5 DEF AccountStep, CheckNumber, CheckOps, InsertAccount, InsertLink, LoadAccount,
                  CheckOwnOps, SaveAccount, SaveLink, SaveDisabled, tables
    <3>2. OpsShape(acct'[p], links)
      BY <2>2, <2>5, OpsAccountStep DEF OpsInv
    <3> QED BY <2>3, <3>1, <3>2 DEF OpsInv, OneOpsAccount
  <2>6. CASE FailAccount(p)
    <3>1. links' = links /\ acct'[p] = NoAccountWork
      BY <2>2, <2>6 DEF FailAccount, RefuseAccount, tables
    <3>2. OpsShape(acct'[p], links)
      BY <3>1 DEF OpsShape, NoAccountWork
    <3> QED BY <2>3, <3>1, <3>2 DEF OpsInv, OneOpsAccount
  <2>7. CASE \E r \in AccountRequests : BeginAccount(p, r)
    <3>1. links' = links /\ acct'[p].pc \in {"number", "load"}
      BY <2>2, <2>7 DEF BeginAccount, NoAccountWork, tables
    <3>2. OpsShape(acct'[p], links)
      BY <3>1 DEF OpsShape
    <3> QED BY <2>3, <3>1, <3>2 DEF OpsInv, OneOpsAccount
  <2> QED BY <2>1, <2>4, <2>5, <2>6, <2>7
<1>2. CASE UNCHANGED <<tables, accountVars>>
  <2>1. links' = links /\ acct' = acct
    BY <1>2 DEF tables, accountVars
  <2> QED BY <2>1 DEF OpsInv, OneOpsAccount
<1> QED BY <1>1, <1>2, OthersKeepAccounts DEF Next

\* Served one after the other, creates and edits that want no ops account keep
\* the promise that a warehouse has one at most.  (Two creates at once break
\* it, and so does an edit that wants one: it looks only at its own account.)
THEOREM OneOpsAccountAlone ==
  ASSUME Alone, \A r \in AccountRequests : r.kind = "edit" => ~r.ops,
         \A l, m \in DOMAIN FirstLinks :
           FirstLinks[l].ops /\ FirstLinks[m].ops
             /\ FirstLinks[l].warehouse = FirstLinks[m].warehouse => l = m
  PROVE  Spec => []OneOpsAccount
<1>1. Init => OpsInv
  <2> SUFFICES ASSUME Init PROVE OpsInv
    OBVIOUS
  <2>1. links = FirstLinks /\ acct = [p \in Workers |-> NoAccountWork]
    BY DEF Init, FinanceInit, AccountsInit
  <2>2. \A p \in Workers : acct[p].pc = "idle"
    BY <2>1 DEF NoAccountWork
  <2> QED BY <2>1, <2>2 DEF OpsInv, OneOpsAccount, OpsShape
<1>2. FinanceInv /\ LedgerInv /\ OpsInv /\ [Next]_vars => OpsInv'
  BY OpsServiceNext
<1>3. OpsInv => OneOpsAccount
  BY DEF OpsInv
<1> QED BY <1>1, <1>2, <1>3, LedgerHolds, PTL DEF Spec

-----------------------------------------------------------------------------
(* Expenses and balances: links keep their ends. *)

\* Every link of K is in M with its account and its warehouse.
Keeps(K, M) ==
  /\ DOMAIN K \subseteq DOMAIN M
  /\ \A l \in DOMAIN K : /\ M[l].account = K[l].account
                         /\ M[l].warehouse = K[l].warehouse

\* No step of the service takes an end from a link.
LEMMA LinksKept == FinanceInv /\ LedgerInv /\ [Next]_vars => Keeps(links, links')
<1> SUFFICES ASSUME FinanceInv, LedgerInv, [Next]_vars PROVE Keeps(links, links')
  OBVIOUS
<1>1. UNCHANGED tables => Keeps(links, links')
  BY DEF Keeps, tables
<1>2. CASE AccountsNext
  <2>1. PICK p \in Workers : \/ \E r \in AccountRequests : BeginAccount(p, r)
                             \/ AccountStep(p)
                             \/ FailAccount(p)
    BY <1>2 DEF AccountsNext
  <2>2. CASE CommitAccount(p)
    BY <2>2, CommitRows DEF FinanceInv, Keeps
  <2>3. CASE ~CommitAccount(p)
    <3>1. UNCHANGED tables
      BY <2>1, <2>3 DEF BeginAccount, FailAccount, AccountStep, CheckNumber, CheckOps,
             InsertAccount, InsertLink, LoadAccount, CheckOwnOps, SaveAccount, SaveLink,
             SaveDisabled
    <3> QED BY <1>1, <3>1
  <2> QED BY <2>2, <2>3
<1> QED BY <1>1, <1>2, OthersKeepAccounts DEF Next

-----------------------------------------------------------------------------
(* Expenses are requests. *)

\* What the request r may have made of the row i, over the links K.
Asked(r, i, row, K) ==
  \/ r.kind = "edit" /\ r.id = i /\ row = Edited(r, row)
  \/ /\ r.kind = "add" /\ MayCreate(r)
     /\ \E l \in DOMAIN K : /\ r.account = 0 \/ K[l].account = r.account
                            /\ r.warehouse = 0 \/ K[l].warehouse = r.warehouse
                            /\ row = Added(r, K[l])

\* An add has read the ends of a link that its conditions let through.
ReadLink(s, K) ==
  \E l \in DOMAIN K : /\ s.req.account = 0 \/ K[l].account = s.req.account
                      /\ s.req.warehouse = 0 \/ K[l].warehouse = s.req.warehouse
                      /\ s.read.account = K[l].account
                      /\ s.read.warehouse = K[l].warehouse

RowsInv ==
  /\ \A i \in DOMAIN histories : \E r \in ExpenseRequests : Asked(r, i, histories[i], links)
  /\ \A p \in Workers :
       /\ hist[p].pc = "create" => ReadLink(hist[p], links)
       /\ \A i \in DOMAIN hist[p].wrote :
            \E r \in ExpenseRequests : Asked(r, i, hist[p].wrote[i], links)

\* What was asked stays asked while links keep their ends.
LEMMA AskedKept ==
  ASSUME NEW K, NEW M, Keeps(K, M)
  PROVE  /\ \A r, i, row : Asked(r, i, row, K) => Asked(r, i, row, M)
         /\ \A s : ReadLink(s, K) => ReadLink(s, M)
BY DEF Keeps, Asked, ReadLink, Added

\* A saved row is what its edit asked, whatever it was before.
LEMMA EditedIsRequest ==
  ASSUME NEW r, NEW old \in Expense
  PROVE  Edited(r, old) = Edited(r, Edited(r, old))
BY DEF Edited, Expense

\* Every step of a request for an expense leaves rows that were asked.
LEMMA RowsHistoryNext ==
  ASSUME FinanceInv, RowsInv, HistoryNext
  PROVE  RowsInv'
<1>1. PICK p \in Workers : \/ \E r \in ExpenseRequests : BeginExpense(p, r)
                           \/ HistoryStep(p)
                           \/ RollBackExpense(p)
  BY DEF HistoryNext
<1>2. hist \in [Workers -> ExpenseState]
  BY DEF FinanceInv, HistoriesInv
<1>3. links' = links
  BY DEF HistoryNext, HistoryStep, BeginExpense, RollBackExpense, GetAccount, CreateExpense,
         GetExpense, UpdateExpense, CommitExpense, tables
<1>4. GoodExpense(hist[p], DOMAIN histories, lastHistory) /\ hist[p] \in ExpenseState
  BY DEF FinanceInv, HistoriesInv, GoodExpense
<1>5. ASSUME NEW s, hist' = [hist EXCEPT ![p] = s], histories' = histories,
             s.pc = "create" => ReadLink(s, links),
             \A i \in DOMAIN s.wrote : \E r \in ExpenseRequests : Asked(r, i, s.wrote[i], links)
      PROVE  RowsInv'
  <2>1. \A q \in Workers : hist'[q] = IF q = p THEN s ELSE hist[q]
    BY <1>2, <1>5
  <2>2. ASSUME NEW q \in Workers
        PROVE  /\ hist'[q].pc = "create" => ReadLink(hist'[q], links)
               /\ \A i \in DOMAIN hist'[q].wrote :
                    \E r \in ExpenseRequests : Asked(r, i, hist'[q].wrote[i], links)
    BY <1>5, <2>1 DEF RowsInv
  <2>3. \A i \in DOMAIN histories : \E r \in ExpenseRequests : Asked(r, i, histories[i], links)
    BY DEF RowsInv
  <2> QED BY <1>3, <1>5, <2>2, <2>3 DEF RowsInv
<1>6. NoExpenseWork.pc = "idle" /\ DOMAIN NoExpenseWork.wrote = {}
  BY DEF NoExpenseWork, NoRows
<1>7. CASE \E r \in ExpenseRequests : BeginExpense(p, r)
  <2>1. PICK r \in ExpenseRequests : BeginExpense(p, r)
    BY <1>7
  <2> DEFINE s == [NoExpenseWork EXCEPT
                     !.pc = IF r.kind = "add" THEN "account" ELSE "load", !.req = r]
  <2>2. s.pc # "create" /\ DOMAIN s.wrote = {}
    BY DEF NoExpenseWork, NoRows
  <2>3. hist' = [hist EXCEPT ![p] = s] /\ histories' = histories
    BY <2>1 DEF BeginExpense
  <2> HIDE DEF s
  <2> QED BY <1>5, <2>2, <2>3
<1>8. CASE RollBackExpense(p)
  BY <1>5, <1>6, <1>8 DEF RollBackExpense
<1>9. CASE GetAccount(p) /\ ~RollBackExpense(p)
  <2>1. PICK l \in OfAccount(HReq(p).account) \cap OfWarehouse(HReq(p).warehouse) :
          hist' = [hist EXCEPT ![p].pc = "create", ![p].read = links[l]]
    BY <1>9 DEF GetAccount
  <2> DEFINE s == [hist[p] EXCEPT !.pc = "create", !.read = links[l]]
  <2>2. s.read = links[l] /\ s.req = hist[p].req /\ s.wrote = hist[p].wrote
    BY <1>4 DEF ExpenseState
  <2>3. hist' = [hist EXCEPT ![p] = s] /\ histories' = histories
    BY <1>9, <2>1 DEF GetAccount
  <2> HIDE DEF s
  <2>4. ReadLink(s, links)
    BY <2>1, <2>2 DEF ReadLink, OfAccount, OfWarehouse, HReq
  <2>5. DOMAIN s.wrote = {}
    BY <1>4, <1>9, <2>2 DEF GoodExpense, GetAccount, AtH
  <2> QED BY <1>5, <2>3, <2>4, <2>5
<1>10. CASE GetExpense(p) /\ ~RollBackExpense(p)
  <2> DEFINE s == [hist[p] EXCEPT !.pc = "save", !.read = histories[HReq(p).id]]
  <2>1. s.pc = "save" /\ s.wrote = hist[p].wrote
    BY <1>4 DEF ExpenseState
  <2>2. hist' = [hist EXCEPT ![p] = s] /\ histories' = histories
    BY <1>10 DEF GetExpense
  <2> HIDE DEF s
  <2>3. DOMAIN s.wrote = {}
    BY <1>4, <1>10, <2>1 DEF GoodExpense, GetExpense, AtH
  <2> QED BY <1>5, <2>1, <2>2, <2>3
<1>11. CASE CreateExpense(p) /\ ~RollBackExpense(p)
  <2> DEFINE row == Added(HReq(p), hist[p].read)
             s == [hist[p] EXCEPT !.pc = "commit", !.wrote = OneRow(NewId, row)]
  <2>1. s.pc = "commit" /\ s.wrote = OneRow(NewId, row)
    BY <1>4 DEF ExpenseState
  <2>2. hist' = [hist EXCEPT ![p] = s] /\ histories' = histories
    BY <1>11 DEF CreateExpense
  <2>3. /\ hist[p].req \in ExpenseRequests /\ hist[p].req.kind = "add"
        /\ hist[p].pc = "create" /\ MayCreate(HReq(p))
    BY <1>4, <1>11 DEF CreateExpense, GoodExpense, AtH
  <2>4. Asked(hist[p].req, NewId, row, links)
    <3>1. ReadLink(hist[p], links)
      BY <2>3 DEF RowsInv
    <3> QED BY <2>3, <3>1 DEF ReadLink, Asked, Added, HReq
  <2> HIDE DEF s, row
  <2>5. DOMAIN OneRow(NewId, row) = {NewId} /\ OneRow(NewId, row)[NewId] = row
    BY OneRowIs
  <2>6. \A i \in DOMAIN s.wrote : \E r \in ExpenseRequests : Asked(r, i, s.wrote[i], links)
    BY <2>1, <2>3, <2>4, <2>5
  <2> QED BY <1>5, <2>1, <2>2, <2>6
<1>12. CASE UpdateExpense(p) /\ ~RollBackExpense(p)
  <2> DEFINE id == HReq(p).id
             row == Edited(HReq(p), hist[p].read)
             s == [hist[p] EXCEPT !.pc = "commit", !.wrote = OneRow(id, row)]
  <2>1. s.pc = "commit" /\ s.wrote = OneRow(id, row)
    BY <1>4 DEF ExpenseState
  <2>2. hist' = [hist EXCEPT ![p] = s] /\ histories' = histories
    BY <1>12 DEF UpdateExpense
  <2>3. /\ hist[p].req \in ExpenseRequests /\ hist[p].req.kind = "edit"
        /\ hist[p].read \in Expense
    BY <1>4, <1>12 DEF UpdateExpense, GoodExpense, AtH
  <2>4. Asked(hist[p].req, id, row, links)
    <3>1. row = Edited(HReq(p), row)
      BY <2>3, EditedIsRequest
    <3> HIDE DEF row
    <3> QED BY <2>3, <3>1 DEF Asked, HReq
  <2> HIDE DEF s, row, id
  <2>5. DOMAIN OneRow(id, row) = {id} /\ OneRow(id, row)[id] = row
    BY OneRowIs
  <2>6. \A i \in DOMAIN s.wrote : \E r \in ExpenseRequests : Asked(r, i, s.wrote[i], links)
    BY <2>1, <2>3, <2>4, <2>5
  <2> QED BY <1>5, <2>1, <2>2, <2>6
<1>13. CASE CommitExpense(p)
  <2>1. /\ hist' = [hist EXCEPT ![p] = NoExpenseWork]
        /\ histories' = Over(hist[p].wrote, histories)
    BY <1>13 DEF CommitExpense
  <2>2. \A q \in Workers : hist'[q] = IF q = p THEN NoExpenseWork ELSE hist[q]
    BY <1>2, <2>1
  <2>3. /\ DOMAIN histories' = DOMAIN hist[p].wrote \cup DOMAIN histories
        /\ \A i \in DOMAIN histories' :
             histories'[i] = IF i \in DOMAIN hist[p].wrote THEN hist[p].wrote[i]
                             ELSE histories[i]
    <3>1. DOMAIN histories' = DOMAIN hist[p].wrote \cup DOMAIN histories
      BY <2>1, OverDomain
    <3> QED BY <2>1, <3>1, OverValue
  <2>4. \A i \in DOMAIN histories' :
          \E r \in ExpenseRequests : Asked(r, i, histories'[i], links)
    BY <2>3 DEF RowsInv
  <2>5. ASSUME NEW q \in Workers
        PROVE  /\ hist'[q].pc = "create" => ReadLink(hist'[q], links)
               /\ \A i \in DOMAIN hist'[q].wrote :
                    \E r \in ExpenseRequests : Asked(r, i, hist'[q].wrote[i], links)
    BY <1>6, <2>2 DEF RowsInv
  <2> QED BY <1>3, <2>4, <2>5 DEF RowsInv
<1> QED BY <1>1, <1>7, <1>8, <1>9, <1>10, <1>11, <1>12, <1>13 DEF HistoryStep

\* Every step of the service leaves rows that were asked.
LEMMA RowsServiceNext ==
  ASSUME FinanceInv, LedgerInv, RowsInv, [Next]_vars
  PROVE  RowsInv'
<1>1. CASE HistoryNext
  BY <1>1, RowsHistoryNext
<1>2. CASE UNCHANGED historyVars
  <2>1. histories' = histories /\ hist' = hist
    BY <1>2 DEF historyVars
  <2>2. Keeps(links, links')
    BY LinksKept
  <2>3. \A i \in DOMAIN histories : \E r \in ExpenseRequests : Asked(r, i, histories[i], links')
    BY <2>2, AskedKept DEF RowsInv
  <2>4. ASSUME NEW p \in Workers
        PROVE  /\ hist[p].pc = "create" => ReadLink(hist[p], links')
               /\ \A i \in DOMAIN hist[p].wrote :
                    \E r \in ExpenseRequests : Asked(r, i, hist[p].wrote[i], links')
    BY <2>2, AskedKept DEF RowsInv
  <2> QED BY <2>1, <2>3, <2>4 DEF RowsInv
<1> QED BY <1>1, <1>2 DEF Next, vars

\* Every expense is wholly one edit, or one add by a user who was allowed that
\* type for an account that is linked to that warehouse, however many edits of
\* it overlap.
THEOREM RowsAreRequestedHolds == Spec => []RowsAreRequested
<1>1. Init => RowsInv
  BY DEF Init, HistoryInit, RowsInv, NoRows, NoExpenseWork
<1>2. FinanceInv /\ LedgerInv /\ RowsInv /\ [Next]_vars => RowsInv'
  BY RowsServiceNext
<1>3. RowsInv => RowsAreRequested
  BY DEF RowsInv, RowsAreRequested, Asked, MayCreate, Added, OfAccount, OfWarehouse
<1> QED BY <1>1, <1>2, <1>3, LedgerHolds, PTL DEF Spec

-----------------------------------------------------------------------------
(* Expenses, one request at a time. *)

\* While no other request is served, an edit has read the row that it saves.
ReadIsSaved(s) ==
  /\ s.pc = "save" => s.read = histories[s.req.id]
  /\ s.pc = "commit" =>
       \A i \in DOMAIN s.wrote \cap DOMAIN histories :
         /\ s.wrote[i] = Edited(s.req, histories[i])
         /\ MayMove(s.req, histories[i])
         /\ MayRetype(s.req, histories[i])

EditInv == \A p \in Workers : ReadIsSaved(hist[p])

\* Every step of a service with one worker keeps to that.
LEMMA EditServiceNext ==
  ASSUME Alone, FinanceInv, EditInv, [Next]_vars
  PROVE  EditInv'
<1>1. hist \in [Workers -> ExpenseState]
  BY DEF FinanceInv, HistoriesInv
<1>2. CASE UNCHANGED historyVars
  <2>1. histories' = histories /\ hist' = hist
    BY <1>2 DEF historyVars
  <2> QED BY <2>1 DEF EditInv, ReadIsSaved
<1>3. CASE HistoryNext
  <2>1. PICK p \in Workers : \/ \E r \in ExpenseRequests : BeginExpense(p, r)
                             \/ HistoryStep(p)
                             \/ RollBackExpense(p)
    BY <1>3 DEF HistoryNext
  <2>2. \A q \in Workers : q = p
    BY DEF Alone
  <2>3. SUFFICES ReadIsSaved(hist[p])'
    BY <2>2 DEF EditInv
  <2>4. GoodExpense(hist[p], DOMAIN histories, lastHistory) /\ hist[p] \in ExpenseState
    BY DEF FinanceInv, HistoriesInv, GoodExpense
  <2>5. CASE RollBackExpense(p) \/ CommitExpense(p)
    <3>1. hist'[p] = NoExpenseWork
      BY <1>1, <2>5 DEF RollBackExpense, CommitExpense
    <3> QED BY <3>1 DEF ReadIsSaved, NoExpenseWork
  <2>6. CASE \E r \in ExpenseRequests : BeginExpense(p, r)
    <3>1. hist'[p].pc \in {"account", "load"}
      BY <1>1, <2>6 DEF BeginExpense, NoExpenseWork
    <3> QED BY <3>1 DEF ReadIsSaved
  <2>7. CASE GetAccount(p) /\ ~RollBackExpense(p)
    <3>1. hist'[p].pc = "create"
      BY <1>1, <2>7 DEF GetAccount, ExpenseState
    <3> QED BY <3>1 DEF ReadIsSaved
  <2>8. CASE GetExpense(p) /\ ~RollBackExpense(p)
    <3>1. /\ hist'[p].pc = "save" /\ hist'[p].req = hist[p].req
          /\ hist'[p].read = histories[hist[p].req.id] /\ histories' = histories
      BY <1>1, <2>8 DEF GetExpense, ExpenseState, HReq
    <3> QED BY <3>1 DEF ReadIsSaved
  <2>9. CASE CreateExpense(p) /\ ~RollBackExpense(p)
    <3> DEFINE row == Added(HReq(p), hist[p].read)
    <3>1. /\ hist'[p].pc = "commit" /\ hist'[p].wrote = OneRow(NewId, row)
          /\ histories' = histories
      BY <1>1, <2>9 DEF CreateExpense, ExpenseState
    <3>2. NewId \notin DOMAIN histories
      BY DEF FinanceInv, HistoriesInv, HistoryRows, NewId
    <3>3. DOMAIN OneRow(NewId, row) = {NewId}
      BY OneRowIs
    <3> HIDE DEF row
    <3> QED BY <3>1, <3>2, <3>3 DEF ReadIsSaved
  <2>10. CASE UpdateExpense(p) /\ ~RollBackExpense(p)
    <3> DEFINE id == HReq(p).id
               row == Edited(HReq(p), hist[p].read)
    <3>1. /\ hist'[p].pc = "commit" /\ hist'[p].wrote = OneRow(id, row)
          /\ hist'[p].req = HReq(p) /\ histories' = histories
      BY <1>1, <2>10 DEF UpdateExpense, ExpenseState, HReq
    <3>2. hist[p].read = histories[id] /\ MayEdit(p)
      BY <2>10 DEF UpdateExpense, EditInv, ReadIsSaved, AtH, HReq
    <3>3. row = Edited(HReq(p), histories[id])
      BY <3>2
    <3> HIDE DEF id, row
    <3>4. DOMAIN OneRow(id, row) = {id} /\ OneRow(id, row)[id] = row
      BY OneRowIs
    <3> QED BY <3>1, <3>2, <3>3, <3>4 DEF ReadIsSaved, MayEdit
  <2> QED BY <2>1, <2>5, <2>6, <2>7, <2>8, <2>9, <2>10 DEF HistoryStep
<1> QED BY <1>2, <1>3 DEF Next, vars

\* One at a time, what is read is what is saved over.
LEMMA EditHolds ==
  ASSUME Alone
  PROVE  Spec => [](FinanceInv /\ EditInv)
<1>1. Init => EditInv
  BY DEF Init, HistoryInit, EditInv, ReadIsSaved, NoExpenseWork
<1>2. FinanceInv /\ EditInv /\ [Next]_vars => EditInv'
  BY EditServiceNext
<1> QED BY <1>1, <1>2, FinanceInitGood, FinanceNextGood, PTL DEF Spec

\* A row that a COMMIT changes is one that its edit was allowed to change.
LEMMA EditCommit ==
  ASSUME FinanceInv, EditInv, NEW p \in Workers, CommitExpense(p), NEW i \in DOMAIN histories
  PROVE  \/ histories'[i] = histories[i]
         \/ /\ histories'[i].warehouse = HReq(p).warehouse
            /\ histories'[i].type = HReq(p).type
            /\ MayMove(HReq(p), histories[i])
            /\ MayRetype(HReq(p), histories[i])
<1>1. histories' = Over(hist[p].wrote, histories) /\ hist[p].pc = "commit"
  BY DEF CommitExpense, AtH
<1>2. histories'[i] = IF i \in DOMAIN hist[p].wrote THEN hist[p].wrote[i] ELSE histories[i]
  BY <1>1, OverValue
<1>3. CASE i \in DOMAIN hist[p].wrote
  <2>1. /\ hist[p].wrote[i] = Edited(HReq(p), histories[i])
        /\ MayMove(HReq(p), histories[i]) /\ MayRetype(HReq(p), histories[i])
    BY <1>1, <1>3 DEF EditInv, ReadIsSaved, HReq
  <2>2. histories[i] \in Expense
    BY DEF FinanceInv, HistoriesInv, HistoryRows, IsTable
  <2>3. /\ Edited(HReq(p), histories[i]).warehouse = HReq(p).warehouse
        /\ Edited(HReq(p), histories[i]).type = HReq(p).type
    BY <2>2 DEF Edited, Expense
  <2> QED BY <1>2, <1>3, <2>1, <2>3
<1> QED BY <1>2, <1>3

\* Served one after the other, only an administrator turns an expense into or
\* out of the types that need one.
THEOREM AdminTypesByAdminAlone ==
  ASSUME Alone
  PROVE  Spec => AdminTypesByAdmin
<1> DEFINE ByAdmin ==
      \A p \in Workers : CommitExpense(p) =>
        \A i \in DOMAIN histories :
          (histories'[i].type # histories[i].type
             /\ {histories[i].type, histories'[i].type} \cap AdminTypes # {}) =>
            HReq(p).from = Admin
<1>1. FinanceInv /\ EditInv => ByAdmin
  <2> SUFFICES ASSUME FinanceInv, EditInv, NEW p \in Workers, CommitExpense(p),
                      NEW i \in DOMAIN histories,
                      histories'[i].type # histories[i].type,
                      {histories[i].type, histories'[i].type} \cap AdminTypes # {}
               PROVE  HReq(p).from = Admin
    OBVIOUS
  <2> QED BY EditCommit DEF MayRetype
<1>2. FinanceInv /\ EditInv => [ByAdmin]_vars
  BY <1>1
<1> HIDE DEF ByAdmin
<1>3. Spec => [][ByAdmin]_vars
  BY <1>2, EditHolds, PTL
<1> QED BY <1>3 DEF ByAdmin, AdminTypesByAdmin

\* Served one after the other, only an administrator moves an expense to
\* another warehouse.
THEOREM MovedByAdminAlone ==
  ASSUME Alone
  PROVE  Spec => MovedByAdmin
<1> DEFINE ByAdmin ==
      \A p \in Workers : CommitExpense(p) =>
        \A i \in DOMAIN histories :
          histories'[i].warehouse # histories[i].warehouse => HReq(p).from = Admin
<1>1. FinanceInv /\ EditInv => ByAdmin
  <2> SUFFICES ASSUME FinanceInv, EditInv, NEW p \in Workers, CommitExpense(p),
                      NEW i \in DOMAIN histories,
                      histories'[i].warehouse # histories[i].warehouse
               PROVE  HReq(p).from = Admin
    OBVIOUS
  <2> QED BY EditCommit DEF MayMove
<1>2. FinanceInv /\ EditInv => [ByAdmin]_vars
  BY <1>1
<1> HIDE DEF ByAdmin
<1>3. Spec => [][ByAdmin]_vars
  BY <1>2, EditHolds, PTL
<1> QED BY <1>3 DEF ByAdmin, MovedByAdmin

-----------------------------------------------------------------------------
(* Balances. *)

\* A call for an account that nobody has changes no balance of a warehouse.
THEOREM UnknownTouchesNothingHolds == Spec => UnknownTouchesNothing
<1> DEFINE Untouched ==
      \A p \in Workers :
        (CreateBalance(p) \/ UpdateBalance(p)) /\ bal[p].link = NoLink =>
          \A i \in DOMAIN balances :
            balances[i].warehouse # 0 => balances'[i] = balances[i]
<1>1. FinanceInv => Untouched
  <2> SUFFICES ASSUME FinanceInv, NEW p \in Workers, CreateBalance(p) \/ UpdateBalance(p),
                      bal[p].link = NoLink, NEW i \in DOMAIN balances,
                      balances[i].warehouse # 0
               PROVE  balances'[i] = balances[i]
    OBVIOUS
  <2>1. BalancesInv
    BY DEF FinanceInv
  <2>2. CASE CreateBalance(p)
    <3> DEFINE n == Cardinality(DOMAIN balances)
    <3>1. n \in Nat /\ DOMAIN balances = 1 .. n
      BY <2>1, <2>2, CreateBalanceRows
    <3>2. PICK row : balances' = Over(OneRow(n + 1, row), balances)
      BY <2>2 DEF CreateBalance
    <3>3. DOMAIN OneRow(n + 1, row) = {n + 1}
      BY OneRowIs
    <3>4. i \notin {n + 1}
      BY <3>1
    <3> HIDE DEF n
    <3> QED BY <3>2, <3>3, <3>4, OverValue
  <2>3. CASE UpdateBalance(p)
    <3> DEFINE rows == [r \in RowsToUpdate(p) |->
                          [balances[r] EXCEPT !.amount = BReq(p).amount,
                                              !.at = BReq(p).at]]
    <3>1. balances' = Over(rows, balances)
      BY <2>3 DEF UpdateBalance
    <3>2. DOMAIN rows = RowsToUpdate(p)
      OBVIOUS
    <3>3. i \notin RowsToUpdate(p)
      BY DEF RowsToUpdate, NoLink
    <3> HIDE DEF rows
    <3> QED BY <3>1, <3>2, <3>3, OverValue
  <2> QED BY <2>2, <2>3
<1>2. FinanceInv => [Untouched]_vars
  BY <1>1
<1> HIDE DEF Untouched
<1>3. Spec => [][Untouched]_vars
  BY <1>2, FinanceHolds, PTL
<1> QED BY <1>3 DEF Untouched, UnknownTouchesNothing
-----------------------------------------------------------------------------
(* Balances, one request at a time, on one clock. *)

\* The ends of a link of K, or of none.
Ends(account, warehouse, K) ==
  \/ account = 0 /\ warehouse = 0
  \/ \E l \in DOMAIN K : K[l].account = account /\ K[l].warehouse = warehouse

\* Every balance and every request has the ends of a link or of none, and what a
\* request has found of its day is still all there is.
DayInv ==
  /\ OnePerDay
  /\ \A i \in DOMAIN balances : Ends(balances[i].account, balances[i].warehouse, links)
  /\ \A p \in Workers :
       LET found == BalancesOf(bal[p].link, StoredDay(BReq(p).at))
       IN  /\ bal[p].pc # "idle" => Ends(bal[p].link.account, bal[p].link.warehouse, links)
           /\ AtB(p, "create") => found = {}
           /\ AtB(p, "update") => bal[p].found \in found

\* Ends last while links keep theirs.
LEMMA EndsKept ==
  ASSUME NEW K, NEW M, Keeps(K, M), NEW a, NEW w, Ends(a, w, K)
  PROVE  Ends(a, w, M)
BY DEF Ends, Keeps

\* An account has one warehouse, and no link has the account 0.
LEMMA EndsAgree ==
  ASSUME FinanceInv, LedgerInv, NEW a, NEW w, NEW v, Ends(a, w, links), Ends(a, v, links)
  PROVE  w = v
<1>1. \A l \in DOMAIN links : links[l].account # 0
  BY DEF FinanceInv, AccountsInv, AccountRows, IsTable
<1> QED BY <1>1 DEF Ends, LedgerInv, LinksPair

\* The row i of C takes the place of the one row of B of its account and day,
\* or is new to them, and the other rows stay.
Replaces(i, B, C) ==
  /\ DOMAIN C = DOMAIN B \cup {i}
  /\ \A j \in DOMAIN B \ {i} : C[j] = B[j]
  /\ \A j \in DOMAIN B :
       j = i <=> /\ B[j].account = C[i].account
                 /\ StoredDay(B[j].at) = StoredDay(C[i].at)

SameRows(B, C) == DOMAIN C = DOMAIN B /\ \A j \in DOMAIN B : C[j] = B[j]

\* An insert is of an account and a day without a row.
LEMMA CreateReplaces ==
  ASSUME CallerShift = JakartaShift, FinanceInv, LedgerInv, DayInv,
         NEW p \in Workers, CreateBalance(p)
  PROVE  \E i : /\ Replaces(i, balances, balances')
                /\ Ends(balances'[i].account, balances'[i].warehouse, links)
                /\ balances'[i].amount = BReq(p).amount /\ balances'[i].at = BReq(p).at
<1> DEFINE n == Cardinality(DOMAIN balances) + 1
           link == bal[p].link
           row == [account |-> link.account, warehouse |-> link.warehouse,
                   amount |-> BReq(p).amount, at |-> BReq(p).at]
<1>1. n \in Nat /\ n \notin DOMAIN balances
  BY CreateBalanceRows DEF FinanceInv
<1>2. balances' = Over(OneRow(n, row), balances)
  BY DEF CreateBalance
<1>3. \A j \in DOMAIN balances :
        ~(/\ balances[j].account = link.account
          /\ StoredDay(balances[j].at) = StoredDay(BReq(p).at))
  <2> SUFFICES ASSUME NEW j \in DOMAIN balances, balances[j].account = link.account,
                      StoredDay(balances[j].at) = StoredDay(BReq(p).at)
               PROVE  FALSE
    OBVIOUS
  <2>1. bal[p].pc = "create"
    BY DEF CreateBalance, AtB
  <2>2. Ends(link.account, link.warehouse, links)
    BY <2>1 DEF DayInv
  <2>3. Ends(link.account, balances[j].warehouse, links)
    BY DEF DayInv
  <2> HIDE DEF link
  <2>4. balances[j].warehouse = link.warehouse
    BY <2>2, <2>3, EndsAgree
  <2> USE DEF link
  <2>5. j \in BalancesOf(bal[p].link, StoredDay(BReq(p).at))
    BY <2>4 DEF BalancesOf
  <2> QED BY <2>1, <2>5 DEF DayInv, AtB
<1>4. /\ row.account = link.account /\ row.warehouse = link.warehouse
      /\ row.amount = BReq(p).amount /\ row.at = BReq(p).at
  OBVIOUS
<1>5. Ends(link.account, link.warehouse, links)
  BY DEF DayInv, CreateBalance, AtB
<1> HIDE DEF n, link, row
<1>6. DOMAIN OneRow(n, row) = {n} /\ OneRow(n, row)[n] = row
  BY OneRowIs
<1>7. DOMAIN balances' = DOMAIN balances \cup {n}
  <2>1. DOMAIN balances' = DOMAIN OneRow(n, row) \cup DOMAIN balances
    BY <1>2, OverDomain
  <2> QED BY <1>6, <2>1
<1>8. \A j \in DOMAIN balances \ {n} : balances'[j] = balances[j]
  BY <1>2, <1>6, OverValue
<1>9. balances'[n] = row
  BY <1>2, <1>6, OverValue
<1>10. Replaces(n, balances, balances')
  BY <1>1, <1>3, <1>4, <1>7, <1>8, <1>9 DEF Replaces
<1> QED BY <1>4, <1>5, <1>9, <1>10

\* An update is of the row of its account and its day, or of none.
LEMMA UpdateReplaces ==
  ASSUME CallerShift = JakartaShift, FinanceInv, LedgerInv, DayInv,
         NEW p \in Workers, UpdateBalance(p)
  PROVE  \/ SameRows(balances, balances')
         \/ \E i : /\ Replaces(i, balances, balances')
                   /\ Ends(balances'[i].account, balances'[i].warehouse, links)
                   /\ balances'[i].amount = BReq(p).amount /\ balances'[i].at = BReq(p).at
<1> DEFINE i == bal[p].found
           req == BReq(p)
           rows == [r \in RowsToUpdate(p) |->
                      [balances[r] EXCEPT !.amount = req.amount, !.at = req.at]]
<1>1. balances' = Over(rows, balances)
  BY DEF UpdateBalance
<1>2. i \in DOMAIN balances /\ StoredDay(balances[i].at) = StoredDay(req.at)
  BY DEF DayInv, UpdateBalance, BalancesOf, AtB
<1>3. balances[i] \in Balance
  BY <1>2 DEF FinanceInv, BalancesInv, BalanceRows, IsTable
<1>4. DOMAIN rows = RowsToUpdate(p) /\ RowsToUpdate(p) \subseteq {i}
  BY DEF RowsToUpdate
<1>5. ASSUME i \in RowsToUpdate(p)
      PROVE  /\ rows[i].account = balances[i].account
             /\ rows[i].warehouse = balances[i].warehouse
             /\ rows[i].amount = req.amount /\ rows[i].at = req.at
  BY <1>3, <1>5 DEF Balance
<1>6. Ends(balances[i].account, balances[i].warehouse, links)
  BY <1>2 DEF DayInv
<1> HIDE DEF i, req, rows
<1>7. DOMAIN balances' = DOMAIN balances
  <2>1. DOMAIN balances' = DOMAIN rows \cup DOMAIN balances
    BY <1>1, OverDomain
  <2> QED BY <1>2, <1>4, <2>1
<1>8. \A j \in DOMAIN balances \ RowsToUpdate(p) : balances'[j] = balances[j]
  BY <1>1, <1>4, OverValue
<1>9. CASE i \in RowsToUpdate(p)
  <2>1. balances'[i] = rows[i]
    BY <1>1, <1>2, <1>4, <1>9, OverValue
  <2>2. \A j \in DOMAIN balances :
          j = i <=> /\ balances[j].account = balances[i].account
                    /\ StoredDay(balances[j].at) = StoredDay(balances[i].at)
    BY <1>2 DEF DayInv, OnePerDay
  <2>3. Replaces(i, balances, balances')
    BY <1>2, <1>4, <1>5, <1>7, <1>8, <1>9, <2>1, <2>2 DEF Replaces
  <2> QED BY <1>5, <1>6, <1>9, <2>1, <2>3 DEF req
<1>10. CASE i \notin RowsToUpdate(p)
  <2>1. \A j \in DOMAIN balances : balances'[j] = balances[j]
    BY <1>4, <1>8, <1>10
  <2> QED BY <1>7, <2>1 DEF SameRows
<1> QED BY <1>9, <1>10

\* Replacing the row of its account and day leaves one row for each.
LEMMA ReplacedOnePerDay ==
  ASSUME NEW B, NEW C, NEW i, Replaces(i, B, C),
         \A j, k \in DOMAIN B : /\ B[j].account = B[k].account
                                /\ StoredDay(B[j].at) = StoredDay(B[k].at)
                                => j = k
  PROVE  \A j, k \in DOMAIN C : /\ C[j].account = C[k].account
                                /\ StoredDay(C[j].at) = StoredDay(C[k].at)
                                => j = k
<1> SUFFICES ASSUME NEW j \in DOMAIN C, NEW k \in DOMAIN C, C[j].account = C[k].account,
                    StoredDay(C[j].at) = StoredDay(C[k].at)
             PROVE  j = k
  OBVIOUS
<1>1. CASE j = i \/ k = i
  BY <1>1 DEF Replaces
<1>2. CASE j # i /\ k # i
  BY <1>2 DEF Replaces
<1> QED BY <1>1, <1>2

\* Every step of a service with one worker and one clock keeps to that.
LEMMA DayServiceNext ==
  ASSUME Alone, CallerShift = JakartaShift, FinanceInv, LedgerInv, DayInv, [Next]_vars
  PROVE  DayInv'
<1>1. bal \in [Workers -> BalanceState]
  BY DEF FinanceInv, BalancesInv
<1>2. Keeps(links, links')
  BY LinksKept
<1>3. \A a, w : Ends(a, w, links) => Ends(a, w, links')
  BY <1>2, EndsKept
<1>4. CASE UNCHANGED balanceVars
  <2>1. balances' = balances /\ bal' = bal
    BY <1>4 DEF balanceVars
  <2> QED BY <1>3, <2>1 DEF DayInv, OnePerDay, BalancesOf, BReq, AtB
<1>5. CASE BalanceNext
  <2>1. PICK p \in Workers : \/ \E r \in BalanceRequests : BeginBalance(p, r)
                             \/ BalanceStep(p)
                             \/ EndBalance(p)
    BY <1>5 DEF BalanceNext
  <2>2. \A q \in Workers : q = p
    BY DEF Alone
  <2>3. bal[p] \in BalanceState
    BY <1>1
  <2>4. ASSUME balances' = balances,
               bal'[p].pc # "idle" =>
                 Ends(bal'[p].link.account, bal'[p].link.warehouse, links),
               LET found == BalancesOf(bal'[p].link, StoredDay(bal'[p].req.at))
               IN  /\ bal'[p].pc = "create" => found = {}
                   /\ bal'[p].pc = "update" => bal'[p].found \in found
        PROVE  DayInv'
    BY <1>3, <2>2, <2>4 DEF DayInv, OnePerDay, BalancesOf, BReq, AtB
  <2>5. Ends(NoLink.account, NoLink.warehouse, links)
    BY DEF Ends, NoLink
  <2>6. CASE \/ \E r \in BalanceRequests : BeginBalance(p, r)
             \/ EndBalance(p)
    <3>1. balances' = balances /\ bal'[p].pc \in {"idle", "account"} /\ bal'[p].link = NoLink
      <4>1. CASE EndBalance(p)
        BY <1>1, <4>1 DEF EndBalance, NoBalanceWork
      <4>2. CASE \E r \in BalanceRequests : BeginBalance(p, r)
        BY <1>1, <4>2 DEF BeginBalance, NoBalanceWork
      <4> QED BY <2>6, <4>1, <4>2
    <3> QED BY <2>4, <2>5, <3>1
  <2>7. CASE FindAccount(p)
    <3>1. /\ balances' = balances /\ bal'[p].pc = "balance"
          /\ bal'[p].link = NoLink \/ \E l \in DOMAIN links : bal'[p].link = links[l]
      BY <1>1, <2>3, <2>7 DEF FindAccount, OfAccount, BalanceState
    <3>2. Ends(bal'[p].link.account, bal'[p].link.warehouse, links)
      BY <2>5, <3>1 DEF Ends
    <3> QED BY <2>4, <3>1, <3>2
  <2>8. CASE FindBalance(p)
    <3> DEFINE found == BalancesOf(bal[p].link, StoredDay(bal[p].req.at))
    <3>1. found \subseteq DOMAIN balances /\ DOMAIN balances \subseteq Nat
      BY DEF BalancesOf, FinanceInv, BalancesInv, BalanceRows, IsTable
    <3>2. AskedDay(BReq(p).at) = StoredDay(bal[p].req.at)
      BY DEF AskedDay, StoredDay, BReq
    <3>3. PICK i \in IF found = {} THEN {None} ELSE found :
            bal' = [bal EXCEPT ![p].pc = FoundThen(i), ![p].found = i]
      BY <2>8, <3>2 DEF FindBalance
    <3>4. /\ bal'[p].link = bal[p].link /\ bal'[p].req = bal[p].req
          /\ bal'[p].pc = FoundThen(i) /\ bal'[p].found = i
      BY <1>1, <2>3, <3>3 DEF BalanceState
    <3>5. balances' = balances /\ bal[p].pc = "balance"
      BY <2>8 DEF FindBalance, AtB
    <3>6. Ends(bal'[p].link.account, bal'[p].link.warehouse, links)
      BY <3>4, <3>5 DEF DayInv
    <3>7. /\ bal'[p].pc = "create" => found = {}
          /\ bal'[p].pc = "update" => bal'[p].found \in found
      BY <3>1, <3>4, BalanceAssumption DEF FoundThen
    <3>8. found = BalancesOf(bal'[p].link, StoredDay(bal'[p].req.at))
      BY <3>4
    <3> HIDE DEF found
    <3> QED BY <2>4, <3>5, <3>6, <3>7, <3>8
  <2>9. CASE CreateBalance(p) \/ UpdateBalance(p)
    <3>1. \/ SameRows(balances, balances')
          \/ \E i : /\ Replaces(i, balances, balances')
                    /\ Ends(balances'[i].account, balances'[i].warehouse, links)
      BY <2>9, CreateReplaces, UpdateReplaces
    <3>2. OnePerDay'
      <4>1. CASE SameRows(balances, balances')
        BY <4>1 DEF SameRows, DayInv, OnePerDay
      <4>2. CASE \E i : Replaces(i, balances, balances')
        BY <4>2, ReplacedOnePerDay DEF DayInv, OnePerDay
      <4> QED BY <3>1, <4>1, <4>2
    <3>3. \A i \in DOMAIN balances' :
            Ends(balances'[i].account, balances'[i].warehouse, links)
      BY <3>1 DEF SameRows, Replaces, DayInv
    <3>4. bal'[p].pc = "idle"
      <4>1. bal' = [bal EXCEPT ![p] = NoBalanceWork]
        BY <2>9 DEF CreateBalance, UpdateBalance
      <4> QED BY <1>1, <4>1 DEF NoBalanceWork
    <3> QED BY <1>3, <2>2, <3>2, <3>3, <3>4 DEF DayInv, AtB
  <2> QED BY <2>1, <2>6, <2>7, <2>8, <2>9 DEF BalanceStep
<1> QED BY <1>4, <1>5 DEF Next, vars

\* One at a time and on one clock, a day that was found empty is empty.
LEMMA DayHolds ==
  ASSUME Alone, CallerShift = JakartaShift
  PROVE  Spec => [](FinanceInv /\ LedgerInv /\ DayInv)
<1>1. Init => DayInv
  BY DEF Init, BalanceInit, NoRows, NoBalanceWork, DayInv, OnePerDay, AtB
<1>2. FinanceInv /\ LedgerInv /\ DayInv /\ [Next]_vars => DayInv'
  BY DayServiceNext
<1> QED BY <1>1, <1>2, LedgerHolds, PTL DEF Spec

\* Served one after the other, by callers on Jakarta's clock, an account has at
\* most one balance of a day.  (Two calls at once, or another clock, break it.)
THEOREM OnePerDayAlone ==
  ASSUME Alone, CallerShift = JakartaShift
  PROVE  Spec => []OnePerDay
<1>1. DayInv => OnePerDay
  BY DEF DayInv
<1> QED BY <1>1, DayHolds, PTL

-----------------------------------------------------------------------------
(* The balances implement one balance per account and day. *)

\* The rows of an account and a day, and the amount of one of them.
DayRows(B, a, d) == {i \in DOMAIN B : B[i].account = a /\ StoredDay(B[i].at) = d}

AmountOf(B, a, d) ==
  IF DayRows(B, a, d) = {} THEN None
  ELSE B[CHOOSE i \in DayRows(B, a, d) : TRUE].amount

Recorded(B) == [k \in BalanceAccounts \X Days |-> AmountOf(B, k[1], k[2])]

\* Replacing the row of an account and a day replaces that amount alone.
LEMMA ReplacedAmount ==
  ASSUME NEW B, NEW C, NEW i, Replaces(i, B, C), NEW a, NEW d
  PROVE  AmountOf(C, a, d) =
           IF a = C[i].account /\ d = StoredDay(C[i].at) THEN C[i].amount
           ELSE AmountOf(B, a, d)
<1>1. CASE a = C[i].account /\ d = StoredDay(C[i].at)
  <2>1. DayRows(C, a, d) = {i}
    BY <1>1 DEF Replaces, DayRows
  <2>2. (CHOOSE j \in {i} : TRUE) = i
    OBVIOUS
  <2> QED BY <1>1, <2>1, <2>2 DEF AmountOf
<1>2. CASE ~(a = C[i].account /\ d = StoredDay(C[i].at))
  <2>1. DayRows(C, a, d) = DayRows(B, a, d)
    BY <1>2 DEF Replaces, DayRows
  <2>2. \A j \in DayRows(B, a, d) : C[j] = B[j]
    BY <1>2 DEF Replaces, DayRows
  <2>3. DayRows(B, a, d) # {} =>
          (CHOOSE j \in DayRows(B, a, d) : TRUE) \in DayRows(B, a, d)
    OBVIOUS
  <2> QED BY <1>2, <2>1, <2>2, <2>3 DEF AmountOf
<1> QED BY <1>1, <1>2

\* The same rows record the same amounts.
LEMMA SameAmount ==
  ASSUME NEW B, NEW C, SameRows(B, C), NEW a, NEW d
  PROVE  AmountOf(C, a, d) = AmountOf(B, a, d)
<1>1. DayRows(C, a, d) = DayRows(B, a, d)
  BY DEF SameRows, DayRows
<1>2. \A j \in DayRows(B, a, d) : C[j] = B[j]
  BY DEF SameRows, DayRows
<1>3. DayRows(B, a, d) # {} => (CHOOSE j \in DayRows(B, a, d) : TRUE) \in DayRows(B, a, d)
  OBVIOUS
<1> QED BY <1>1, <1>2, <1>3 DEF AmountOf

\* The day of an instant up to the last one is a day up to the last one.
LEMMA StoredDays ==
  ASSUME NEW t \in Times
  PROVE  StoredDay(t) \in Days
<1>1. /\ JakartaShift \in Nat /\ MaxTime \in Nat /\ DayLength \in Nat \ {0}
      /\ t \in Nat /\ t <= MaxTime
  BY BalanceAssumption DEF Times
<1> DEFINE x == t + JakartaShift
           y == MaxTime + JakartaShift
<1>2. x \in Nat /\ y \in Nat /\ x <= y
  BY <1>1
<1> HIDE DEF x, y
<1>3. x \div DayLength \in Nat /\ y \div DayLength \in Nat
  BY <1>1, <1>2
<1>4. x \div DayLength <= y \div DayLength
  BY <1>1, <1>2
<1> QED BY <1>3, <1>4 DEF StoredDay, Days, x, y

\* Every step of the service is one record or none.
LEMMA DailyStep ==
  ASSUME Alone, CallerShift = JakartaShift, FinanceInv, LedgerInv, DayInv, [Next]_vars
  PROVE  \/ Recorded(balances') = Recorded(balances)
         \/ \E a \in BalanceAccounts, d \in Days, x \in Amounts :
              Recorded(balances') = [Recorded(balances) EXCEPT ![<<a, d>>] = x]
<1>1. CASE \E p \in Workers : CreateBalance(p) \/ UpdateBalance(p)
  <2>1. PICK p \in Workers : CreateBalance(p) \/ UpdateBalance(p)
    BY <1>1
  <2>2. BReq(p) \in BalanceRequest
    BY <2>1, BalanceAssumption DEF CreateBalance, UpdateBalance, AtB, BReq, FinanceInv,
       BalancesInv, GoodBalance
  <2>3. CASE SameRows(balances, balances')
    BY <2>3, SameAmount DEF Recorded
  <2>4. CASE \E i : /\ Replaces(i, balances, balances')
                    /\ balances'[i].amount = BReq(p).amount /\ balances'[i].at = BReq(p).at
    <3>1. PICK i : /\ Replaces(i, balances, balances')
                   /\ balances'[i].amount = BReq(p).amount /\ balances'[i].at = BReq(p).at
      BY <2>4
    <3> DEFINE a == balances'[i].account
               d == StoredDay(BReq(p).at)
               x == BReq(p).amount
    <3>2. d \in Days /\ x \in Amounts
      BY <2>2, StoredDays DEF BalanceRequest
    <3>3. \A b, e : AmountOf(balances', b, e) =
                      IF b = a /\ e = d THEN x ELSE AmountOf(balances, b, e)
      BY <3>1, ReplacedAmount
    <3> HIDE DEF a, d, x
    <3>4. CASE a \in BalanceAccounts
      <4>1. ASSUME NEW k \in BalanceAccounts \X Days
            PROVE  Recorded(balances')[k] =
                     [Recorded(balances) EXCEPT ![<<a, d>>] = x][k]
        <5>1. CASE k = <<a, d>>
          BY <3>2, <3>3, <3>4, <5>1 DEF Recorded
        <5>2. CASE k # <<a, d>>
          <6>1. k = <<k[1], k[2]>>
            OBVIOUS
          <6>2. ~(k[1] = a /\ k[2] = d)
            BY <5>2, <6>1
          <6> QED BY <3>3, <5>2, <6>2 DEF Recorded
        <5> QED BY <5>1, <5>2
      <4>2. Recorded(balances') = [Recorded(balances) EXCEPT ![<<a, d>>] = x]
        BY <4>1 DEF Recorded
      <4> QED BY <3>2, <3>4, <4>2
    <3>5. CASE a \notin BalanceAccounts
      <4>1. \A k \in BalanceAccounts \X Days :
              AmountOf(balances', k[1], k[2]) = AmountOf(balances, k[1], k[2])
        BY <3>3, <3>5
      <4> QED BY <4>1 DEF Recorded
    <3> QED BY <3>4, <3>5
  <2> QED BY <2>1, <2>3, <2>4, CreateReplaces, UpdateReplaces
<1>2. CASE ~ \E p \in Workers : CreateBalance(p) \/ UpdateBalance(p)
  <2>1. balances' = balances
    BY <1>2 DEF Next, vars, balanceVars, BalanceNext, BalanceStep, BeginBalance, EndBalance,
                FindAccount, FindBalance
  <2> QED BY <2>1
<1> QED BY <1>1, <1>2

\* Served one after the other, by callers on Jakarta's clock, the service
\* implements the promise of its balances: each call of Create replaces the one
\* amount of its account and day, and nothing else does.
THEOREM DailyBalanceAlone ==
  ASSUME Alone, CallerShift = JakartaShift
  PROVE  Spec => ImplementsDailyBalance
<1> DEFINE balance ==
             [k \in BalanceAccounts \X Days |->
                LET found == {i \in DOMAIN balances :
                                /\ balances[i].account = k[1]
                                /\ StoredDay(balances[i].at) = k[2]}
                IN  IF found = {} THEN None
                    ELSE balances[CHOOSE i \in found : TRUE].amount]
<1>1. Init => Promise!Init
  <2> SUFFICES ASSUME Init PROVE Promise!Init
    OBVIOUS
  <2>1. DOMAIN balances = {}
    BY DEF Init, BalanceInit, NoRows
  <2> QED BY <2>1 DEF Promise!Init
<1>2. FinanceInv /\ LedgerInv /\ DayInv /\ [Next]_vars => [Promise!Next]_balance
  BY DailyStep DEF Promise!Next, Promise!Record, Recorded, AmountOf, DayRows
<1> QED BY <1>1, <1>2, DayHolds, PTL DEF Spec, ImplementsDailyBalance, Promise!Spec
=============================================================================
