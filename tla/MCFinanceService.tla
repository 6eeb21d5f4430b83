-------------------------- MODULE MCFinanceService --------------------------
(***************************************************************************)
(* Instances of FinanceService for TLC: two warehouses with one account    *)
(* each, whose ids are not those of their links (a failed create has used  *)
(* one up), one expense type that needs an administrator and one that does *)
(* not, and days of two instants that begin one instant earlier in         *)
(* Asia/Jakarta than in the database.                                      *)
(***************************************************************************)
EXTENDS FinanceService

\* "1" is a part of "12".
MCMatches == {<<n, n>> : n \in Numbers} \cup {<<"1", "12">>}

MCAccounts ==
  2 :> [number |-> "12", label |-> "a", disabled |-> FALSE] @@
  3 :> [number |-> "3", label |-> "b", disabled |-> FALSE]

MCLinks ==
  1 :> [account |-> 2, warehouse |-> 1, ops |-> FALSE] @@
  2 :> [account |-> 3, warehouse |-> 2, ops |-> FALSE]

MCCanCreate ==
  "admin" :> {"server", "other"} @@ "warehouse" :> {"other"} @@ "selling" :> {}

NoRequests == {}

-----------------------------------------------------------------------------
Create(w, number, ops) ==
  [kind |-> "create", warehouse |-> w, account |-> 0, number |-> number,
   label |-> "c", ops |-> ops]

Edit(w, a, number, ops) ==
  [kind |-> "edit", warehouse |-> w, account |-> a, number |-> number,
   label |-> "d", ops |-> ops]

Disable(w, a) ==
  [kind |-> "disable", warehouse |-> w, account |-> a, number |-> "1",
   label |-> "a", ops |-> FALSE]

\* Creates of a new, a contained and a taken number; edits of both accounts,
\* also to one number, without a warehouse, and of no account; both disables.
AccountMix ==
  {Create(1, "1", FALSE), Create(2, "1", TRUE), Create(0, "3", FALSE),
   Edit(1, 2, "1", TRUE), Edit(2, 3, "12", FALSE), Edit(0, 3, "1", FALSE),
   Edit(1, 9, "1", FALSE), Disable(1, 2), Disable(2, 3)}

\* Creates that want to be the ops account, for numbers that are free, also
\* without a warehouse.
OpsCreates ==
  {Create(1, "5", TRUE), Create(1, "7", TRUE), Create(2, "5", TRUE),
   Create(0, "7", TRUE), Create(1, "5", FALSE)}

-----------------------------------------------------------------------------
AddExpense(from, w, a, type) ==
  [kind |-> "add", id |-> 0, from |-> from, user |-> 1, warehouse |-> w,
   account |-> a, type |-> type, content |-> "new"]

\* Another user and content for every edit, to tell the edits apart.
EditExpense(from, w, a, type, user) ==
  [kind |-> "edit", id |-> 1, from |-> from, user |-> user, warehouse |-> w,
   account |-> a, type |-> type,
   content |-> CASE user = 2 -> "c2" [] user = 3 -> "c3" [] OTHER -> "c4"]

\* Adds with and without permission, without an account and for the account of
\* another warehouse; edits by all three kinds of team.
ExpenseMix ==
  {AddExpense("admin", 1, 2, "server"), AddExpense("warehouse", 1, 0, "other"),
   AddExpense("warehouse", 1, 2, "server"), AddExpense("selling", 1, 2, "other"),
   AddExpense("warehouse", 2, 2, "other"),
   EditExpense("admin", 2, 3, "server", 2),
   EditExpense("warehouse", 1, 3, "other", 3),
   EditExpense("selling", 1, 2, "server", 4)}

TwoEditors ==
  {AddExpense("warehouse", 1, 2, "other"),
   EditExpense("admin", 1, 2, "server", 2),
   EditExpense("warehouse", 1, 2, "other", 3)}

-----------------------------------------------------------------------------
AddBalance(a, x, t) == [account |-> a, amount |-> x, at |-> t]

\* One account, no account and one that nobody has, over two days.
BalanceMix ==
  {AddBalance(2, 10, 0), AddBalance(2, 20, 1), AddBalance(2, 20, 2),
   AddBalance(0, 10, 2), AddBalance(9, 20, 1), AddBalance(9, 10, 2)}
=============================================================================
