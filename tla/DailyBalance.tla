---------------------------- MODULE DailyBalance ----------------------------
(***************************************************************************)
(* What the balance history promises: for every account and day at most    *)
(* one balance, which the last one recorded for that day replaces.         *)
(***************************************************************************)
CONSTANTS Accounts, Days, Amounts, None

VARIABLE balance  \* <<account, day>> -> amount

Init == balance = [k \in Accounts \X Days |-> None]

Record(a, d, x) == balance' = [balance EXCEPT ![<<a, d>>] = x]

Next == \E a \in Accounts, d \in Days, x \in Amounts : Record(a, d, x)

Spec == Init /\ [][Next]_balance
=============================================================================
