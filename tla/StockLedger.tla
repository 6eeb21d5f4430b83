---------------------------- MODULE StockLedger ----------------------------
(***************************************************************************)
(* What the stock service promises, with no transactions, no locks and no  *)
(* deliveries: every stock event is entered at most once, and at once: the *)
(* event, its change log rows and the sums of the days it touches.         *)
(***************************************************************************)
EXTENDS Integers, FiniteSets

CONSTANTS
  Messages,   \* events
  Keys,       \* days of a sku in a warehouse
  LogKeys,    \* message -> the change log keys it contributes
  Touched,    \* message -> the days it contributes to
  Delta       \* message -> key -> the stock it adds to that day

VARIABLES
  recorded,   \* messages entered
  logged,     \* keys of the change log rows
  days        \* key -> [used, start, end, diff]

ledger == <<recorded, logged, days>>

\* The books of one day balance from the opening stock to the closing stock.
Opened(day, start, diff) ==
  day = [used |-> TRUE, start |-> start, end |-> start + diff, diff |-> diff]

Record(m) ==
  /\ m \notin recorded
  /\ recorded' = recorded \cup {m}
  /\ logged' = logged \cup LogKeys[m]
  /\ DOMAIN days' = Keys
  /\ \A k \in Keys :
       IF k \in Touched[m]
       THEN IF days[k].used
            THEN Opened(days'[k], days[k].start, days[k].diff + Delta[m][k])
            ELSE Opened(days'[k], days'[k].start, Delta[m][k])
       ELSE days'[k] = days[k]

\* Days may be opened ahead of their first event, at whatever stock there is.
Prepare ==
  /\ DOMAIN days' = Keys
  /\ \A k \in Keys :
       \/ days'[k] = days[k]
       \/ ~days[k].used /\ Opened(days'[k], days'[k].start, 0)
  /\ UNCHANGED <<recorded, logged>>

Init ==
  /\ recorded = {}
  /\ logged = {}
  /\ days = [k \in Keys |-> [used |-> FALSE, start |-> 0, end |-> 0, diff |-> 0]]

Next == Prepare \/ \E m \in Messages : Record(m)

Spec == Init /\ [][Next]_ledger
=============================================================================
