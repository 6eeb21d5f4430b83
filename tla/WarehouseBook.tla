--------------------------- MODULE WarehouseBook ---------------------------
(***************************************************************************)
(* What the registry promises: a book of warehouses.  An entry is made at  *)
(* once with its team and its one owner, under an id never used before; it *)
(* is revised and closed, and what is closed stays closed.                 *)
(***************************************************************************)
CONSTANTS Contents, Users, FirstBook

VARIABLE book  \* id -> [row, team, owners, deleted]

Enter(id) ==
  /\ id \notin DOMAIN book
  /\ \E row \in Contents, user \in Users :
       book' = [i \in DOMAIN book \cup {id} |->
                  IF i = id
                  THEN [row |-> row, team |-> TRUE, owners |-> {user}, deleted |-> FALSE]
                  ELSE book[i]]

Revise(id) == \E row \in Contents : book' = [book EXCEPT ![id].row = row]

Close(id) == book' = [book EXCEPT ![id].deleted = TRUE]

Next == \/ \E id \in DOMAIN book' : Enter(id)
        \/ \E id \in DOMAIN book : Revise(id) \/ Close(id)

Spec == book = FirstBook /\ [][Next]_book
=============================================================================
