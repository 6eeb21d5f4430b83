-------------------------- MODULE TransactionNotes -------------------------
(***************************************************************************)
(* The notes of a transaction (v2/warehouse/transaction_note_*.go): create *)
(* replaces the common notes in one transaction, list reads them.          *)
(***************************************************************************)
EXTENDS ServiceTables

CONSTANT FirstNotes  \* rows of the table at the start

ASSUME NotesAssumption ==
  /\ IsFiniteSet(FirstNotes) /\ Ids(FirstNotes) \subseteq Nat
  /\ \A r \in UNION Loads : r.kind = "note_create" => IsFiniteSet(r.pay.notes)

VARIABLES
  notes,   \* committed rows: [id, tx, type, order, text]
  noteSeq  \* last id given out

noteVars == <<notes, noteSeq>>

NoteTypes == {"problem", "common", "broken", "return", "cancel"}

NotesInit ==
  /\ notes = FirstNotes
  /\ noteSeq = Max({0} \cup Ids(FirstNotes))

\* The transaction a call is about: of the caller's team, or for administrators
\* of the team they name.
NotedTx(w) ==
  LET team == IF From(w) = "ADMIN" THEN Pay(w).team ELSE TeamOf(w)
  IN  {t \in WithIds(Db.txs, {Pay(w).tx}) : t.team = team}

-----------------------------------------------------------------------------
\* TransactionNoteCreate.

FindNotedTx(w) ==
  /\ At(w, "note_create", "start")
  /\ IF NotedTx(w) = {} THEN Refuse(w) ELSE Keep(w, "tx", Pay(w).tx, "delete")
  /\ UNCHANGED noteVars

CommonNotes(tx, order) ==
  {n \in notes : n.tx = tx /\ n.type = "common" /\ (order = 0 \/ n.order = order)}

\* DELETE sees what is committed when it starts.  It takes its row locks at
\* once here; two that take them one by one may also deadlock, which fails one.
StartDelete(w) ==
  /\ At(w, "note_create", "delete")
  /\ Keep(w, "seen", CommonNotes(Pay(w).tx, Pay(w).order), "deleting")
  /\ UNCHANGED noteVars

\* Mutant: a call holds the rows it wants from the start.
WantedBy(v) == IF At(v, "note_create", "deleting") THEN Got(v).seen ELSE {}

DeletedBy(v) ==
  IF call[v].kind = "note_create" /\ call[v].pc \in {"insert", "commit"}
  THEN Got(v).deleted ELSE {}

\* Mutant: SKIP LOCKED.
SkipDelete(w) ==
  /\ At(w, "note_create", "deleting")
  /\ LET taken == UNION {DeletedBy(v) : v \in Workers \ {w}}
     IN  Keep(w, "deleted", (Got(w).seen \cap notes) \ taken, "insert")
  /\ UNCHANGED noteVars

\* It waits for whoever is deleting a row of those, and passes over rows that
\* are gone when it goes on.
FinishDelete(w) ==
  /\ At(w, "note_create", "deleting")
  /\ \A v \in Workers \ {w} : DeletedBy(v) \cap Got(w).seen = {}
  /\ Keep(w, "deleted", Got(w).seen \cap notes, "insert")
  /\ UNCHANGED noteVars

\* Only the common notes of the message are written, without their order.
InsertNotes(w) ==
  /\ At(w, "note_create", "insert")
  /\ LET texts == {n.text : n \in {n \in Pay(w).notes : n.type = "common"}}
         ids == noteSeq + 1 .. noteSeq + Cardinality(texts)
     IN  /\ \E text \in [ids -> texts] :
              /\ {text[i] : i \in ids} = texts
              /\ Keep(w, "new", {[id |-> i, tx |-> Pay(w).tx, type |-> "common", order |-> 0,
                                  text |-> text[i]] : i \in ids}, "commit")
         /\ noteSeq' = noteSeq + Cardinality(texts)
  /\ UNCHANGED notes

CommitNotes(w) ==
  /\ At(w, "note_create", "commit")
  /\ notes' = (notes \ Got(w).deleted) \cup Got(w).new
  /\ Answer(w, Ids(Got(w).new))
  /\ UNCHANGED noteSeq

FailNotes(w) ==
  /\ call[w].kind = "note_create" /\ call[w].pc \in {"delete", "deleting", "insert", "commit"}
  /\ Refuse(w)
  /\ UNCHANGED noteVars

-----------------------------------------------------------------------------
\* TransactionNoteList.

FindListedTx(w) ==
  /\ At(w, "note_list", "start")
  /\ IF NotedTx(w) = {} THEN Refuse(w) ELSE Keep(w, "tx", Pay(w).tx, "notes")

ListNotes(w) ==
  /\ At(w, "note_list", "notes")
  /\ LET listed == {n \in notes : n.tx = Pay(w).tx /\ (Pay(w).order = 0 \/ n.order = Pay(w).order)}
     IN  IF \E n \in listed : n.type \notin NoteTypes THEN Refuse(w) ELSE Answer(w, listed)

-----------------------------------------------------------------------------
NoteWrite(w) ==
  FindNotedTx(w) \/ StartDelete(w) \/ FinishDelete(w) \/ InsertNotes(w) \/ CommitNotes(w)

NoteRead(w) == FindListedTx(w) \/ ListNotes(w)

NotesStep(w) ==
  \/ NoteWrite(w)
  \/ NoteRead(w) /\ UNCHANGED noteVars
=============================================================================
