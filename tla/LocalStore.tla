----------------------------- MODULE LocalStore -----------------------------
(***************************************************************************)
(* The SQLite table pending_uploads (storage/local_store.cpp): rows in the *)
(* order of their AUTOINCREMENT ids.  The file outlives the process.  A    *)
(* statement that fails leaves the table alone; TelemetryRuntime decides   *)
(* when one does.                                                          *)
(*                                                                         *)
(* open() sets journal_mode=WAL and synchronous=NORMAL: a statement is     *)
(* done when it is in the log, and the log reaches the disk later.  A      *)
(* process that dies loses nothing; a machine that loses power comes back  *)
(* with the table as it last reached the disk.                             *)
(***************************************************************************)
EXTENDS Naturals, SequencesExt

VARIABLES rows,             \* [id, sample], oldest first
          next_id,          \* the id of the next row
          synced            \* [rows, next_id] as on the disk

storeVars == <<rows, next_id, synced>>

StoreInit ==
    /\ rows = <<>> /\ next_id = 1
    /\ synced = [rows |-> <<>>, next_id |-> 1]

StoreEnqueue(sample) ==
    /\ rows' = Append(rows, [id |-> next_id, sample |-> sample])
    /\ next_id' = next_id + 1
    /\ UNCHANGED synced

\* DELETE ... WHERE id = ?, the primary key; a row that is not there is no error.
Deleted(id) ==
    LET found == {k \in DOMAIN rows : rows[k].id = id}
    IN  IF found = {} THEN rows ELSE RemoveAt(rows, CHOOSE k \in found : TRUE)

acknowledge(id) ==
    /\ rows' = Deleted(id)
    /\ UNCHANGED <<next_id, synced>>

peek_batch(max_count) ==
    SubSeq(rows, 1, IF max_count < Len(rows) THEN max_count ELSE Len(rows))

pending_count == Len(rows)

LogSynced ==
    /\ synced' = [rows |-> rows, next_id |-> next_id]
    /\ UNCHANGED <<rows, next_id>>

RolledBack ==
    /\ rows' = synced.rows
    /\ next_id' = synced.next_id
    /\ UNCHANGED synced
=============================================================================
