----------------------------- MODULE MemoryTable -----------------------------
(***************************************************************************)
(* A table of the block being built (MemoryTable2) and the change log of   *)
(* its factory (MemoryTableFactory2).  The table overlays the storage with *)
(* m_dirty, copies of stored rows that were updated or removed, and        *)
(* m_newEntries, rows inserted since; a query asks the storage first and   *)
(* corrects its answer.  A call that fails is undone through the change    *)
(* log, back to the savepoint taken when it began.                         *)
(*                                                                         *)
(* One key of one table is modelled: rows of different keys never meet.  A *)
(* row has one field beside the key; a condition is the set of values it   *)
(* lets through.  Versions from 2.5.0 on, which re-check the condition on  *)
(* dirty rows.  The hash is computed between transactions and never inside *)
(* a call.                                                                 *)
(***************************************************************************)
EXTENDS Naturals, Sequences, FiniteSets

CONSTANTS
    TableValues,    \* the values of a field
    MaxRowId,       \* bound: the row ids of the storage
    MaxChanges,     \* bound: the changes of one transaction
    MaxSavepoints   \* bound: the depth of nested calls

VARIABLES
    dbRows,         \* the storage: a value for the id of each row
    lastId,         \* m_ID: the last row id given out
    tableDirty,     \* m_dirty: an entry for some of the ids
    dirtyUpdated,   \* m_dirty_updated: the ids that were updated
    newEntries,     \* m_newEntries
    changeLog,      \* s_changeLog
    savepoints,     \* for each running call, the length of the log it began at
    tableData,      \* m_tableData: the rows of the last dump, or Stale when m_hashDirty
    reference,      \* history: the rows a table without overlay would have
    restored        \* history: stored rows whose removal was undone

tableVars == <<dbRows, lastId, tableDirty, dirtyUpdated, newEntries, changeLog, savepoints,
               tableData, reference, restored>>

Conditions == {TableValues} \cup { {v} : v \in TableValues }

\* A row as a change record names it: by id if it is stored, by index if not.
StoredRow(id) == <<id, 0>>
NewRow(i) == <<0, i>>

\* No rows of a dump.
Stale == {<<0, 0>>}

\* No row has been read for this block.
TableInit ==
    /\ dbRows \in UNION { [ids -> TableValues] : ids \in {{}, {1}} }
    /\ lastId = Cardinality(DOMAIN dbRows)
    /\ tableDirty = <<>>
    /\ dirtyUpdated = {}
    /\ newEntries = <<>>
    /\ changeLog = <<>>
    /\ savepoints = <<>>
    /\ tableData = {}
    /\ reference = [r \in {StoredRow(id) : id \in DOMAIN dbRows} |-> dbRows[r[1]]]
    /\ restored = {}

\* Condition::process.
Process(entry, condition) ==
    ~entry.removed /\ ~entry.deleted /\ entry.value \in condition

\* Mutant: rows whose new value meets the condition are looked for only among
\* those whose stored value does.
SelectFromDb(condition) ==
    LET found == {id \in DOMAIN dbRows : dbRows[id] \in condition}
    IN  {StoredRow(id) : id \in {j \in found : j \in DOMAIN tableDirty => Process(tableDirty[j], condition)}}
        \cup {NewRow(i) : i \in {j \in DOMAIN newEntries : Process(newEntries[j], condition)}}

\* selectNoLock: the storage's rows as m_dirty has them, the updated rows the
\* storage would not find, the new rows.
SelectNoLock(condition) ==
    LET found == {id \in DOMAIN dbRows : dbRows[id] \in condition}
    IN  {StoredRow(id) : id \in {j \in found : j \in DOMAIN tableDirty => Process(tableDirty[j], condition)}}
        \cup {StoredRow(id) : id \in {j \in dirtyUpdated \ found : Process(tableDirty[j], condition)}}
        \cup {NewRow(i) : i \in {j \in DOMAIN newEntries : Process(newEntries[j], condition)}}

\* The entry a row stands for.
EntryOf(r) ==
    IF r[1] = 0 THEN newEntries[r[2]]
    ELSE IF r[1] \in DOMAIN tableDirty THEN tableDirty[r[1]]
    ELSE [value |-> dbRows[r[1]], removed |-> FALSE, deleted |-> FALSE]

\* Every row of the function is given its entry, stored rows as dirty ones.
SetEntries(entries) ==
    LET ids == {r[1] : r \in {s \in DOMAIN entries : s[1] # 0}}
    IN  /\ tableDirty' = [id \in DOMAIN tableDirty \cup ids |->
                             IF id \in ids THEN entries[StoredRow(id)] ELSE tableDirty[id]]
        /\ newEntries' = [i \in DOMAIN newEntries |->
                             IF NewRow(i) \in DOMAIN entries THEN entries[NewRow(i)] ELSE newEntries[i]]

\* m_recorder.  `was' has the entries that the change found.
Record(kind, was) == changeLog' = Append(changeLog, [kind |-> kind, was |-> was])

TableUpdate ==
    /\ Len(changeLog) < MaxChanges
    /\ \E condition \in Conditions, v \in TableValues :
          LET rows == SelectNoLock(condition)
          IN  /\ SetEntries([r \in rows |-> [EntryOf(r) EXCEPT !.value = v]])
              /\ dirtyUpdated' = dirtyUpdated \cup
                    {r[1] : r \in {s \in rows : s[1] # 0 /\ s[1] \notin DOMAIN tableDirty}}
              /\ Record("update", [r \in rows |-> EntryOf(r)])
              /\ reference' = [r \in DOMAIN reference |->
                                  IF reference[r] \in condition THEN v ELSE reference[r]]
    /\ tableData' = Stale
    /\ UNCHANGED <<dbRows, lastId, savepoints, restored>>

TableInsert ==
    /\ Len(changeLog) < MaxChanges
    /\ lastId + Len(newEntries) < MaxRowId
    /\ \E v \in TableValues :
          LET entry == [value |-> v, removed |-> FALSE, deleted |-> FALSE]
              row == NewRow(Len(newEntries) + 1)
          IN  /\ newEntries' = Append(newEntries, entry)
              /\ Record("insert", [r \in {row} |-> entry])
              /\ reference' = [r \in DOMAIN reference \cup {row} |-> IF r = row THEN v ELSE reference[r]]
    /\ tableData' = Stale
    /\ UNCHANGED <<dbRows, lastId, tableDirty, dirtyUpdated, savepoints, restored>>

TableRemove ==
    /\ Len(changeLog) < MaxChanges
    /\ \E condition \in Conditions :
          LET rows == SelectNoLock(condition)
          IN  /\ SetEntries([r \in rows |-> [EntryOf(r) EXCEPT !.removed = TRUE]])
              /\ Record("remove", [r \in rows |-> EntryOf(r)])
              /\ reference' = [r \in {s \in DOMAIN reference : reference[s] \notin condition} |-> reference[r]]
    /\ tableData' = Stale
    /\ UNCHANGED <<dbRows, lastId, dirtyUpdated, savepoints, restored>>

\* A call begins (Executive::call, callRC2, executeCreate).
Savepoint ==
    /\ Len(savepoints) < MaxSavepoints
    /\ savepoints' = Append(savepoints, [at |-> Len(changeLog), reference |-> reference])
    /\ UNCHANGED <<dbRows, lastId, tableDirty, dirtyUpdated, newEntries, changeLog,
                   tableData, reference, restored>>

\* A call ends well: its changes stay in the log, for its caller to undo.
CallReturns ==
    /\ savepoints # <<>>
    /\ savepoints' = SubSeq(savepoints, 1, Len(savepoints) - 1)
    /\ UNCHANGED <<dbRows, lastId, tableDirty, dirtyUpdated, newEntries, changeLog,
                   tableData, reference, restored>>

\* The change of a row that a rollback to `at' undoes last.
LastUndone(r, at) ==
    LET l == CHOOSE k \in at + 1 .. Len(changeLog) :
                 /\ r \in DOMAIN changeLog[k].was
                 /\ \A j \in at + 1 .. k - 1 : r \notin DOMAIN changeLog[j].was
    IN  changeLog[l]

\* MemoryTableFactory2::rollback and MemoryTable2::rollback.  The changes are
\* undone newest first, so a row ends as its oldest undone change found it;
\* an inserted row is marked deleted.  Neither m_dirty_updated nor
\* m_hashDirty is touched, and a row stays in m_dirty.
TableRollback ==
    /\ savepoints # <<>>
    /\ LET save == savepoints[Len(savepoints)]
           undone == UNION {DOMAIN changeLog[k].was : k \in save.at + 1 .. Len(changeLog)}
           removals == UNION {DOMAIN changeLog[k].was :
                                 k \in {j \in save.at + 1 .. Len(changeLog) : changeLog[j].kind = "remove"}}
       IN  /\ SetEntries([r \in undone |->
                 LET change == LastUndone(r, save.at)
                 IN  IF change.kind = "insert" THEN [change.was[r] EXCEPT !.deleted = TRUE]
                     ELSE change.was[r]])
           /\ restored' = restored \cup {r \in removals : r[1] # 0}
           /\ changeLog' = SubSeq(changeLog, 1, save.at)
           /\ reference' = save.reference
    /\ savepoints' = SubSeq(savepoints, 1, Len(savepoints) - 1)
    /\ UNCHANGED <<dbRows, lastId, dirtyUpdated, tableData>>

\* The transaction is over (StorageState::commit, ExecutiveContext).
CommitChanges ==
    /\ savepoints = <<>>
    /\ changeLog # <<>>
    /\ changeLog' = <<>>
    /\ UNCHANGED <<dbRows, lastId, tableDirty, dirtyUpdated, newEntries, savepoints,
                   tableData, reference, restored>>

\* dump: the rows it collects, or the last ones if nothing has changed since.
Dumped ==
    IF tableData # Stale THEN tableData
    ELSE {StoredRow(id) : id \in DOMAIN tableDirty}
         \cup {NewRow(i) : i \in {j \in DOMAIN newEntries : ~newEntries[j].deleted}}

\* hash, when every transaction is over.
HashTable ==
    /\ savepoints = <<>>
    /\ changeLog = <<>>
    /\ tableData' = Dumped
    /\ UNCHANGED <<dbRows, lastId, tableDirty, dirtyUpdated, newEntries, changeLog, savepoints,
                   reference, restored>>

\* The rows the storage has once it has taken the dump.
Written ==
    LET rows == {r \in Dumped : ~EntryOf(r).removed}
                \cup {StoredRow(id) : id \in {j \in DOMAIN dbRows : StoredRow(j) \notin Dumped}}
    IN  [r \in rows |-> EntryOf(r).value]

\* commitDB: the dumped new rows are numbered, the rows go to the storage, and
\* the next block begins with another table.
CommitDB ==
    /\ savepoints = <<>>
    /\ LET fresh == {r[2] : r \in {s \in Dumped : s[1] = 0}}
           id(r) == IF r[1] # 0 THEN r[1] ELSE lastId + Cardinality({i \in fresh : i <= r[2]})
           rows == [n \in {id(r) : r \in DOMAIN Written} |->
                       Written[CHOOSE r \in DOMAIN Written : id(r) = n]]
       IN  /\ lastId' = lastId + Cardinality(fresh)
           /\ dbRows' = rows
           /\ reference' = [r \in {StoredRow(n) : n \in DOMAIN rows} |-> rows[r[1]]]
    /\ tableDirty' = <<>>
    /\ dirtyUpdated' = {}
    /\ newEntries' = <<>>
    /\ changeLog' = <<>>
    /\ tableData' = {}
    /\ restored' = {}
    /\ UNCHANGED savepoints

TableNext ==
    \/ TableUpdate
    \/ TableInsert
    \/ TableRemove
    \/ Savepoint
    \/ CallReturns
    \/ TableRollback
    \/ CommitChanges
    \/ HashTable
    \/ CommitDB

TableSpec == TableInit /\ [][TableNext]_tableVars

-----------------------------------------------------------------------------
\* A query returns the rows that meet its condition after every insertion,
\* update, removal and undone call so far, though the storage is asked about
\* their old values.  Rows whose removal was undone are left out: remove does
\* not enter a row into m_dirty_updated, so once rollback has restored it a
\* later update is not found by its new value.  And what commitDB hands to the
\* storage between two transactions is the table as its operations left it:
\* nothing of an undone call, nothing missing.
TableExact ==
    /\ \A condition \in Conditions :
          SelectNoLock(condition) \ restored
              = {r \in DOMAIN reference : reference[r] \in condition} \ restored
    /\ savepoints = <<>> =>
          /\ DOMAIN Written \ restored = DOMAIN reference \ restored
          /\ \A r \in DOMAIN Written \ restored : Written[r] = reference[r]
=============================================================================
